----------------------------- MODULE CanvasLab -----------------------------
(***************************************************************************)
(* The multimodal laboratory of packages/multimodal-lab on the root canvas *)
(* of a server: frames leased to whoever observes, actions that name the   *)
(* frame they were decided on, undo and redo by replacing the whole state, *)
(* and the server's recovery from the last checkpoint of its event ledger. *)
(*                                                                         *)
(* The awaits inside a request resolve without I/O, so a request is one    *)
(* step; what interleaves are requests.  Everybody else who writes to the  *)
(* workspace is a foreign editor.                                          *)
(*                                                                         *)
(* The canvas is a row of cells.  A frame is Width cells of it from the    *)
(* viewport on, the content of an object is the action that wrote it last, *)
(* and a stateHash is the state without what it leaves out (Hashed).       *)
(***************************************************************************)
EXTENDS Naturals, Integers, SequencesExt, FiniteSets

CONSTANTS Objects,         \* object ids
          Benchmark,       \* the objects a benchmark reset creates
          Texts,           \* the objects that hold text
          ActionIds,       \* action ids clients choose
          Bodies,          \* the actions clients ask for
          None,            \* absent entry
          Width,           \* cells a frame shows
          Cells,           \* bound: where objects are put
          Views,           \* bound: where the viewport is put
          MaxFrames, KeptStale, Kept,  \* 200, 120 and 160 in #pruneFrames
          MaxObservations, \* bound: frames taken
          MaxForeign,      \* bound: foreign commits
          MaxRestarts      \* bound: restarts

Points == 0 .. Width - 1

\* Kinds of action.  "text" is the type_text gesture, which edits the text it hits and
\* creates one elsewhere; "patch" is resize, restyle and set_text; "view" is the
\* viewport action and the pan and zoom gestures.
Kinds == {"move", "patch", "delete", "create", "text", "view"}

\* What a client asks for: on an object it names (a semantic action) or on what is at a
\* point of its frame (a gesture).  Of a semantic action `to' is a cell.
Body == [kind : Kinds, object : Objects \cup {None}, from : Points, to : Int]

ASSUME LabConstants ==
  /\ Benchmark \subseteq Objects /\ Texts \subseteq Objects
  /\ None \notin Objects \cup ActionIds
  /\ Width \in Nat \ {0}
  /\ Bodies \subseteq Body
  /\ Cells \subseteq Int /\ Views \subseteq Int /\ 0 \in Cells \cap Views
  /\ MaxFrames \in Nat /\ Kept \in 1 .. MaxFrames /\ KeptStale \in 0 .. Kept

VARIABLES store,      \* the canvas store
          viewport,   \* the adapter's viewport
          childRoom,  \* the registry has a room for the child canvas
          frames,     \* #frames
          observed,   \* frames taken so far: the next frame id is observed + 1
          expired,    \* the frames up to this one are past their lease
          actions,    \* #actions: the request each action id was used for
          undo, redo, \* #undo and #redo
          initial,    \* #initialState
          saved,      \* the ledger's latest snapshot, or None
          foreign,    \* history: foreign commits so far
          alone,      \* history: no foreign commit since the history began
          torn,       \* history: a reset has failed half-way since the history began
          restarts,   \* history: restarts so far
          done        \* history: the last action that was carried out, or None

vars == <<store, viewport, childRoom, frames, observed, expired, actions, undo, redo,
          initial, saved, foreign, alone, torn, restarts, done>>

\* times[k]: how often the effect of the transaction with key k is in the state (history).
LabKeys == {"action", "benchmark"} \X ActionIds
ObjectRecord == [at : Int, z : Nat, rev : Nat, by : ActionIds \cup {None}]
States == [rev : Nat, objs : [Objects -> ObjectRecord \cup {None}], child : BOOLEAN,
           keys : SUBSET LabKeys, times : [LabKeys -> Nat]]

NewStore == [rev |-> 0, objs |-> [o \in Objects |-> None], child |-> FALSE,
             keys |-> {}, times |-> [k \in LabKeys |-> 0]]

\* stateHash leaves out the idempotency keys.
Hashed(s) == [rev |-> s.rev, objs |-> s.objs, child |-> s.child]

Present(s) == {o \in Objects : s.objs[o] # None}

NoHistory == undo' = <<>> /\ redo' = <<>>

----------------------------------------------------------------------------
(* Observation and pruning.                                                *)

Newest(d, n) == {f \in d : Cardinality({g \in d : g > f}) < n}

\* Which frames are left: past the limit the oldest stale ones go until KeptStale are
\* left, then the oldest whatever their age until Kept are.
Pruned(d) ==
  IF Cardinality(d) =< MaxFrames THEN d
  ELSE LET live == Cardinality({f \in d : f > expired})
       IN Newest(d, IF live > Kept THEN Kept ELSE IF live > KeptStale THEN live ELSE KeptStale)

\* The frames after n observations of state s through viewport v.
Taken(n, s, v) ==
  LET d == Pruned(DOMAIN frames \cup (observed + 1 .. observed + n))
  IN [f \in d |-> IF f > observed THEN [state |-> s, view |-> v] ELSE frames[f]]

Observes(n, s, v) ==
  /\ observed + n =< MaxObservations
  /\ observed' = observed + n
  /\ frames' = Taken(n, Hashed(s), v)
  /\ UNCHANGED expired

Observe ==
  /\ Observes(1, store, viewport)
  /\ UNCHANGED <<store, viewport, childRoom, actions, undo, redo, initial, saved,
                 foreign, alone, torn, restarts, done>>

\* The lease of the oldest frame runs out.
Expire ==
  /\ expired < observed
  /\ expired' = expired + 1
  /\ UNCHANGED <<store, viewport, childRoom, frames, observed, actions, undo, redo,
                 initial, saved, foreign, alone, torn, restarts, done>>

\* Mutant of FreshFrame: the state hash is not compared.
FreshFrameByRevision(f, revision) ==
  /\ f \in DOMAIN frames /\ f > expired
  /\ frames[f].state.rev = store.rev /\ revision = store.rev
  /\ frames[f].view = viewport

FreshFrame(f, revision) ==
  /\ f \in DOMAIN frames /\ f > expired
  /\ frames[f].state.rev = store.rev /\ revision = store.rev
  /\ frames[f].state = Hashed(store)
  /\ frames[f].view = viewport

----------------------------------------------------------------------------
(* What an action does to the canvas.                                      *)

\* The visible object on top at a cell.
Hit(s, cell) ==
  LET here == {o \in Present(s) : s.objs[o].at = cell}
  IN IF here = {} THEN None
     ELSE CHOOSE o \in here : \A p \in here : s.objs[p].z =< s.objs[o].z

\* The object a body is about in state s seen through viewport v.
Target(b, s, v) == IF b.object # None THEN b.object ELSE Hit(s, v + b.from)

NextZ(s) ==
  IF Present(s) = {} THEN 1
  ELSE 1 + (CHOOSE z \in {s.objs[o].z : o \in Present(s)} :
              \A o \in Present(s) : s.objs[o].z =< z)

Created(s, o, cell, by) ==
  [s EXCEPT !.objs[o] = [at |-> cell, z |-> NextZ(s), rev |-> 0, by |-> by]]
Moved(s, o, cell, by) ==
  [s EXCEPT !.objs[o] = [@ EXCEPT !.at = cell, !.rev = @ + 1, !.by = by]]
Patched(s, o, by) == [s EXCEPT !.objs[o] = [@ EXCEPT !.rev = @ + 1, !.by = by]]
Deleted(s, o) == [s EXCEPT !.objs[o] = None]

Creates(s, b) ==
  b.kind = "create" \/ (b.kind = "text" /\ Target(b, s, viewport) \notin Texts)

\* An action on an object finds it before the transaction is made.
Resolves(s, b) == Creates(s, b) \/ Target(b, s, viewport) \in Present(s)

\* The states the operation of body b may leave: none when it is refused.  The id of an
\* object a gesture creates is new.
Outcomes(s, b, by) ==
  LET t == Target(b, s, viewport)
      cell == IF b.object # None THEN b.to ELSE viewport + b.from
      goal == IF b.object # None THEN b.to ELSE s.objs[t].at + b.to - b.from
  IN IF Creates(s, b)
     THEN {Created(s, o, cell, by) :
             o \in (IF b.object # None THEN {b.object} ELSE Objects \ Benchmark) \ Present(s)}
     ELSE CASE b.kind = "move" -> IF goal \in Cells THEN {Moved(s, t, goal, by)} ELSE {}
            [] b.kind = "delete" -> {Deleted(s, t)}
            [] OTHER -> {Patched(s, t, by)}

\* Mutant of Committed: the transactions of the laboratory carry no idempotency key.
CommittedWithoutKey(s, key, outcomes) ==
  {[t EXCEPT !.rev = @ + 1, !.times[key] = @ + 1] : t \in outcomes}

\* applyTransaction: a key that was used before is answered without a change.
Committed(s, key, outcomes) ==
  IF key \in s.keys THEN {s}
  ELSE {[t EXCEPT !.rev = @ + 1, !.keys = @ \cup {key}, !.times[key] = @ + 1] :
          t \in outcomes}

\* The registry replaces the state through a room for each canvas of it, and a room is
\* opened on a canvas that exists.
CanReplace(s) == s.child => childRoom \/ store.child

Replaced(s) == childRoom' = (childRoom \/ s.child)

Entry(a, before, after) == [id |-> a, before |-> before, after |-> after]

\* Mutant of Pushes: what was undone stays on the redo stack.
PushesOnly(entry) == undo' = Append(undo, entry) /\ redo' = redo

\* A new action ends what could be redone.
Pushes(entry) == undo' = Append(undo, entry) /\ redo' = <<>>

----------------------------------------------------------------------------
(* Requests.  An action id that was used before is answered from #actions, *)
(* or refused when it was used for something else.                         *)

Plain(kind) == [kind |-> kind, object |-> None, from |-> 0, to |-> 0]

\* What an action id is recorded with: the frame, which a reset may not have, and the rest.
Requests == [frame : Nat \cup {None},
             body : Body \cup {Plain("undo"), Plain("redo"), Plain("reset")}]

New(a) == actions[a] = None
Records(a, f, b) == actions' = [actions EXCEPT ![a] = [frame |-> f, body |-> b]]

\* A request that was answered before, or whose frame is not fresh, changes nothing.
Answered(a) == ~New(a) /\ UNCHANGED vars
Refused(f) == ~FreshFrame(f, store.rev) /\ UNCHANGED vars

\* What was carried out, and what the frame it named showed there.
Evidence(a, f, b) ==
  done' = [id |-> a, body |-> b,
           seen  |-> Target(b, [objs |-> frames[f].state.objs], frames[f].view),
           acted |-> Target(b, store, viewport)]

\* A transaction over `base', checkpointed; the entry ends at the store it leaves.
Carries(a, base, key, outcomes, looks) ==
  \E s \in Committed(base, key, outcomes) :
    /\ store' = s /\ saved' = s
    /\ Pushes(Entry(a, store, s))
    /\ Observes(looks, s, viewport)

Execute(a, f, b) ==
  /\ New(a) /\ FreshFrame(f, frames[f].state.rev)
  /\ b.kind # "view" /\ Resolves(store, b)
  /\ Carries(a, store, <<"action", a>>, Outcomes(store, b, a), 1)
  /\ Records(a, f, b) /\ Evidence(a, f, b)
  /\ UNCHANGED <<viewport, childRoom, initial, foreign, alone, torn, restarts>>

\* Where a drag of the canvas brings the viewport.
Panned(b) == viewport + b.from - b.to

\* The viewport belongs to the adapter, not to the state: it is not undone.
ExecuteViewport(a, f, b) ==
  /\ New(a) /\ FreshFrame(f, frames[f].state.rev)
  /\ b.kind = "view"
  /\ Panned(b) \in Views \ {viewport}
  /\ viewport' = Panned(b)
  /\ Observes(1, store, Panned(b))
  /\ Records(a, f, b)
  /\ UNCHANGED <<store, childRoom, undo, redo, initial, saved, foreign, alone, torn, restarts, done>>

\* The store goes back, or forward again, to a state of the history, revision and keys
\* included; nothing is checkpointed.
Returns(a, f, kind, to) ==
  /\ New(a) /\ FreshFrame(f, store.rev)
  /\ CanReplace(to) /\ Replaced(to)
  /\ store' = to
  /\ Observes(1, to, viewport)
  /\ Records(a, f, Plain(kind))
  /\ UNCHANGED <<viewport, initial, saved, foreign, alone, torn, restarts, done>>

Undo(a, f) ==
  /\ undo # <<>>
  /\ Returns(a, f, "undo", Last(undo).before)
  /\ undo' = Front(undo) /\ redo' = Append(redo, Last(undo))

Redo(a, f) ==
  /\ redo # <<>>
  /\ Returns(a, f, "redo", Last(redo).after)
  /\ undo' = Append(undo, Last(redo)) /\ redo' = Front(redo)

\* The benchmark scene on top of a state.
Scene(s, a) ==
  IF Benchmark \cap Present(s) # {} THEN {}
  ELSE {[s EXCEPT !.objs = [o \in Objects |-> IF o \in Benchmark
           THEN [at |-> 0, z |-> 1, rev |-> 0, by |-> a] ELSE s.objs[o]]]}

\* A reset names a frame or takes one; f = None is the latter.
ResetFrame(f) == f # None => FreshFrame(f, store.rev)
Looks(f) == IF f = None THEN 2 ELSE 1

ResetBenchmark(a, f) ==
  /\ New(a) /\ ResetFrame(f)
  /\ CanReplace(initial) /\ Replaced(initial)
  /\ Carries(a, initial, <<"benchmark", a>>, Scene(initial, a), Looks(f))
  /\ Records(a, f, Plain("reset"))
  /\ UNCHANGED <<viewport, initial, foreign, alone, torn, restarts, done>>

\* The scene cannot be created when #initialState, the recovered state of a server that
\* was restarted, holds it already: the request fails after it replaced the state, and
\* neither stack has an entry for what it did.
ResetFails(a, f) ==
  /\ New(a) /\ ResetFrame(f)
  /\ CanReplace(initial) /\ Replaced(initial)
  /\ Committed(initial, <<"benchmark", a>>, Scene(initial, a)) = {}
  /\ store' = initial
  /\ torn' = TRUE
  /\ Observes(Looks(f) - 1, store, viewport)
  /\ UNCHANGED <<viewport, actions, undo, redo, initial, saved, foreign, alone, restarts, done>>

----------------------------------------------------------------------------
(* Everybody else, and the server.                                         *)

Commits(s) ==
  /\ foreign < MaxForeign
  /\ foreign' = foreign + 1 /\ alone' = FALSE
  /\ store' = [s EXCEPT !.rev = @ + 1] /\ saved' = store'
  /\ UNCHANGED <<viewport, frames, observed, expired, actions, undo, redo, initial,
                 torn, restarts, done>>

ForeignEdit ==
  /\ \E o \in Objects \ Benchmark :
       \/ o \notin Present(store) /\ Commits(Created(store, o, 0, None))
       \/ o \in Present(store) /\ Commits(Moved(store, o, 1, None))
       \/ o \in Present(store) /\ Commits(Deleted(store, o))
  /\ UNCHANGED childRoom

\* open_subcanvas of the MCP server opens the room too, /api/demo/subcanvas does not.
ForeignSubcanvas ==
  /\ ~store.child
  /\ Commits([store EXCEPT !.child = TRUE])
  /\ childRoom' \in {childRoom, TRUE}

\* /api/viewport sets it without a frame.
ForeignViewport ==
  /\ foreign < MaxForeign
  /\ foreign' = foreign + 1
  /\ viewport' \in Views \ {viewport}
  /\ UNCHANGED <<store, childRoom, frames, observed, expired, actions, undo, redo,
                 initial, saved, alone, torn, restarts, done>>

Recovered(snapshot) == IF snapshot = None THEN NewStore ELSE snapshot

\* Frames, actions and history are memory; a restart recovers the store from the last
\* snapshot.
Boots(snapshot) ==
  /\ restarts < MaxRestarts
  /\ restarts' = restarts + 1
  /\ store' = Recovered(snapshot) /\ initial' = store' /\ saved' = snapshot
  /\ viewport' = 0 /\ childRoom' = FALSE
  /\ frames' = <<>> /\ expired' = observed
  /\ actions' = [a \in ActionIds |-> None]
  /\ NoHistory /\ alone' = TRUE /\ torn' = FALSE
  /\ UNCHANGED <<observed, foreign, done>>

Crash == Boots(saved)

\* close() saves a snapshot of the store as it is.
Shutdown == Boots(store)

Init ==
  /\ store = NewStore /\ initial = NewStore /\ saved = None
  /\ viewport = 0 /\ childRoom = FALSE
  /\ frames = <<>> /\ observed = 0 /\ expired = 0
  /\ actions = [a \in ActionIds |-> None]
  /\ undo = <<>> /\ redo = <<>>
  /\ foreign = 0 /\ alone = TRUE /\ torn = FALSE /\ restarts = 0 /\ done = None

Next ==
  \/ Observe \/ Expire
  \/ \E a \in ActionIds, f \in DOMAIN frames :
       \/ \E b \in Bodies : Execute(a, f, b) \/ ExecuteViewport(a, f, b)
       \/ Undo(a, f) \/ Redo(a, f)
  \/ \E a \in ActionIds, f \in DOMAIN frames \cup {None} :
       ResetBenchmark(a, f) \/ ResetFails(a, f)
  \/ ForeignEdit \/ ForeignSubcanvas \/ ForeignViewport
  \/ Crash \/ Shutdown
  \/ \E a \in ActionIds : Answered(a)
  \/ \E f \in 1 .. observed : Refused(f)

Spec == Init /\ [][Next]_vars

----------------------------------------------------------------------------
(* Properties.                                                             *)

\* What a gesture touches is what its frame showed at that point, although foreign
\* editors, other windows and undo write to the canvas between observation and request,
\* and undo brings revisions back that were seen with other content (#assertFreshFrame).
SeenIsDone == done # None => done.seen = done.acted

\* An action id has its effect on the canvas at most once, however often it is sent,
\* and although #actions is lost with the server: the key in the recovered state answers
\* the retry.
EffectOnce == \A k \in LabKeys : store.times[k] =< 1

\* While nobody else writes and no reset has failed half-way, undo and redo walk one line of
\* states in both directions: the store is where the last undo entry ends and the last redo
\* entry begins. A reset that fails after it replaced the state breaks the line itself.
HistoryReturns ==
  alone /\ ~torn =>
    /\ undo # <<>> => Last(undo).after = store
    /\ redo # <<>> => Last(redo).before = store
    /\ \A i \in 1 .. Len(undo) - 1 : undo[i].after = undo[i + 1].before
    /\ \A i \in 1 .. Len(redo) - 1 : redo[i].before = redo[i + 1].after

\* The laboratory's contract has the history store the states before and after every object
\* mutation and benchmark reset: so while nobody else writes, the last undo entry ends at
\* the state the canvas is in. A reset that fails half-way leaves it elsewhere.
HistoryIsComplete == alone /\ undo # <<>> => Last(undo).after = store

=============================================================================
