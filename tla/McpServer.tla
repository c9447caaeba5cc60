----------------------------- MODULE McpServer -----------------------------
(***************************************************************************)
(* The MCP reference server over the rooms of the sync registry: sessions, *)
(* roles, subscriptions, the canvas tools and the tools of the laboratory, *)
(* with the snapshots it keeps in memory and in the event ledger, and the  *)
(* server's restart.                                                       *)
(*                                                                         *)
(* A request runs without I/O, so it is one step.  The content of a canvas *)
(* is the transaction that wrote it last, 0 when it is empty or gone; what *)
(* a transaction does inside a canvas is CanvasStore's subject, and how a  *)
(* room numbers its updates SyncRoom's.  Here a room is what replaying its *)
(* log shows of its canvas (told).                                         *)
(***************************************************************************)
EXTENDS Naturals, FiniteSets, SequencesExt

CONSTANTS Canvases,     \* canvas ids
          Root,         \* the root canvas
          Parent,       \* the canvas that holds the portal of each other canvas
          Sessions,     \* MCP session ids
          None,         \* no session, no snapshot
          MaxCommits,   \* bound: transactions
          MaxSubscriptions, \* bound: canvases a session is subscribed to
          MaxSnapshots, \* bound: snapshots taken by a tool
          MaxRestarts   \* bound: restarts

ASSUME McpConstants ==
  /\ Root \in Canvases
  /\ Parent \in [Canvases \ {Root} -> Canvases]
  /\ {MaxCommits, MaxSubscriptions, MaxSnapshots, MaxRestarts} \subseteq Nat

VARIABLES store,     \* the canvas store
          rooms,     \* the canvases the registry has a room for
          told,      \* what the durable log of a canvas's room shows of it
          sessions,  \* #sessions
          memory,    \* #snapshots
          ledger,    \* the snapshots table, by the ids tools answered
          saved,     \* the newest state in that table, or None
          base,      \* the laboratory's initial state: the store as it was at the start
          undo,      \* the laboratory's history: states before and after its actions
          redo,
          commits,   \* transactions so far
          restarts,  \* history: restarts so far
          answered,  \* history: the snapshots that were answered to a client
          lost,      \* history: canvases whose room's log was left behind (see Leaves)
          passed     \* history: canvases written through the room of another one since
                     \* their own room was told what is on them

snapshots == <<memory, ledger, answered>>
lab       == <<base, undo, redo>>

vars == <<store, rooms, told, sessions, saved, commits, restarts, lost, passed,
          snapshots, lab>>

States == [canvases : SUBSET Canvases, content : [Canvases -> Nat]]
ASSUME McpNone == None \notin States
Snapshot == [canvas : Canvases, state : States]
Roles == {"owner", "agent-direct", "viewer"}
Change == [before : States, after : States]
Session == [ready : BOOLEAN, role : Roles, subscriptions : SUBSET Canvases, stream : BOOLEAN]

Empty == [c \in Canvases |-> 0]
NewStore == [canvases |-> {Root}, content |-> Empty]

\* The variables have their types, and a session a role of the server's.
TypeOK ==
  /\ store \in States /\ told \in [Canvases -> Nat] /\ rooms \subseteq Canvases
  /\ sessions \in [Sessions -> Session \cup {None}]
  /\ saved \in States \cup {None}
  /\ \A s \in {memory, ledger, answered} : \A i \in DOMAIN s : s[i] \in Snapshot
  /\ base \in States /\ undo \in Seq(Change) /\ redo \in Seq(Change)

----------------------------------------------------------------------------
(* Sessions.                                                               *)

\* The roles a client may claim in its headers.
Claims == Roles \cup {"other"}

NormalizeRole(claim) == IF claim \in Roles THEN claim ELSE "viewer"

Initialize(s, claim) ==
  /\ sessions[s] = None
  /\ sessions' = [sessions EXCEPT ![s] =
       [ready |-> FALSE, role |-> NormalizeRole(claim), subscriptions |-> {}, stream |-> FALSE]]
  /\ UNCHANGED <<store, rooms, told, saved, commits, restarts, lost, passed, snapshots, lab>>

Updates(s, session) ==
  /\ sessions[s] # None
  /\ sessions' = [sessions EXCEPT ![s] = session]
  /\ UNCHANGED <<store, rooms, told, saved, commits, restarts, lost, passed, snapshots, lab>>

Initialized(s) == sessions[s] # None /\ Updates(s, [sessions[s] EXCEPT !.ready = TRUE])

\* GET /mcp asks for a session, not for an initialized one.
OpenStream(s) == sessions[s] # None /\ Updates(s, [sessions[s] EXCEPT !.stream = TRUE])
CloseStream(s) == sessions[s] # None /\ Updates(s, [sessions[s] EXCEPT !.stream = FALSE])
EndSession(s) == Updates(s, None)

Ready(s) == sessions[s] # None /\ sessions[s].ready

\* A URI is subscribed to whether or not there is such a canvas.
Subscribe(s, c) ==
  /\ Ready(s) /\ Cardinality(sessions[s].subscriptions) < MaxSubscriptions
  /\ Updates(s, [sessions[s] EXCEPT !.subscriptions = @ \cup {c}])
Unsubscribe(s, c) ==
  Ready(s) /\ Updates(s, [sessions[s] EXCEPT !.subscriptions = @ \ {c}])

\* The tools that read, those that change something, and those that are high risk.
CanvasTools ==
  [read  |-> {"get_state", "get_viewport", "query_objects", "render_viewport", "verify",
              "get_lineage", "get_events"},
   write |-> {"create_objects", "patch_objects", "delete_objects", "set_viewport",
              "create_snapshot", "open_subcanvas", "fold_subcanvas"},
   risk  |-> {"restore_snapshot"}]
LabTools ==
  [read  |-> {"observe", "observe_adaptive", "observe_passive", "rank_observation_policies",
              "rasterize", "verify_benchmark", "get_trajectory"},
   write |-> {"act", "undo", "redo"},
   risk  |-> {"reset_benchmark"}]

May(s, tool) ==
  /\ Ready(s)
  /\ tool \in CanvasTools.read \cup LabTools.read \/ sessions[s].role \in {"owner", "agent-direct"}
  /\ tool \in CanvasTools.risk \cup LabTools.risk => sessions[s].role = "owner"

----------------------------------------------------------------------------
(* Rooms, transactions and replacements.                                   *)

\* roomFor: a room that is open, or of a canvas that exists.
HasRoom(c) == c \in rooms \cup store.canvases

\* A transaction on canvas c that room via applies, logs and sends to its peers, and does
\* not compare with its own canvas; the adapter's listener checkpoints the store.
Commits(c, via, created) ==
  /\ commits < MaxCommits
  /\ commits' = commits + 1
  /\ store' = [canvases |-> store.canvases \cup created,
               content |-> [store.content EXCEPT ![c] = commits + 1]]
  /\ rooms' = rooms \cup {via} \cup created
  /\ told' = IF via = c THEN [told EXCEPT ![c] = commits + 1] ELSE told
  /\ passed' = IF via = c THEN passed \ {c} ELSE passed \cup {c}
  /\ saved' = store'
  /\ UNCHANGED <<sessions, restarts, lost, snapshots>>

\* The registry opens a room for each canvas of the state, then replaces it in every room.
CanReplace(state) == \A c \in state.canvases : HasRoom(c)

\* Mutant of Tells: a replacement is logged by the room of the snapshot's canvas only.
TellsRoom(snapshot) == {snapshot.canvas}

\* The rooms that log the replacement by a snapshot.
Tells(snapshot) == rooms \cup snapshot.state.canvases

\* A room that is closed has a log of earlier days: what it says of a canvas that goes is
\* not corrected.
Leaves(state, open) == {c \in Canvases \ open : told[c] # state.content[c]}

\* replaceAll.  Neither a checkpoint nor an event of the ledger tells of it.
Replaces(snapshot) ==
  /\ store' = snapshot.state
  /\ rooms' = rooms \cup snapshot.state.canvases
  /\ told' = [c \in Canvases |->
       IF c \in Tells(snapshot) THEN snapshot.state.content[c] ELSE told[c]]
  /\ lost' = Leaves(snapshot.state, rooms')
  /\ passed' = passed \ rooms'

ReplaceFails(state) ==
  /\ ~CanReplace(state)
  /\ \E opened \in SUBSET (state.canvases \cap store.canvases) : rooms' = rooms \cup opened
  /\ UNCHANGED <<store, told, lost, passed, saved>>

----------------------------------------------------------------------------
(* The canvas tools.  Every call opens the room of the canvas it names.    *)

\* The tools that read, set_viewport, and what a revision refuses.
Reads(s, c) ==
  /\ \E tool \in CanvasTools.read : May(s, tool)
  /\ HasRoom(c)
  /\ rooms' = rooms \cup {c}
  /\ UNCHANGED <<store, told, sessions, saved, commits, restarts, lost, passed, snapshots, lab>>

\* create_objects, patch_objects and delete_objects.
Edits(s, c) ==
  /\ \E tool \in {"create_objects", "patch_objects", "delete_objects"} : May(s, tool)
  /\ c \in store.canvases
  /\ Commits(c, c, {})
  /\ UNCHANGED lab

\* create_objects with an idempotency key that was used: the room logs the transaction
\* again and the adapter announces it, which checkpoints the store.
Retries(s, c) ==
  /\ May(s, "create_objects") /\ c \in store.canvases /\ store.content[c] # 0
  /\ rooms' = rooms \cup {c}
  /\ saved' = store
  /\ UNCHANGED <<store, told, sessions, commits, restarts, lost, passed, snapshots, lab>>

OpenSubcanvas(s, c) ==
  /\ May(s, "open_subcanvas")
  /\ c \in Canvases \ (store.canvases \cup {Root}) /\ Parent[c] \in store.canvases
  /\ Commits(Parent[c], Parent[c], {c})
  /\ UNCHANGED lab

\* fold_subcanvas patches the portal, on the portal's canvas.  The room is that of the
\* canvas the call names, and the tool's schema offers none: it is the root's.
FoldSubcanvas(s, c) ==
  /\ May(s, "fold_subcanvas")
  /\ c \in store.canvases \ {Root} /\ Parent[c] \in store.canvases
  /\ Commits(Parent[c], Root, {})
  /\ UNCHANGED lab

\* Mutant of Saves: the snapshot is kept in memory only.
SavesNothing(i, snapshot) == ledger' = ledger /\ saved' = saved

\* saveSnapshot: a snapshot by its id, and the newest one is what a restart recovers.
Saves(i, snapshot) ==
  /\ ledger' = [j \in DOMAIN ledger \cup {i} |-> IF j = i THEN snapshot ELSE ledger[j]]
  /\ saved' = snapshot.state

CreateSnapshot(s, c) ==
  /\ May(s, "create_snapshot") /\ c \in store.canvases
  /\ LET i == Cardinality(DOMAIN answered) + 1
         snapshot == [canvas |-> c, state |-> store]
     IN /\ i =< MaxSnapshots
        /\ memory' = [j \in DOMAIN memory \cup {i} |-> IF j = i THEN snapshot ELSE memory[j]]
        /\ Saves(i, snapshot)
        /\ answered' = [j \in DOMAIN answered \cup {i} |->
                          IF j = i THEN snapshot ELSE answered[j]]
  /\ rooms' = rooms \cup {c}
  /\ UNCHANGED <<store, told, sessions, commits, restarts, lost, passed, lab>>

\* A snapshot is looked up in memory, then in the ledger.
Found(i) ==
  IF i \in DOMAIN memory THEN memory[i] ELSE IF i \in DOMAIN ledger THEN ledger[i] ELSE None

\* What resources/read answers for a link: it opens no room.
Resource(kind, id) ==
  CASE kind = "snapshot" -> Found(id)
    [] kind = "canvas" -> IF id \in store.canvases THEN store.content[id] ELSE None

RestoreSnapshot(s, i) ==
  /\ May(s, "restore_snapshot") /\ Found(i) # None /\ CanReplace(Found(i).state)
  /\ Replaces(Found(i))
  /\ saved' = saved
  /\ UNCHANGED <<sessions, commits, restarts, snapshots, lab>>

\* A canvas of the snapshot has no room and is not in the store: the request fails after
\* the rooms of some others were opened, in an order the model leaves open.
RestoreFails(s, i) ==
  /\ May(s, "restore_snapshot") /\ Found(i) # None
  /\ ReplaceFails(Found(i).state)
  /\ UNCHANGED <<sessions, commits, restarts, snapshots, lab>>

----------------------------------------------------------------------------
(* The tools of the laboratory, which works on the root canvas.  CanvasLab *)
(* has the guards of freshness and idempotency.                            *)

LabActs(s) ==
  /\ May(s, "act")
  /\ Commits(Root, Root, {})
  /\ undo' = Append(undo, [before |-> store, after |-> store'])
  /\ redo' = <<>> /\ base' = base

\* An undo goes back to the state before the action, whoever changed what since.
LabUndoes(s) ==
  /\ May(s, "undo") /\ undo # <<>>
  /\ LET last == Last(undo)
     IN IF CanReplace(last.before)
          THEN /\ Replaces([canvas |-> Root, state |-> last.before])
               /\ undo' = Front(undo) /\ redo' = Append(redo, last)
          ELSE ReplaceFails(last.before) /\ UNCHANGED <<undo, redo>>
  /\ UNCHANGED <<base, sessions, saved, commits, restarts, snapshots>>

\* A reset goes to the initial state, then builds the scene on it with a transaction.
LabResets(s) ==
  /\ May(s, "reset_benchmark")
  /\ IF CanReplace(base)
       THEN /\ commits < MaxCommits /\ commits' = commits + 1
            /\ store' = [base EXCEPT !.content[Root] = commits + 1]
            /\ rooms' = rooms \cup base.canvases
            /\ told' = [c \in Canvases |->
                 IF c \in Tells([canvas |-> Root, state |-> base]) THEN store'.content[c]
                 ELSE told[c]]
            /\ saved' = store'
            /\ lost' = Leaves(store', rooms')
            /\ passed' = passed \ rooms'
            /\ undo' = Append(undo, [before |-> store, after |-> store']) /\ redo' = <<>>
       ELSE ReplaceFails(base) /\ UNCHANGED <<commits, undo, redo>>
  /\ UNCHANGED <<base, sessions, restarts, snapshots>>

LabRedoes(s) ==
  /\ May(s, "redo") /\ redo # <<>>
  /\ LET last == Last(redo)
     IN IF CanReplace(last.after)
          THEN /\ Replaces([canvas |-> Root, state |-> last.after])
               /\ redo' = Front(redo) /\ undo' = Append(undo, last)
          ELSE ReplaceFails(last.after) /\ UNCHANGED <<undo, redo>>
  /\ UNCHANGED <<base, sessions, saved, commits, restarts, snapshots>>

----------------------------------------------------------------------------
(* The rest of the server.                                                 *)

\* The HTTP routes and the web socket peers.  A client names the room in the URL and the
\* canvas in the transaction, and nobody compares them; the demo portal does not open the
\* child's room.
Elsewhere ==
  \/ \E c \in store.canvases, via \in Canvases :
       HasRoom(via) /\ Commits(c, via, {}) /\ UNCHANGED lab
  \/ \E c \in Canvases \ (store.canvases \cup {Root}) :
       /\ Parent[c] = Root
       /\ commits < MaxCommits
       /\ commits' = commits + 1
       /\ store' = [canvases |-> store.canvases \cup {c},
                    content |-> [store.content EXCEPT ![Root] = commits + 1]]
       /\ saved' = store'
       /\ rooms' = rooms \cup {Root}
       /\ told' = [told EXCEPT ![Root] = commits + 1]
       /\ passed' = passed \ {Root}
       /\ UNCHANGED <<sessions, restarts, lost, snapshots, lab>>

\* Sessions and memory go with the process; the ledger and the rooms' logs are files.
Boots(state) ==
  /\ restarts < MaxRestarts
  /\ restarts' = restarts + 1
  /\ store' = IF state = None THEN NewStore ELSE state
  /\ saved' = state
  /\ rooms' = {Root}
  /\ sessions' = [s \in Sessions |-> None]
  /\ memory' = <<>>
  /\ base' = store' /\ undo' = <<>> /\ redo' = <<>>
  /\ UNCHANGED <<told, ledger, commits, answered, passed>>

\* A restore since the last checkpoint is in the logs and not in the state recovered.
Crash == Boots(saved) /\ lost' = Leaves(store', {})

\* close() saves the store as it is.
Shutdown == Boots(store) /\ UNCHANGED lost

Init ==
  /\ store = NewStore /\ rooms = {Root} /\ told = Empty
  /\ sessions = [s \in Sessions |-> None]
  /\ memory = <<>> /\ ledger = <<>> /\ saved = None
  /\ commits = 0 /\ restarts = 0 /\ answered = <<>>
  /\ lost = {} /\ passed = {}
  /\ base = NewStore /\ undo = <<>> /\ redo = <<>>

Next ==
  \/ \E s \in Sessions :
       \/ \E claim \in Claims : Initialize(s, claim)
       \/ Initialized(s) \/ OpenStream(s) \/ CloseStream(s) \/ EndSession(s)
       \/ \E c \in Canvases :
            \/ Subscribe(s, c) \/ Unsubscribe(s, c)
            \/ Reads(s, c) \/ Edits(s, c) \/ Retries(s, c)
            \/ OpenSubcanvas(s, c) \/ FoldSubcanvas(s, c) \/ CreateSnapshot(s, c)
       \/ \E i \in DOMAIN answered : RestoreSnapshot(s, i) \/ RestoreFails(s, i)
       \/ LabActs(s) \/ LabUndoes(s) \/ LabRedoes(s) \/ LabResets(s)
  \/ Elsewhere \/ Crash \/ Shutdown

Spec == Init /\ [][Next]_vars

----------------------------------------------------------------------------
(* Properties.                                                             *)

\* Whoever follows the room of a canvas ends up with what is on the canvas: a restore, an
\* undo, a redo or a reset reaches the room of every canvas it changes (sync-registry
\* replaceAll, #roomFor), over failures and restarts.  Excepted are a canvas written through
\* another canvas's room, as fold_subcanvas does below the root and any client may, until
\* its own room is told (passed), and a room whose log a crash after a restore, or a restore
\* while it was closed, leaves behind (Leaves).
RoomsTold == \A c \in rooms \ (lost \cup passed) : told[c] = store.content[c]

\* ARCHITECTURE.md 103: a fold goes through the room that the browser clients of the
\* portal's canvas use, so their log has it (fold_subcanvas).
FoldsFollowed ==
  [][\A s \in Sessions, c \in Canvases \ {Root} :
       FoldSubcanvas(s, c) => told'[Parent[c]] = store'.content[Parent[c]]]_vars

\* The link to a snapshot that was answered as persistent leads to that snapshot for ever,
\* through restarts (create_snapshot, #snapshotFromLedger).
LinksKept == \A i \in DOMAIN answered : Resource("snapshot", i) = answered[i]

\* A snapshot that can be read can be restored.
Restorable == \A i \in DOMAIN answered : Found(i) # None => CanReplace(Found(i).state)
=============================================================================
