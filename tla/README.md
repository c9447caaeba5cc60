# Specifications of MRMIC_NVCL

TLA+ models of the stateful parts of this repository, the TLC runs that check them on
small instances, and theorems about them checked by TLAPS.  Paths below are relative to
the repository; `packages/x` stands for `packages/x/src/index.ts`.

## 1. Inventory of the system

MRMIC is a shared canvas for people and agents: a server keeps a workspace of nested
canvases, clients change it by transactions, updates travel over WebSockets, agents see
it through an MCP server, and provider packages bring external resources in as portals.

| Part | State it keeps | Operations | What is hard | What makes it correct |
|---|---|---|---|---|
| `canvas-core` | workspace, canvases, objects, applied idempotency keys | `applyTransaction`, `restore`, reads | half-done transactions, stale revisions, replays, reused ids | a failed transaction leaves nothing; revisions stand for content; the canvases form a tree; every change has its event |
| `event-ledger` | events and snapshots in SQLite | `append`, `saveSnapshot`, `latestSnapshot` | what a restart finds | events chain by their hashes; a snapshot that was answered is found again |
| `state-vector-sync`, `sync-ledger` | the updates of a room, the state vector, rows in SQLite | `apply`, `applyStateReplacement`, `diff`, restart | check, await, then remember; failed writes | counters without gaps; the store's order; answers stand for rows |
| `websocket-sync` | connected peers, presence | upgrade, hello, update, broadcast, close | peers that connect between broadcasts, the frame limit | a connected peer has everything; vectors do not lie |
| `secure-canvas-client` | socket, state vector, listeners | `connect`, `disconnect`, messages | late events of an old socket, timeout against hello | reconnecting closes every gap |
| `sync-registry` | a room and a hub for each canvas | `roomFor`, `hubFor`, `replaceAll` | a restore announced room by room | every room tells what is on its canvas |
| `adapter-svg`, `apps/web` server | the adapter over the store, listeners, checkpoints | commit, snapshot, restore, recovery | a restart after a restore, writes outside a room | recovery, rooms and canvas agree |
| `mcp-reference-server` | sessions, subscriptions, streams, snapshots | initialize, subscribe, canvas and lab tools, snapshots | restores across rooms, retries, links over restarts | links lead to what was answered; rooms tell what is on their canvas |
| `multimodal-lab` | frames, undo and redo stacks, action log | `observe`, `execute`, `undo`, `redo`, reset | stale frames, reused revisions, replayed actions | an action runs once, on what its frame showed |
| `multimodal-agent-runtime` | governor, pending samples, tokens, deliveries | governed observation, passive scheduler, episodes, policy benchmark, A/B with a real provider | crops that leave holes, late answers, windows and keyframes, budgets | who is asked knows the picture; budgets are kept; no change is lost |
| `provider-codex-account` | a process, its requests, a queue of notifications | one structured inference | notifications before replies, the end without usage, exits | the last message is the answer; nothing is left behind |
| `nvcl-runtime`, `recursive-nvcl-runtime` | iteration, best snapshot, lineage | observe, verify, decide, act, restore; open, fold, take back | calls that fail after their effect, other clients | failure leaves the parent as it was; what is folded tells of the child since it was verified |
| `provider-hdsrc` | provider, epoch, start in progress; the request table | `discover`, reads, `materializeResolved`, `stop`; `request`, `close` | concurrent failures, stop during start, timeouts against answers | one live process, unsafe work not repeated |
| `portal-overlay` | mounted surfaces, budget, control | `activate`, `deactivate`, focus | awaits between budget check and mount | surfaces accounted for, one controller |
| `runtime-presence` | presence of external runtimes, by resource | `apply`, `removeResource`, `removeClient` | restarts of publishers, late messages | newest sequence wins within an epoch |
| `mcp-auth-gateway`, `identity-auth` | principals of sessions and tokens | attach, check, expire | — | a call acts for its session's principal |
| `provider-herdr`, `-ai-board`, `-ctcl`, `-tandem` | little | mapping of external services | retries of the publisher | — |
| `canvas-schema`, `canvas-adapter`, `mcp-contract`, `capability-contract`, `resource-portal`, `verifier` | none | types, validators, pure functions | — | — |

How they interact.  The server owns one `SvgCanvasAdapter` over one `CanvasStore`, whose
event sink is the ledger.  Each canvas has a room; a room calls the adapter's
`applyTransaction`, appends the update to the sync log and emits it to its hub, which
writes it to every socket.  Clients of a hub keep a state vector and send it in their
hello.  A restore replaces the store's state and is announced to each room as a
`state_replace` update.  The MCP server acts through the rooms, the laboratory and the
adapter; the NVCL runtimes and the multimodal agent are its clients or the laboratory's.
Everything runs on one JavaScript thread: a handler runs to its first `await`, and the
microtasks it leaves run before the next socket event.  The server's own awaits resolve
without I/O, so each request to the laboratory or the MCP server is one step; what
interleaves there are the requests.

The hazards, with the line at which each of them bites and the properties that cover it,
are listed in `PROJECT.json`.

## 2. The modules

| Module | Models | Proofs |
|---|---|---|
| `CanvasStore` | `packages/canvas-core` | `CanvasStoreProofs` |
| `UpdateLog` | abstract: what a room promises | — |
| `SyncRoom` | `packages/state-vector-sync` with the rows of `packages/sync-ledger` | `SyncProofs` |
| `SyncSession` | `SyncRoom` composed with the hub of `packages/websocket-sync` and the clients of `packages/secure-canvas-client` | `SyncProofs` |
| `HdsrcRuntimeManager` | the runtime manager of `packages/provider-hdsrc` (`runtime-manager.ts`) with the process client and the provider around it | `LiveResourceProofs` |
| `LivePortal` | the coordinator and the budget of `packages/portal-overlay` (`runtime.ts`, `index.ts`) with its hosts | `LiveResourceProofs` |
| `CanvasLab` | `packages/multimodal-lab` with the adapter, foreign editors and the server's recovery | `CanvasLabProofs` |
| `McpServer` | `packages/mcp-reference-server` over `packages/sync-registry`, with snapshots, the demo routes and the restart of `apps/web/src/server.ts` | `McpServerProofs` |
| `NvclRun` | `packages/nvcl-runtime` and `packages/recursive-nvcl-runtime`, call by call | `NvclRunProofs` |
| `ObservationGovernor` | the governor of `packages/multimodal-agent-runtime` (`governor.ts`), as operators | lemmas in `PolicyTrialsProofs` and `AgentRunProofs` |
| `PassiveTimeline` | its passive scheduler (`passive.ts`) | `PolicyTrialsProofs` |
| `AgentRun` | its episode loop | `AgentRunProofs` |
| `PolicyTrials` | its policy benchmark (`policy-benchmark.ts`) and its A/B with a real provider (`provider-ab.ts`), over `PassiveTimeline` and `CodexInference` | `PolicyTrialsProofs` |
| `CodexInference` | one inference of `packages/provider-codex-account` | `PolicyTrialsProofs` |

The `MC*` modules extend these for TLC; each `.cfg` begins with what it is for.
Definitions under the comment `Mutant of X` are X as a plausible bug would have it; no
specification uses them.

**CanvasStore.**  `store` is `#state`; `Read`, `Restore`, and the call `applyTransaction`.
The call is atomic in the program; the model unrolls its loop over the operations
(`Begin`, one step for each operation, then `Commit` or `Throw`) and lets nothing else
happen while `tx` is set.  That keeps operations that build on each other in one
transaction, and throws in the middle, without enumerating lists of operations.  An
object's payload is the stamp of the write that produced it; a hash is the state it is
computed from.  `events` is the sequence the event sink accepted.  The code stores the
canvas and the object of a create operation as the caller gave them; the model assumes that
their revision is 0 and that a new canvas lists no objects (`EmptyCanvas`), as all callers
in this repository give them, and section 4 says what other values do.  `LinkedPortals` says
that callers give a portal the canvas it is created on.  The callers in this repository
do so (`open_subcanvas` and `/api/demo/subcanvas`), but `create_subcanvas` does not check
it, unlike `create_object`.

**SyncRoom.**  One room.  `apply` and `applyStateReplacement` are split at their `await`:
`Replay`, `Admit` and `Reject` are what comes before, `Remember` and `WriteFails` what
comes after.  Calls overlap only if their frames arrived in one chunk, which `taken` and
`Burst` express.  The store is the environment: it accepts or throws.  `log` is the table
of rows with its two UNIQUE constraints, `Restart` the constructor over those rows.
`unwritten` is a history: the updates that are remembered although their row failed.

**SyncSession.**  Adds sockets.  `wire[p]` is what the hub wrote to a peer and the peer has
not read.  `Broadcast` is `#remember` together with the listener of the hub; a frame that
does not fit makes it throw after the room has moved.  `Hello` computes `diff` from the
client's vector.  `Deliver` is the client's message handler before and after `hello_ack`.
`Drop` loses a connection with what is under way, `ServerRestart` all of them.

**HdsrcRuntimeManager.**  Calls of the manager's operations share one child process.
The variables are the private fields of the class; `open` are the processes whose client
is not closed and `op` the calls.  A call is `idle`, then `waiting` for a start,
`granted` a process (the promise has settled, the request is not written), `running`,
`failed` (rejected, its `catch` has not run), and in the end `done` or `error`.  JavaScript
runs the continuations of settled promises before the next event, so `Invoke`, the catch
clauses (`Rethrow`, `GiveUp`, `Restart`), discovery (which reads its files synchronously)
and `Spawn` are continuations, and answers, exits and timeouts are events that wait until
the calls are `Drained`.  Continuations run in any order, which includes the order of the
queue.  Callers call, discover and stop at any point.  A timeout and an exit are the same
event to the manager: all requests on the process are rejected.

**LivePortal.**  `active` is the budget's map in the order of its clock, `mounted` and
`state` are `#mounted` and `#states`, `surfaces` what the hosts keep and `call` where each
caller is in `activate`, `syncGeometry` or `deactivate`.  A call is split where it awaits a
host; `MountResolves`, `UnmountResolves`, `UpdateResolves`, `SyncResolves` are what follows
an answer, `MountRejects` and `OperationRejects` the catch clauses, and `PassesRejection`
is an unmount or an off-screen update, which no catch clause is around.  `deactivate` and
`deactivateAll` are walks of the same kind as `syncGeometry`, over portals whose object is
gone.  A host answers by an event of its own, and callers come by events, so what follows
an answer runs to the next request to a host first (`Yielded`).  A rejected mount leaves no
surface and a rejected unmount leaves it.  `Callers` are threads of control that await
their own calls; the class itself does not keep calls of several of them apart.
`rejected` is a history variable: some promises hold until a host rejects something.

**CanvasLab.**  The canvas is a row of cells, a frame `Width` of them from the viewport on,
an object's content the action that wrote it last.  `frames` are the leases with what was
shown; `Expire` ends them, and each `Observe` prunes as `#pruneFrames` does. `Execute` is
`execute()` for gestures and plain edits from its checks (`New`, `FreshFrame`, the hit test
in the frame's coordinates) to the commit, the undo entry and the frame it observes
afterwards; `ExecuteViewport` the actions that move the viewport only; `Undo` and `Redo`
replace the whole state, revisions included; `ResetBenchmark` replaces it and then builds
the scene, and `ResetFails` is the one that replaces the state and is then refused, without
an entry (`torn`, a history).  A state keeps its idempotency keys, and how often each took
effect (`times`, a history).  `Replaced` is the announcement to the rooms, which may be
refused for a child canvas without a room (`CanReplace`).  `ForeignEdit`, `ForeignSubcanvas`
and `ForeignViewport` are everybody else; `Crash` recovers the last checkpoint, `Shutdown`
the snapshot that `close()` saves.

**McpServer.**  `sessions` with their roles, subscriptions and streams; `May` is the table
of tools and roles.  What a transaction wrote is its number, and a room is what replaying
its log shows of its canvas (`told`).  `Commits` is a transaction through some room, its own
or another one, with its checkpoint; `Edits`, `Retries`, `OpenSubcanvas`, `FoldSubcanvas`
are the tools that make one, `LabActs`, `LabUndoes`, `LabRedoes`, `LabResets` those of the
laboratory, `Elsewhere` the HTTP routes and WebSocket clients, whose URL names the room and
whose transaction names the canvas, and nobody compares the two.  `passed` is a history: the
canvases that were written through another canvas's room and whose own room has not been
told since.  `CreateSnapshot` fills
`memory` and the `ledger`, `RestoreSnapshot` finds in either and tells every room;
`RestoreFails` is a restore that is refused because a canvas of it has no room.  `lost` are
the canvases whose log was left behind: by a crash after a restore, which is no checkpoint,
or by a restore while their room was closed.

**NvclRun.**  One recursive run, from the parent snapshot (`ParentSnapshot`, `OpenChild`)
through the loop of the child run (`Top`, `Look`, `Verify`, `Render`, `KeepBest`, `Decide`,
`Act`) to the restore of the best state (`RestoreBest`), the fold (`GetState`, `FoldChild`,
`Lineage`) or the way back (`Undo`).  Each MCP call is a step, because between two of them
other clients write (`Foreign`, also removing the child), the caller may cancel (`Abort`),
and a call may fail in transport before or after its effect (`Fault`).  The agent is any
agent: it stops, or acts with any effect on the objects.  `held` is a history: the
workspaces there were since the verification asked last.

**ObservationGovernor.**  `Decide` compares two signatures (rows of blocks) and answers
keyframe, crop or skip, in the order of the code's conditions.  The code's thresholds are
fractions, of a block's range and of that of the whole grid; here they are grey levels and
a sum.  A sum is the size of a disjoint union (`Total`), which TLC evaluates and the
provers can reason about.

**PassiveTimeline.**  `preserving` is the boundary mode, chosen once for each scheduler.
`Sample` is `sample()` with the flushes before and after joining the
burst; `Flush`, `FlushFails`, `ForceKeyframe`, `Reset` the other entry points, `Wait` the
window that passes and `FramePruned` the laboratory forgetting the frame that a flush
needs.  `picture` pastes each event's raster over the earlier ones: what a reader knows.
`drift` is what the thresholds leave out until the next whole frame, and `lost` the blocks
that went with a failed flush until an event shows them again; both are histories.

**AgentRun.**  From an answer to the next question nothing waits, so `Answer` is the
gesture, the verification, the next observation and the loop over skipped observations.
Under the runtime the canvas changes (`ForeignEdit`) and frames get lost (`FrameLost`);
an answer is then rejected and a keyframe forced.  `known` is what the provider has seen.

**PolicyTrials** and **CodexInference.**  `PolicyTrials` extends `PassiveTimeline`, whose
variables are the scheduler of the arm that runs, and `CodexInference`, whose variables are
the provider's call under way.  An arm replays a trace of gestures in a laboratory of its
own (`open` counts them) and delivers what its policy lets through; `Elapses` places the
coalescing window anywhere between two samples.  `FinishesArm` is the flush, the audit and
the score card, `Finishes` the choice of `recommended`, the first of the ranking.  In the
A/B each delivery is a call of the provider (`Inferring`, `Answers`) while the budget
allows; `Breaks` is an exception anywhere in an arm.  The inference is its four requests and
then notifications: a line resolves the waiting promise or is queued (`Hears`), and the
continuation takes it (`Takes`); `Expires` and `Exits` are the timers and the process. What
a server may write is the constant `Turns`; `Ordered` assumes of it that a draft is followed
by the answer before the turn completes.

**UpdateLog.**  An append-only log in which no id occurs twice and each client's updates
are numbered 1, 2, 3, ...

## 3. The runs

| Run | Result | Shows |
|---|---|---|
| `canvas_store` | pass | Transactions of two operations, throws, a restore, a key: `WellPlaced`, `RevisionIdentifiesContent`, `KeysAppliedOnce`, `EventChain` |
| `sync_room` | pass | Overlapping calls, a failed write, a restart: `NoGaps`, `AnsweredIsDurable` |
| `sync_session` | pass | Two peers over drops and a restart: `VectorMeansReceived`, `QuietPeersAgree`; the room implements `UpdateLog` (`PromiseKept`); under fairness `CatchesUp` |
| `sync_session_vector` | violation | A broadcast that does not fit a frame leaves a vector that covers it |
| `hdsrc_manager` | pass | Three calls against failing starts, dying processes and `stop()`: `SingleRuntime`, `NoReplay`, `HealthyRuntimeStays`, and under fairness `CallsSettle` and `StopReleases` |
| `live_portal` | pass | One caller, hosts that may reject: `SurfacesAccounted`, `ControlStaysWithResource`, `NothingComesBack` |
| `canvas_lab` | pass | Gestures, undo, redo and resets against foreign editors, expiry, a crash, a shutdown: `SeenIsDone`, `EffectOnce`, `HistoryReturns` |
| `mcp_server` | pass | Sessions of every role, snapshots, restores, a crash or a shutdown over three canvases: `RoomsTold`, `LinksKept` |
| `nvcl_run` | pass | Failing calls, cancellation and another client at every point: `FailureLeavesParent`, `BestIsReported`, `FoldTellsChild`, and under fairness `RunEnds` |
| `passive_timeline` | pass | Every row of five samples in both boundary modes, with failures, resets and waits: `NothingLost`, `DriftBounded` |
| `agent_run` | pass | Two episodes while others edit and frames expire: `KnowsTheFrame`, `RecoversWithKeyframe`, `BudgetOverrun`, and under fairness `EpisodesEnd` |
| `policy_trials` | pass | Five policies over three traces, the A/B under three budgets: `BudgetHeld`, `EveryChangeDelivered`, `TransientKept`, `RecommendedIsPareto`, `AnswerIsFinal`, and under fairness `TrialEnds` |

Bounds.

- `canvas_store`: two canvases allow a portal, its deletion and the reuse of its canvas id;
  two operations a transaction whose second fails or builds on the first; one restore a
  return to an older state; one key a replay within and across it.
- `sync_room`: two clients and counters up to 2 give each interleaving of a next, an
  earlier and a later counter; two frames a chunk are the smallest overlap; the third id is
  a state replacement.  One write may fail, at any update, before a retry of it or before
  the restart.
- `sync_session`: two peers are one that is present and one that is away.  `Burst` is 1 and
  writes succeed there, because `PromiseKept` needs it (section 4); `sync_room` has overlaps
  and a failed write.
- `hdsrc_manager`: two calls that fail together on a process, one of which restarts it, and
  one whose failure closes it under the others.  Nothing else is bounded: the number of
  processes is bounded by the code (`BoundedRestarts`).
- `live_portal`: three portals for two places are the fewest with which an eviction
  chooses; two resources are a portal that is pointed elsewhere; one principal is enough,
  because a second one could only be refused.  Nothing else is bounded.  With one caller
  principals still act while a host is awaited, which is what `NothingComesBack` is about.
- `canvas_lab`: a text and an object of the benchmark on three cells, of which a frame
  shows two, so that a hit depends on the viewport and an object can leave the picture;
  three frames (200 in the code) of which pruning keeps one stale (120) and two (160);
  three action ids are an action, its undo and its redo; one foreign commit, one restart.
- `mcp_server`: a root, a child and a grandchild are the least with a portal in a canvas
  that is not the root; three transactions build the tree and write to it; one snapshot and
  one restart let a link be used before and after it.
- `nvcl_run`: two objects tell a worse, an equal and a better score apart; three
  iterations reach the iteration budget, the failure budget of two, and a success after a
  failure; one failing call may be any of them, and so may one write of another client.
- `passive_timeline`: pictures of four blocks with three grey levels have changes below
  and above the thresholds, crops that overlap and crops that are too large; five samples
  pass the keyframe interval of four and fill a burst of three.  `BlockThreshold` is 2 and
  `ScoreThreshold` 3, so there are blocks that change and are too faint for the picture, as
  with the values of the code.  One flush may fail, and later events may show what it lost.
- `agent_run`: a keyframe interval of three with up to four iterations; budgets that end
  before and within an episode; a second episode uses what the first one left.
- `policy_trials`: the traces are fixed, because the plan of gestures is; they hold changes
  that are seen, that stay under the threshold of a block, that change a block and are too
  faint for the picture (one block by two levels), that cancel out, and a transient, which is
  plain in the first, half faint in the second and faint in the third.
  `MaxSamples` is their length and does not bind; no flush fails, because the frame of a
  pending sample is not pruned in a laboratory that nobody else observes.  The budgets are
  those of the A/B: one that is just enough, one call too few, and too few tokens.  What
  varies is where the window ends, what the provider's process writes and where it fails.

`MCCanvasStore`, `MCSyncRoom`, `MCLivePortal` and `MCCanvasLab` use symmetry in ids that no
constant distinguishes; it is not used for liveness.

Fairness.  None of it assumes that callers go on calling.

- `FairSessionSpec`: microtasks and sockets proceed by themselves, so weak fairness of
  `Broadcast`, `Hello` and `Deliver`; the owner of a client connects again after a close
  (`apps/web/public/app.js` after 800 ms), so weak fairness of `Connect`.  Lost connections
  and restarts are bounded by `MaxDrops` and `MaxRestarts`; without a bound a connection
  could always drop before `hello_ack`.
- `FairManager`: continuations run, so weak fairness of discovery, `Spawn` and each call's
  `Continue`.  A start and a request end, because the client has a timer for each: strong
  fairness of `StartSettles` and `RequestSettles`, since callers of `discover()` may come
  back again and again, but come back through events of their own.
- `AgentRun`: a provider answers or fails, so weak fairness of `Answer`.
- `NvclRun`: a call is answered or fails and the agent decides, so weak fairness of `Step`.
- `PolicyTrials`: the trial is one sequential program whose waits have timers, so weak
  fairness of `Next`.

Deadlock is not checked in `hdsrc_manager`, where each call is made once and the manager is
then at rest, in `nvcl_run` and `policy_trials`, where the run or the trial is over, and in
`agent_run`, whose episodes are bounded by `MaxRuns`.

## 4. Where the code does not do what is said of it

The run `sync_session_vector` is listed as a finding: `#remember` moves memory and vector
before the broadcast that may throw, so a frame beyond 65535 bytes leaves peers without the
update, and a later broadcast's vector hides the loss.

Others are exceptions that the properties of passing runs make, each named in the property
or its comment:

- `resetBenchmark` replaces the state, and only then submits the transaction that builds the
  scene (`packages/multimodal-lab`, lines 506-508).  On a server that was restarted with the
  scene on its canvas the transaction is refused; the canvas stays replaced, no entry is
  pushed, and the last undo entry no longer ends at what is there, where
  `docs/MULTIMODAL_LAB_CONTRACT.md:96` says that a reset stores its states before and after
  (`torn` in `HistoryReturns`).  `CanvasLab` with `MaxForeign = 0` and `HistoryIsComplete`.
- `fold_subcanvas` writes the portal through the room of the canvas the call names, the
  root if it names none, and its schema offers no such name
  (`packages/mcp-reference-server`, lines 178-187 and 1086): for a portal on a child canvas
  the room of that canvas is not told, where `docs/ARCHITECTURE.md:103` has the operation go
  through the room that the browser clients use (`passed` in `RoomsTold`).  `McpServer`
  without snapshots and restarts, and `FoldsFollowed`.
- An update whose row could not be written is remembered all the same, and a retry of it is
  answered from memory: it counts as applied and is gone after a restart
  (`packages/state-vector-sync`, lines 185 and 126; `unwritten` in `AnsweredIsDurable`).
- Two different updates with the same client and counter in one chunk may both be answered,
  and `INSERT OR IGNORE` keeps the first row only (`packages/sync-ledger`, line 20).
  `AnsweredIsDurable` then claims a row with that client and counter, and the row of the
  update itself only for `Burst = 1`.
- A flush of the passive scheduler takes the batch off `#pending` before the rasterize that
  may throw (`multimodal-agent-runtime/src/passive.ts`, lines 335-339).  The batch is lost
  whatever its size, and a reader learns of its blocks only when a later crop or the next
  whole frame shows them (`lost` in `NothingLost`, and the failures excepted in
  `DriftBounded`).
- A client of the HTTP routes or of a WebSocket names a room by `?canvasId`, and its
  transaction a canvas; neither the server (`apps/web/src/server.ts`, lines 92 and 103) nor
  `packages/sync-registry` (lines 38-41) compares them.  A room may so number and broadcast
  the update of another canvas, whose own room is not told (`passed` in `RoomsTold`).
- The count and the issues that a recursive run folds are read by calls of their own
  (`packages/recursive-nvcl-runtime`, line 308).  If another client writes in between, the
  two tell of different states, either of them older than what the child ends with;
  `FoldTellsChild` claims then that each is of a state since the last verification, and that
  it is the state the child ends with only while nobody else writes.  In the same way the
  least score that a failed child run reports belongs to the restored state only if nobody
  wrote between the observation and its snapshot (`alone` in `BestIsReported`).
- The governor skips a picture in which blocks changed if the difference over the whole
  grid stays under its `differenceThreshold`.  With the values of the benchmark, 0.0001 over
  the grid and 0.02 for a block (`multimodal-agent-runtime/src/policy-benchmark.ts`, lines
  430 and 437; `governor.ts`, lines 109 and 185) and a grid of 32 by 32 blocks
  (`packages/multimodal-lab`, line 1117), a gesture that changes one block faintly is one
  the audit counts, and a governed policy delivers it only if a keyframe or the crop of
  another gesture happens to show it.  `EveryChangeDelivered` and `TransientKept` claim
  delivery of what the governor does not skip (`Noticed`), and of every change only for the
  policy that observes everything (`Owed`).

The models show more of them.  Each follows from changing the constants of a run (in one
case a definition) and its property as given here, where a property that no run checks is
defined in the module:

- `applyTransaction` stores the object and the canvas of a create operation as the caller
  gave them (`packages/canvas-core`, lines 262 and 281): a new canvas may come with any
  revision and with members that do not exist, and then `WellPlaced` does not hold.
  `CanvasStore` with an object in the `members` of `EmptyCanvas`.
- Object revisions restart when an id is deleted and created again, so an old expected
  revision matches other content (`packages/canvas-core`, line 291).  `CanvasStore` with
  `Objects = {o1}`, no keys, `MaxEvents = 3`, `MaxRestores = 0`, and
  `ObjectRevisionIdentifiesContent`.
- An update sent twice in one chunk is remembered twice if the store accepts both, which
  an idempotency key makes it do (`packages/state-vector-sync`, line 131).  `SyncRoom` with
  two ids, no replacements, `MaxCounter = 1`, `Burst = 2`, and `RememberedOnce`.
- A restore that exceeds a frame reaches no connected peer (`packages/websocket-sync`,
  line 30; ADR-006 says that it does).  `SyncSession` with one id that is in `Replacements`
  and `Large`, and `QuietPeersAgree`.
- A client that lacks more than fits a frame is refused each time it connects
  (`packages/websocket-sync`, line 167).  `SyncSession` with `FrameLimit` below the number
  of updates, and `CatchesUp`.
- The coordinator of portals drops an evicted portal from its budget before the host has
  unmounted it; if the host rejects, the surface stays live and is not counted
  (`portal-overlay/src/runtime.ts`, line 159).  `LivePortal` with two portals, `Limit = 1`,
  and `LiveWithinLimit`.
- It declares a portal visible after an update without looking whether the surface is
  still there, and then grants control of it (line 215).  `LivePortal` with two callers,
  `Limit = 1`, and `ControlGrantedOnSurfaces`.
- A snapshot with a canvas that a later restore has removed and that has no room, as those
  of `/api/demo/subcanvas` do not, can be read but not restored
  (`packages/mcp-reference-server`, lines 158-159).  `McpServer` and `Restorable`.
- A recursive run whose client is not the owner may not restore, and ignores the refusal: it
  reports a failure and leaves its traces, where `docs/RECURSIVE_RUNTIME_CONTRACT.md:36`
  says that the parent snapshot is restored (`packages/recursive-nvcl-runtime`, lines
  352-357).  `NvclRun` with `Role = "agent-direct"`, one object, no faults and no foreign
  writes, and `FailureLeavesParent`.

## 5. What is proved

Each for every value of the constants that satisfies the module's named assumptions.

`CanvasStoreProofs`:

- `TypeCorrect`, `LineageHolds`, `PlacementHolds`, `WellPlacedHolds`,
  `RevisionsIdentifyContent`, `LedgerCorrect` (`EventChain`), `KeysHold`,
  `CommitsStayOnCanvas`.  The invariant is `StoreInv`, whose parts are stated in
  `CanvasStore`.  The central parts are `DraftFramed` (a draft differs from the store on
  the canvas of its call only, and not in a revision) and `ReadsArePast` (an agent's read is
  a past of the store in which revisions were smaller or the content the same).  A property
  of the store alone is not inductive, because a restore installs what an agent read earlier.

`SyncProofs`:

- `RoomTypeCorrect` and `StoreOrderHolds` for any burst, failures and restarts.  Types
  need `Topped(log)`, that the rows of each client have a largest counter, because a
  restart computes it.
- `NoGapsHold`, also for any burst, failures and restarts.  The invariant `GapInv` adds
  that the rows count as memory does until a write fails, and that a row is the update that
  was issued under its id.
- `AnswersAreDurable`, also for any burst, failures and restarts: what was answered and
  could be written has its row, or one with its client and counter if calls overlap.
- `RoomKeepsPromise`: if calls do not overlap (`Burst = 1`) and no write fails (`MaxFailures = 0`), the room implements `UpdateLog`. The invariant `SerialInv` adds that rows equal
  memory, that the vector holds the largest counters, and that the call at the await is
  still admissible when it resumes.

- Further assuming that updates fit a frame (`Large = {}` and `FrameLimit # 0`):
  `VectorsMeanReceived` and `ConnectedPeersAgree`, for any number of peers, updates, drops
  and restarts, and also when `hello_ack` does not fit.  The invariant `PeerOK` says of
  each client that its vector is behind the room's, and that whatever a frame under way
  covers is with the client or in a frame before it that the client will take.

`LiveResourceProofs`, of the runtime manager, for any finite set of calls:

- `ManagerTypeCorrect`, `OneChild` (`SingleRuntime`), `NothingReplayed`, `StopHolds`,
  `HealthyStays`, `RestartsBounded`.  The invariant is `ManagerInv` with `NumberInv`.
  `PlaceInv` is the part that matters: a call that has a failure to react to was given the
  current process, or there is none.  It holds because no start completes while a
  continuation is outstanding; without it a late failure would close the replacement.
  `RestartsBounded` adds `CountInv`, which counts a start that has begun as a process.

and of the portals:

- `PortalTypeCorrect`, `InteractionHolds`, `LostIsLost`, for any number of callers and
  whatever hosts reject.  They rest on what the two lemmas about the budget say (no portal
  has two entries, an eviction never takes the portal that is activated) and on
  `WhatIsWritten`: calls write one of four states, and only the one that is computed at
  the moment of the write keeps focus and owner.
- `SurfacesStayAccounted`, `ControlStays`, `ControlIsOfSurface` for one caller, whatever
  hosts reject.  The invariant is `SoloInv`: what the caller awaits is the case until the
  answer (what it asked to mount is not mounted, what it asked to unmount or move is).
- `ViewIsBudget` and `ViewWithinBudget` for one caller until a host rejects.
  `InViewInv` says for each stage of a call by which portal view and budget differ.

`CanvasLabProofs` (any objects, actions, frames, foreign commits and restarts):

- `SeenSafe`: what a fresh frame recorded of the state is what the state is, so the hit of
  a gesture in the frame is its hit in the canvas, and a viewport that moved in between
  makes the frame stale.
- `EffectSafe`: the invariant `LabInv` is about every state the laboratory may return to,
  not the current one only: the store, the initial state, the saved one and both ends of
  each undo and redo entry have each key applied as often as they record it.
- `HistorySafe`: the entries of the two stacks join, and the store is where they meet,
  until somebody else writes or a reset fails half-way (`alone`, `torn`).

`McpServerProofs`:

- `McpTypeCorrect` with `World`, the types of everything a restore may install.
- `LinksAreKept`: what was answered is in the ledger, also when memory is lost (`Kept`).
- `RoomsAreTold`: open rooms tell what is on their canvas unless they were left behind
  (`lost`) or their canvas was written through another room (`passed`), and so do rooms that
  are closed (`RoomsMatch`), because a closed room may be opened by the next call.

`NvclRunProofs` (any objects, budgets, failing calls and foreign writes):

- `FailureSafe` and `BestSafe`, assuming the client is the owner (`Role`): the restore on
  the way out installs the parent snapshot, which no step writes after the first
  (`RunType`); the score that is reported is of the best state, and that is what was
  restored (`BestInv`).
- `FoldSafe` for any role and whoever else writes: `FoldInv` follows what was counted,
  scored and written from the last verification to the end, as properties of states in
  `held`, and that these agree while nobody else writes.

`AgentRunProofs` (any scenes and thresholds, any number of episodes, others' edits and
lost frames):

- `AgentInvariant`, `ProviderKnowsTheFrame` (`KnowsTheFrame`), `RejectionForcesKeyframe`
  (`RecoversWithKeyframe`).  The invariant `AgentInv` says of the time in which a governed
  provider is asked that the governor's last observation is the frame it is asked about.
  `KnowsTheFrame` alone is not inductive: the next crop is computed against that
  observation, and it closes what the provider does not know only if the two agree.
- `BudgetPassedByOneAnswer` (`BudgetOverrun`), if there is a largest number of tokens that
  an answer costs: a question is asked with a token left.

`PolicyTrialsProofs`, of the governor: a crop contains every changed block (`Crop` grows to
both sides and is moved at an edge), what `Decide` leaves out is below the block threshold
unless it skips, and a keyframe is due after `KeyframeInterval` observations.  Of the
scheduler, for any pictures, bounds and failing flushes, in both boundary modes:

- `PassiveDriftBounded` and `PassiveNothingLost`, which excepts what a failed flush took
  with it (`lost`).  The invariant `PassiveInv` relates three
  pictures: the governor's last observation, the last pending sample, and what a reader of
  the events has (`Reader`).  `NothingLost` alone says nothing of the second, which is the
  one that an event pastes.

Of the trials, for any traces, thresholds and turns:

- `TrialsHoldTheBudget` (`BudgetInv`), both arms together.
- `InferenceAnswerIsFinal`, for turns in which a draft is followed by the answer before the
  turn completes (`Ordered`), and except for a turn that is completed with a summary of its
  items, of which the code takes the first listed message.  `InferenceInv` is about the
  notifications yet to be looked at: the one the waiter holds, those in the queue and those
  not written, in this order (`Rest`, `Stream`).  They are in the server's order because
  nobody waits while something is queued; so the message before a completion is no draft.
- `TrialsDeliverEveryChange` and `TrialsKeepTheTransient`, for any thresholds, of the changes
  that the governor does not skip (`Noticed`).  The invariant
  `TrialInv` follows the deliveries of the arm that runs: nothing leaves twice or out of
  order (`InOrder`), each change is in a delivery or pending (`Covered`), and once the
  pulse is over no delivery or pending burst spans its end (`Parted`), because the reversal
  flushes what is pending.  `InOrder` is needed because the audit looks at the first
  delivery whose range has the sample and at no other.
- `TrialsRecommendPareto` without a hypothesis: the score is a sum with positive weights, so
  a card that another dominates has a smaller score, and the ranking is total on the cards.

The other hypotheses of theorems (`Burst`, `MaxFailures`, `Large`, one caller, `Role`) are
those section 4 or the contracts of the calls show to be needed.

The theorems state every invariant and every action property that the passing runs check,
and the refinement of `UpdateLog`.  Only model-checked is liveness under fairness, which is
beyond the prover: `CatchesUp`, `CallsSettle`, `StopReleases`, `EpisodesEnd`, `RunEnds`,
`TrialEnds`.  Nothing in the project declares a RECURSIVE operator.

## 6. Not modelled

Left out whole (`not_modelled` in `PROJECT.json`): types and validators without state,
the browser's user interface, the session gateway and identity bindings (maps with an
expiry that change no canvas), `runtime-presence` (leases that are shown and decided upon
by nothing), and the providers that map an external service and keep nothing.

Left out of what is modelled:

- a crash inside a request, between the store's commit and the row of the sync log; the
  default configuration that keeps one of ledger and sync log in memory only, since the
  models give both the same persistence;
- two sockets of one client at once, and presence messages, in `SyncSession`;
- the viewport outside of `CanvasLab`: `set_viewport` moves the one viewport of the adapter
  and notifies the canvas the call names;
- parents other than the root in `NvclRun`, except for the lineage check that fails for
  them (`nested`);
- two runs at once on one A/B runner, which the callers in the repository do not start;
- the growth of the laboratory's action log and history, which nothing prunes;
- the notifications the MCP server sends to subscribers, of a transaction and of a restore,
  of which no property says anything;
- in `McpServer`, transactions of HTTP and WebSocket clients that create canvases, except
  for the demo portal;
- rendering, PNG encoding, wording, and the metrics that no decision reads.
