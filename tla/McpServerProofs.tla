-------------------------- MODULE McpServerProofs --------------------------
(* Proofs about McpServer: types, the rooms that agree with the store and   *)
(* the links to snapshots that hold for ever.                               *)
EXTENDS McpServer, SequenceTheorems, TLAPS

----------------------------------------------------------------------------
(* The parts of the type invariant, with what TypeOK leaves out.           *)

StatesOK ==
  /\ store \in States /\ saved \in States \cup {None} /\ base \in States
  /\ undo \in Seq(Change) /\ redo \in Seq(Change)
  /\ commits \in Nat

RoomsOK == rooms \subseteq Canvases /\ told \in [Canvases -> Nat]

SnapshotsOK ==
  /\ \A i \in DOMAIN memory : memory[i] \in Snapshot
  /\ \A i \in DOMAIN ledger : ledger[i] \in Snapshot
  /\ \A i \in DOMAIN answered : answered[i] \in Snapshot

World == StatesOK /\ RoomsOK /\ SnapshotsOK

Listeners == sessions \in [Sessions -> Session \cup {None}]

\* The steps of a session that leave the canvases alone.
Talks(s) ==
  \/ \E claim \in Claims : Initialize(s, claim)
  \/ Initialized(s) \/ OpenStream(s) \/ CloseStream(s) \/ EndSession(s)
  \/ \E c \in Canvases : Subscribe(s, c) \/ Unsubscribe(s, c)

LEMMA EmptyDomain == DOMAIN <<>> = {} /\ \A S : <<>> \in Seq(S)
  OBVIOUS

LEMMA History ==
  ASSUME NEW h \in Seq(Change), h # <<>>
  PROVE  Last(h) \in Change /\ Front(h) \in Seq(Change)
  <1>1. Len(h) \in Nat /\ Len(h) >= 1 /\ DOMAIN h = 1..Len(h) /\ \A i \in 1..Len(h) : h[i] \in Change
    BY LenProperties, EmptySeq, ElementOfSeq
  <1>2. Last(h) \in Change
    BY <1>1 DEF Last
  <1>3. Front(h) \in Seq(Change)
    <2>1. \A i \in 1..(Len(h) - 1) : h[i] \in Change
      BY <1>1
    <2>2. QED
      BY <1>1, <2>1, SubSeqProperties DEF Front
  <1>4. QED
    BY <1>2, <1>3

----------------------------------------------------------------------------
(* What steps are made of.                                                 *)

LEMMA CommitTypes ==
  ASSUME World, NEW c \in Canvases, NEW via \in Canvases, NEW created \in SUBSET Canvases,
         Commits(c, via, created)
  PROVE  store' \in States /\ saved' \in States /\ commits' \in Nat /\ RoomsOK' /\ SnapshotsOK'
  <1>1. store.canvases \in SUBSET Canvases /\ store.content \in [Canvases -> Nat] /\ commits + 1 \in Nat
    BY DEF World, StatesOK, States
  <1>2. store' \in States
    BY <1>1 DEF Commits, States
  <1>3. commits' \in Nat /\ saved' \in States
    BY <1>1, <1>2 DEF Commits
  <1>4. RoomsOK'
    BY <1>1 DEF Commits, World, RoomsOK
  <1>5. SnapshotsOK'
    BY DEF Commits, World, SnapshotsOK, snapshots
  <1>6. QED
    BY <1>2, <1>3, <1>4, <1>5

LEMMA ReplaceTypes ==
  ASSUME World, NEW snapshot, snapshot.state \in States, Replaces(snapshot)
  PROVE  store' \in States /\ RoomsOK'
  BY DEF Replaces, World, RoomsOK, States, Tells

LEMMA ReplaceFailsTypes ==
  ASSUME World, NEW state \in States, ReplaceFails(state)
  PROVE  RoomsOK' /\ UNCHANGED <<store, told, lost, passed, saved>>
  BY DEF ReplaceFails, World, RoomsOK, States

LEMMA FoundTypes ==
  ASSUME World, NEW i, Found(i) # None
  PROVE  Found(i) \in Snapshot /\ Found(i).state \in States
  BY DEF Found, World, SnapshotsOK, Snapshot

LEMMA NewStoreType == NewStore \in States
  BY McpConstants DEF NewStore, States, Empty

----------------------------------------------------------------------------
(* Types.                                                                  *)

LEMMA WorldStep == World /\ [Next]_vars => World'
  <1> SUFFICES ASSUME World, [Next]_vars PROVE World'
    OBVIOUS
  <1> USE DEF World
  <1>1. ASSUME NEW s \in Sessions, Talks(s) PROVE World'
    BY <1>1 DEF Talks, Initialize, Initialized, OpenStream, CloseStream, EndSession, Subscribe,
                Unsubscribe, Updates, StatesOK, RoomsOK, SnapshotsOK, snapshots, lab
  <1>2. ASSUME NEW s \in Sessions, NEW c \in Canvases, Reads(s, c) \/ Retries(s, c) PROVE World'
    BY <1>2 DEF Reads, Retries, StatesOK, RoomsOK, SnapshotsOK, snapshots, lab
  <1>3. ASSUME NEW c \in Canvases, NEW via \in Canvases, NEW created \in SUBSET Canvases,
               Commits(c, via, created), UNCHANGED lab
        PROVE  World'
    BY <1>3, CommitTypes DEF StatesOK, lab
  <1>4. ASSUME NEW s \in Sessions, NEW c \in Canvases, Edits(s, c) PROVE World'
    BY <1>3, <1>4 DEF Edits
  <1>5. ASSUME NEW s \in Sessions, NEW c \in Canvases, OpenSubcanvas(s, c) PROVE World'
    <2>1. Parent[c] \in Canvases /\ {c} \in SUBSET Canvases
      BY <1>5, McpConstants DEF OpenSubcanvas
    <2>2. QED
      BY <1>3, <1>5, <2>1 DEF OpenSubcanvas
  <1>6. ASSUME NEW s \in Sessions, NEW c \in Canvases, FoldSubcanvas(s, c) PROVE World'
    <2>1. Parent[c] \in Canvases /\ Root \in Canvases
      BY <1>6, McpConstants DEF FoldSubcanvas, StatesOK, States
    <2>2. QED
      BY <1>3, <1>6, <2>1 DEF FoldSubcanvas
  <1>7. ASSUME NEW s \in Sessions, NEW c \in Canvases, CreateSnapshot(s, c) PROVE World'
    <2> DEFINE i == Cardinality(DOMAIN answered) + 1
               snapshot == [canvas |-> c, state |-> store]
    <2>1. snapshot \in Snapshot /\ snapshot.state \in States
      BY DEF StatesOK, Snapshot
    <2>2. /\ memory' = [j \in DOMAIN memory \cup {i} |-> IF j = i THEN snapshot ELSE memory[j]]
          /\ ledger' = [j \in DOMAIN ledger \cup {i} |-> IF j = i THEN snapshot ELSE ledger[j]]
          /\ answered' = [j \in DOMAIN answered \cup {i} |->
                            IF j = i THEN snapshot ELSE answered[j]]
          /\ saved' = snapshot.state
      BY <1>7 DEF CreateSnapshot, Saves
    <2> HIDE DEF i, snapshot
    <2>3. SnapshotsOK'
      BY <2>1, <2>2 DEF SnapshotsOK
    <2>4. QED
      BY <1>7, <2>1, <2>2, <2>3 DEF CreateSnapshot, StatesOK, RoomsOK, lab
  <1>8. ASSUME NEW s \in Sessions, NEW i, RestoreSnapshot(s, i) PROVE World'
    <2>1. store' \in States /\ RoomsOK'
      BY <1>8, FoundTypes, ReplaceTypes DEF RestoreSnapshot
    <2>2. QED
      BY <1>8, <2>1 DEF RestoreSnapshot, StatesOK, SnapshotsOK, snapshots, lab
  <1>9. ASSUME NEW s \in Sessions, NEW i, RestoreFails(s, i) PROVE World'
    <2>1. RoomsOK' /\ UNCHANGED <<store, told, lost, passed, saved>>
      BY <1>9, FoundTypes, ReplaceFailsTypes DEF RestoreFails
    <2>2. QED
      BY <1>9, <2>1 DEF RestoreFails, StatesOK, SnapshotsOK, snapshots, lab
  <1>10. ASSUME NEW s \in Sessions, LabActs(s) PROVE World'
    <2>1. store' \in States /\ saved' \in States /\ commits' \in Nat /\ RoomsOK' /\ SnapshotsOK'
      BY <1>10, CommitTypes, McpConstants DEF LabActs
    <2>2. [before |-> store, after |-> store'] \in Change
      BY <2>1 DEF StatesOK, Change
    <2>3. undo' \in Seq(Change) /\ redo' \in Seq(Change) /\ base' \in States
      BY <1>10, <2>2, AppendProperties, EmptyDomain DEF LabActs, StatesOK
    <2>4. QED
      BY <2>1, <2>3 DEF StatesOK
  <1>11. ASSUME NEW s \in Sessions, LabUndoes(s) \/ LabRedoes(s) PROVE World'
    <2>1. UNCHANGED <<base, sessions, saved, commits, restarts, memory, ledger, answered>>
      BY <1>11 DEF LabUndoes, LabRedoes, snapshots
    <2>2. /\ undo # <<>> => Last(undo) \in Change /\ Front(undo) \in Seq(Change)
          /\ redo # <<>> => Last(redo) \in Change /\ Front(redo) \in Seq(Change)
      BY History DEF StatesOK
    <2>3. ASSUME NEW change \in Change
          PROVE  /\ change.before \in States /\ change.after \in States
                 /\ Append(undo, change) \in Seq(Change) /\ Append(redo, change) \in Seq(Change)
      BY <2>3, AppendProperties DEF Change, StatesOK
    <2>4. store' \in States /\ RoomsOK' /\ undo' \in Seq(Change) /\ redo' \in Seq(Change)
      <3>1. ASSUME LabUndoes(s), CanReplace(Last(undo).before)
            PROVE  store' \in States /\ RoomsOK' /\ undo' \in Seq(Change) /\ redo' \in Seq(Change)
        BY <2>2, <2>3, <3>1, ReplaceTypes DEF LabUndoes
      <3>2. ASSUME LabUndoes(s), ~CanReplace(Last(undo).before)
            PROVE  store' \in States /\ RoomsOK' /\ undo' \in Seq(Change) /\ redo' \in Seq(Change)
        BY <2>2, <2>3, <3>2, ReplaceFailsTypes DEF LabUndoes, StatesOK
      <3>3. ASSUME LabRedoes(s), CanReplace(Last(redo).after)
            PROVE  store' \in States /\ RoomsOK' /\ undo' \in Seq(Change) /\ redo' \in Seq(Change)
        BY <2>2, <2>3, <3>3, ReplaceTypes DEF LabRedoes
      <3>4. ASSUME LabRedoes(s), ~CanReplace(Last(redo).after)
            PROVE  store' \in States /\ RoomsOK' /\ undo' \in Seq(Change) /\ redo' \in Seq(Change)
        BY <2>2, <2>3, <3>4, ReplaceFailsTypes DEF LabRedoes, StatesOK
      <3>5. QED
        BY <1>11, <3>1, <3>2, <3>3, <3>4
    <2>5. QED
      BY <2>1, <2>4 DEF StatesOK, SnapshotsOK
  <1>12. ASSUME NEW s \in Sessions, LabResets(s) PROVE World'
    <2>1. CASE CanReplace(base)
      <3>1. /\ store' = [base EXCEPT !.content[Root] = commits + 1] /\ saved' = store'
            /\ commits' = commits + 1 /\ base' = base
            /\ rooms' = rooms \cup base.canvases
            /\ told' = [c \in Canvases |->
                 IF c \in Tells([canvas |-> Root, state |-> base]) THEN store'.content[c]
                 ELSE told[c]]
            /\ undo' = Append(undo, [before |-> store, after |-> store']) /\ redo' = <<>>
            /\ UNCHANGED <<memory, ledger, answered>>
        BY <1>12, <2>1 DEF LabResets, snapshots
      <3>2. store' \in States /\ commits' \in Nat
        <4>1. base.canvases \in SUBSET Canvases /\ base.content \in [Canvases -> Nat]
          BY DEF StatesOK, States
        <4>2. commits + 1 \in Nat /\ [base.content EXCEPT ![Root] = commits + 1] \in [Canvases -> Nat]
          <5>1. commits + 1 \in Nat
            BY DEF StatesOK
          <5>2. QED
            BY <4>1, <5>1
        <4>3. store' = [canvases |-> base.canvases,
                        content |-> [base.content EXCEPT ![Root] = commits + 1]]
          BY <3>1 DEF StatesOK, States
        <4>4. QED
          BY <3>1, <4>1, <4>2, <4>3 DEF States
      <3>3. RoomsOK'
        BY <3>1, <3>2 DEF RoomsOK, StatesOK, States
      <3>4. [before |-> store, after |-> store'] \in Change
        BY <3>2 DEF StatesOK, Change
      <3>5. undo' \in Seq(Change) /\ redo' \in Seq(Change)
        BY <3>1, <3>4, AppendProperties, EmptyDomain DEF StatesOK
      <3>6. QED
        BY <3>1, <3>2, <3>3, <3>5 DEF StatesOK, SnapshotsOK
    <2>2. CASE ~CanReplace(base)
      <3>1. RoomsOK' /\ UNCHANGED <<store, told, lost, passed, saved>>
        BY <1>12, <2>2, ReplaceFailsTypes DEF LabResets, StatesOK
      <3>2. QED
        BY <1>12, <2>2, <3>1 DEF LabResets, StatesOK, SnapshotsOK, snapshots
    <2>3. QED
      BY <2>1, <2>2
  <1>13. ASSUME Elsewhere PROVE World'
    <2>1. ASSUME NEW c \in store.canvases, NEW via \in Canvases, Commits(c, via, {}), UNCHANGED lab
          PROVE  World'
      <3>1. c \in Canvases
        BY <2>1 DEF StatesOK, States
      <3>2. QED
        BY <1>3, <2>1, <3>1
    <2>2. ASSUME NEW c \in Canvases,
                 /\ commits' = commits + 1
                 /\ store' = [canvases |-> store.canvases \cup {c},
                              content |-> [store.content EXCEPT ![Root] = commits + 1]]
                 /\ saved' = store'
                 /\ rooms' = rooms \cup {Root}
                 /\ told' = [told EXCEPT ![Root] = commits + 1]
                 /\ UNCHANGED <<snapshots, lab>>
          PROVE  World'
      <3>1. store' \in States /\ commits' \in Nat /\ saved' = store'
        <4>1. store.canvases \in SUBSET Canvases /\ store.content \in [Canvases -> Nat]
          BY DEF StatesOK, States
        <4>2. commits + 1 \in Nat /\ [store.content EXCEPT ![Root] = commits + 1] \in [Canvases -> Nat]
          <5>1. commits + 1 \in Nat
            BY DEF StatesOK
          <5>2. QED
            BY <4>1, <5>1
        <4>3. QED
          BY <2>2, <4>1, <4>2 DEF States
      <3>2. RoomsOK'
        BY <2>2, McpConstants DEF StatesOK, RoomsOK
      <3>3. QED
        BY <2>2, <3>1, <3>2 DEF StatesOK, SnapshotsOK, snapshots, lab
    <2>3. QED
      BY <1>13, <2>1, <2>2 DEF Elsewhere
  <1>14. ASSUME NEW state \in States \cup {None}, Boots(state) PROVE World'
    <2>1. store' \in States /\ saved' = state /\ base' = store' /\ undo' = <<>> /\ redo' = <<>>
      BY <1>14, NewStoreType DEF Boots
    <2>2. RoomsOK' /\ SnapshotsOK'
      BY <1>14, McpConstants, EmptyDomain DEF Boots, RoomsOK, SnapshotsOK
    <2>3. QED
      BY <1>14, <2>1, <2>2, EmptyDomain DEF Boots, StatesOK
  <1>15. CASE UNCHANGED vars
    BY <1>15 DEF vars, StatesOK, RoomsOK, SnapshotsOK, snapshots, lab
  <1>16. QED
    BY <1>1, <1>2, <1>4, <1>5, <1>6, <1>7, <1>8, <1>9, <1>10, <1>11, <1>12, <1>13, <1>14, <1>15
       DEF Next, Crash, Shutdown, StatesOK, Talks

LEMMA ListenersStep == Listeners /\ [Next]_vars => Listeners'
  <1> SUFFICES ASSUME Listeners, [Next]_vars PROVE Listeners'
    OBVIOUS
  <1>1. ASSUME UNCHANGED sessions PROVE Listeners'
    BY <1>1 DEF Listeners
  <1>2. ASSUME NEW s \in Sessions, Talks(s) PROVE Listeners'
    <2>1. ASSUME NEW claim \in Claims, Initialize(s, claim) PROVE Listeners'
      <3>1. [ready |-> FALSE, role |-> NormalizeRole(claim), subscriptions |-> {}, stream |-> FALSE]
              \in Session
        BY DEF NormalizeRole, Session, Roles
      <3>2. QED
        BY <2>1, <3>1 DEF Initialize, Listeners
    <2>2. ASSUME NEW session \in Session \cup {None}, Updates(s, session) PROVE Listeners'
      BY <2>2 DEF Updates, Listeners
    <2>3. sessions[s] # None => sessions[s] \in Session
      BY DEF Listeners
    <2>4. ASSUME NEW c \in Canvases, sessions[s] # None
          PROVE  /\ [sessions[s] EXCEPT !.ready = TRUE] \in Session
                 /\ [sessions[s] EXCEPT !.stream = TRUE] \in Session
                 /\ [sessions[s] EXCEPT !.stream = FALSE] \in Session
                 /\ [sessions[s] EXCEPT !.subscriptions = @ \cup {c}] \in Session
                 /\ [sessions[s] EXCEPT !.subscriptions = @ \ {c}] \in Session
      BY <2>3, <2>4 DEF Session
    <2>5. Root \in Canvases
      BY McpConstants
    <2>6. QED
      BY <1>2, <2>1, <2>2, <2>4, <2>5
         DEF Talks, Initialized, OpenStream, CloseStream, EndSession, Subscribe, Unsubscribe, Ready
  <1>3. ASSUME NEW s \in Sessions, NEW c \in Canvases,
               Reads(s, c) \/ Edits(s, c) \/ Retries(s, c) \/ OpenSubcanvas(s, c)
                 \/ FoldSubcanvas(s, c) \/ CreateSnapshot(s, c)
        PROVE  Listeners'
    BY <1>1, <1>3 DEF Reads, Edits, Retries, OpenSubcanvas, FoldSubcanvas, CreateSnapshot, Commits
  <1>4. ASSUME NEW s \in Sessions, NEW i, RestoreSnapshot(s, i) \/ RestoreFails(s, i)
        PROVE  Listeners'
    BY <1>1, <1>4 DEF RestoreSnapshot, RestoreFails
  <1>5. ASSUME NEW s \in Sessions, LabActs(s) \/ LabUndoes(s) \/ LabRedoes(s) \/ LabResets(s)
        PROVE  Listeners'
    BY <1>1, <1>5 DEF LabActs, LabUndoes, LabRedoes, LabResets, Commits
  <1>6. ASSUME Elsewhere PROVE Listeners'
    BY <1>1, <1>6 DEF Elsewhere, Commits
  <1>7. ASSUME NEW state, Boots(state) PROVE Listeners'
    BY <1>7 DEF Boots, Listeners
  <1>8. CASE UNCHANGED vars
    BY <1>1, <1>8 DEF vars
  <1>9. QED
    BY <1>2, <1>3, <1>4, <1>5, <1>6, <1>7, <1>8 DEF Next, Crash, Shutdown, Talks

LEMMA WorldInit == Init => World /\ Listeners
  BY NewStoreType, McpConstants, EmptyDomain
     DEF Init, World, StatesOK, RoomsOK, SnapshotsOK, Listeners, Empty

LEMMA Typed == Spec => [](World /\ Listeners)
  BY WorldInit, WorldStep, ListenersStep, PTL DEF Spec

\* Store, rooms, snapshots, sessions and history hold values of their types, whatever is
\* restored, undone or recovered.
THEOREM McpTypeCorrect == Spec => []TypeOK
  <1>1. World /\ Listeners => TypeOK
    BY DEF World, StatesOK, RoomsOK, SnapshotsOK, Listeners, TypeOK
  <1>2. QED
    BY <1>1, Typed, PTL

----------------------------------------------------------------------------
(* Links.                                                                  *)

\* What was answered is in the ledger, and memory never disagrees with it.
Kept ==
  \A i \in DOMAIN answered :
    /\ i \in DOMAIN ledger /\ ledger[i] = answered[i]
    /\ i \in DOMAIN memory => memory[i] = answered[i]

LEMMA KeptStep == Kept /\ [Next]_vars => Kept'
  <1> SUFFICES ASSUME Kept, [Next]_vars PROVE Kept'
    OBVIOUS
  <1>1. ASSUME UNCHANGED snapshots PROVE Kept'
    BY <1>1 DEF snapshots, Kept
  <1>2. ASSUME NEW s \in Sessions, NEW c \in Canvases, CreateSnapshot(s, c) PROVE Kept'
    <2> DEFINE n == Cardinality(DOMAIN answered) + 1
               snapshot == [canvas |-> c, state |-> store]
    <2>1. /\ memory' = [j \in DOMAIN memory \cup {n} |-> IF j = n THEN snapshot ELSE memory[j]]
          /\ ledger' = [j \in DOMAIN ledger \cup {n} |-> IF j = n THEN snapshot ELSE ledger[j]]
          /\ answered' = [j \in DOMAIN answered \cup {n} |->
                            IF j = n THEN snapshot ELSE answered[j]]
      BY <1>2 DEF CreateSnapshot, Saves
    <2> HIDE DEF n, snapshot
    <2>2. QED
      BY <2>1 DEF Kept
  <1>3. ASSUME NEW s \in Sessions, Talks(s) PROVE Kept'
    BY <1>1, <1>3 DEF Talks, Initialize, Initialized, OpenStream, CloseStream, EndSession,
                      Subscribe, Unsubscribe, Updates
  <1>4. ASSUME NEW s \in Sessions, NEW c \in Canvases,
               Reads(s, c) \/ Edits(s, c) \/ Retries(s, c) \/ OpenSubcanvas(s, c)
                 \/ FoldSubcanvas(s, c)
        PROVE  Kept'
    BY <1>1, <1>4 DEF Reads, Edits, Retries, OpenSubcanvas, FoldSubcanvas, Commits
  <1>5. ASSUME NEW s \in Sessions, NEW i, RestoreSnapshot(s, i) \/ RestoreFails(s, i) PROVE Kept'
    BY <1>1, <1>5 DEF RestoreSnapshot, RestoreFails
  <1>6. ASSUME NEW s \in Sessions, LabActs(s) \/ LabUndoes(s) \/ LabRedoes(s) \/ LabResets(s)
        PROVE  Kept'
    BY <1>1, <1>6 DEF LabActs, LabUndoes, LabRedoes, LabResets, Commits
  <1>7. ASSUME Elsewhere PROVE Kept'
    BY <1>1, <1>7 DEF Elsewhere, Commits
  <1>8. ASSUME NEW state, Boots(state) PROVE Kept'
    <2>1. ledger' = ledger /\ answered' = answered /\ DOMAIN memory' = {}
      BY <1>8, EmptyDomain DEF Boots
    <2>2. QED
      BY <2>1 DEF Kept
  <1>9. CASE UNCHANGED vars
    BY <1>1, <1>9 DEF vars
  <1>10. QED
    BY <1>2, <1>3, <1>4, <1>5, <1>6, <1>7, <1>8, <1>9 DEF Next, Crash, Shutdown, Talks

\* Every link that was answered leads to what it was answered for, through any number of
\* later snapshots, restores, crashes and shutdowns.
THEOREM LinksAreKept == Spec => []LinksKept
  <1>1. Init => Kept
    BY EmptyDomain DEF Init, Kept
  <1>2. Kept => LinksKept
    BY DEF Kept, LinksKept, Resource, Found
  <1>3. QED
    BY <1>1, <1>2, KeptStep, PTL DEF Spec

----------------------------------------------------------------------------
(* Rooms.                                                                  *)

\* What the rooms tell is the store, except for those that were passed by or whose log was
\* left behind.  It is said of closed rooms too: they are opened again with their log.
RoomsMatch == \A c \in Canvases \ (lost \cup passed) : told[c] = store.content[c]

LEMMA CommitKeepsMatch ==
  ASSUME World, RoomsMatch, NEW c \in Canvases, NEW via \in Canvases,
         NEW created \in SUBSET Canvases, Commits(c, via, created)
  PROVE  RoomsMatch'
  <1>1. store.content \in [Canvases -> Nat] /\ told \in [Canvases -> Nat]
    BY DEF World, StatesOK, RoomsOK, States
  <1>2. /\ store'.content = [store.content EXCEPT ![c] = commits + 1]
        /\ told' = IF via = c THEN [told EXCEPT ![c] = commits + 1] ELSE told
        /\ passed' = IF via = c THEN passed \ {c} ELSE passed \cup {c}
        /\ lost' = lost
    BY DEF Commits
  <1>3. QED
    BY <1>1, <1>2 DEF RoomsMatch

LEMMA ReplaceGivesMatch ==
  ASSUME World, NEW snapshot, snapshot.state \in States, Replaces(snapshot)
  PROVE  RoomsMatch'
  <1>1. \A c \in Canvases : told'[c] =
          IF c \in rooms' THEN store'.content[c] ELSE told[c]
    BY DEF Replaces, Tells
  <1>2. lost' = {c \in Canvases \ rooms' : told[c] # store'.content[c]}
    BY DEF Replaces, Leaves
  <1>3. QED
    BY <1>1, <1>2 DEF RoomsMatch

LEMMA MatchStep == World /\ RoomsMatch /\ [Next]_vars => RoomsMatch'
  <1> SUFFICES ASSUME World, RoomsMatch, [Next]_vars PROVE RoomsMatch'
    OBVIOUS
  <1>1. ASSUME UNCHANGED <<store, told, lost, passed>> PROVE RoomsMatch'
    BY <1>1 DEF RoomsMatch
  <1>2. ASSUME NEW s \in Sessions, Talks(s) PROVE RoomsMatch'
    BY <1>1, <1>2 DEF Talks, Initialize, Initialized, OpenStream, CloseStream, EndSession,
                      Subscribe, Unsubscribe, Updates
  <1>3. ASSUME NEW s \in Sessions, NEW c \in Canvases,
               Reads(s, c) \/ Retries(s, c) \/ CreateSnapshot(s, c)
        PROVE  RoomsMatch'
    BY <1>1, <1>3 DEF Reads, Retries, CreateSnapshot, Saves
  <1>4. ASSUME NEW s \in Sessions, NEW c \in Canvases,
               Edits(s, c) \/ OpenSubcanvas(s, c) \/ FoldSubcanvas(s, c)
        PROVE  RoomsMatch'
    <2>1. c # Root => Parent[c] \in Canvases
      BY McpConstants
    <2>2. {} \in SUBSET Canvases /\ {c} \in SUBSET Canvases
      OBVIOUS
    <2>3. QED
      BY <1>4, <2>1, <2>2, CommitKeepsMatch, McpConstants DEF Edits, OpenSubcanvas, FoldSubcanvas
  <1>5. ASSUME NEW s \in Sessions, NEW i, RestoreSnapshot(s, i) PROVE RoomsMatch'
    BY <1>5, FoundTypes, ReplaceGivesMatch DEF RestoreSnapshot
  <1>6. ASSUME NEW s \in Sessions, NEW i, RestoreFails(s, i) PROVE RoomsMatch'
    BY <1>1, <1>6, FoundTypes, ReplaceFailsTypes DEF RestoreFails
  <1>7. ASSUME NEW s \in Sessions, LabActs(s) PROVE RoomsMatch'
    BY <1>7, CommitKeepsMatch, McpConstants DEF LabActs
  <1>8. ASSUME NEW s \in Sessions, LabUndoes(s) \/ LabRedoes(s) PROVE RoomsMatch'
    <2>1. /\ undo # <<>> => Last(undo).before \in States
          /\ redo # <<>> => Last(redo).after \in States
      BY History DEF World, StatesOK, Change
    <2>2. CASE LabUndoes(s)
      <3>1. CASE CanReplace(Last(undo).before)
        BY <2>1, <2>2, <3>1, ReplaceGivesMatch DEF LabUndoes
      <3>2. CASE ~CanReplace(Last(undo).before)
        BY <1>1, <2>1, <2>2, <3>2, ReplaceFailsTypes DEF LabUndoes
      <3>3. QED
        BY <3>1, <3>2
    <2>3. CASE LabRedoes(s)
      <3>1. CASE CanReplace(Last(redo).after)
        BY <2>1, <2>3, <3>1, ReplaceGivesMatch DEF LabRedoes
      <3>2. CASE ~CanReplace(Last(redo).after)
        BY <1>1, <2>1, <2>3, <3>2, ReplaceFailsTypes DEF LabRedoes
      <3>3. QED
        BY <3>1, <3>2
    <2>4. QED
      BY <1>8, <2>2, <2>3
  <1>9. ASSUME NEW s \in Sessions, LabResets(s) PROVE RoomsMatch'
    <2>1. CASE CanReplace(base)
      <3>1. \A c \in Canvases : told'[c] =
              IF c \in rooms' THEN store'.content[c] ELSE told[c]
        BY <1>9, <2>1 DEF LabResets, Tells
      <3>2. lost' = {c \in Canvases \ rooms' : told[c] # store'.content[c]}
        BY <1>9, <2>1 DEF LabResets, Leaves
      <3>3. QED
        BY <3>1, <3>2 DEF RoomsMatch
    <2>2. CASE ~CanReplace(base)
      BY <1>1, <1>9, <2>2, ReplaceFailsTypes DEF LabResets, World, StatesOK
    <2>3. QED
      BY <2>1, <2>2
  <1>10. ASSUME Elsewhere PROVE RoomsMatch'
    <2>1. ASSUME NEW c \in store.canvases, NEW via \in Canvases, Commits(c, via, {})
          PROVE  RoomsMatch'
      <3>1. c \in Canvases /\ {} \in SUBSET Canvases
        BY <2>1 DEF World, StatesOK, States
      <3>2. QED
        BY <2>1, <3>1, CommitKeepsMatch
    <2>2. ASSUME store'.content = [store.content EXCEPT ![Root] = commits + 1],
                 told' = [told EXCEPT ![Root] = commits + 1], lost' = lost,
                 passed' = passed \ {Root}
          PROVE  RoomsMatch'
      <3>1. store.content \in [Canvases -> Nat] /\ told \in [Canvases -> Nat]
        BY DEF World, StatesOK, RoomsOK, States
      <3>2. QED
        BY <2>2, <3>1 DEF RoomsMatch
    <2>3. QED
      BY <1>10, <2>1, <2>2 DEF Elsewhere
  <1>11. ASSUME Crash PROVE RoomsMatch'
    BY <1>11 DEF Crash, Boots, Leaves, RoomsMatch
  <1>12. ASSUME Shutdown PROVE RoomsMatch'
    <2>1. store' = store
      BY <1>12, McpNone DEF Shutdown, Boots, World, StatesOK
    <2>2. QED
      BY <1>1, <1>12, <2>1 DEF Shutdown, Boots
  <1>13. CASE UNCHANGED vars
    BY <1>1, <1>13 DEF vars
  <1>14. QED
    BY <1>2, <1>3, <1>4, <1>5, <1>6, <1>7, <1>8, <1>9, <1>10, <1>11, <1>12, <1>13 DEF Next, Talks

\* Every open room tells what is on its canvas, over restores, undo and redo, resets and
\* restarts, except for a canvas that was written through the room of another one and not
\* yet through its own or by a replacement (passed), and except the rooms that a restore
\* before a crash, or a restore while they were closed, left behind (lost).
THEOREM RoomsAreTold == Spec => []RoomsTold
  <1>1. Init => RoomsMatch
    BY McpConstants DEF Init, RoomsMatch, NewStore, Empty
  <1>2. World /\ RoomsMatch => RoomsTold
    BY DEF World, RoomsOK, RoomsMatch, RoomsTold
  <1>3. World /\ RoomsMatch /\ [Next]_vars => RoomsMatch'
    BY MatchStep
  <1>4. QED
    BY <1>1, <1>2, <1>3, Typed, PTL DEF Spec
=============================================================================
