------------------------------ MODULE SyncRoom ------------------------------
(***************************************************************************)
(* The sync room of one canvas (packages/state-vector-sync) and its rows   *)
(* in SQLite (packages/sync-ledger).                                       *)
(*                                                                         *)
(* apply() checks an update against memory, calls the store and remembers  *)
(* the update only after an await.  JavaScript drains the microtask queue  *)
(* before it takes the next event, so two calls overlap only when their    *)
(* frames arrived in one chunk of a WebSocket: onData starts a handler for *)
(* each frame of a chunk without awaiting it.  `pending' holds the calls   *)
(* waiting at that await, which resume in order, and `taken' the frames of *)
(* the current chunk.                                                      *)
(*                                                                         *)
(* The store is the environment here: a call of applyTransaction succeeds  *)
(* or throws.  CanvasStore says which.                                     *)
(***************************************************************************)
EXTENDS Naturals, Sequences

CONSTANTS Ids,           \* update ids (randomUUID)
          Clients,       \* client ids
          None,          \* an update id not in use yet
          Replacements,  \* the ids of state_replace updates
          MaxCounter,    \* bound: counters a client sends
          Burst,         \* bound: frames in one chunk; 1: calls never overlap
          MaxFailures,   \* bound: writes of a row that throw
          MaxRestarts    \* bound: restarts of the server

Updates == [id : Ids, client : Clients, counter : 1..MaxCounter]

ASSUME RoomConstants ==
  /\ Replacements \subseteq Ids
  /\ None \notin Updates
  /\ MaxCounter \in Nat /\ MaxFailures \in Nat /\ MaxRestarts \in Nat
  /\ Burst \in Nat \ {0}

VARIABLES updates,   \* #updates; #byId holds the same updates by id
          vector,    \* #vector
          pending,   \* calls whose update the store accepted, before #remember
          taken,     \* frames of the current chunk handled so far
          log,       \* the rows of sync_updates, by sequence
          issued,    \* the update each id stands for: a retry sends the same one
          calls,     \* history: ids the store accepted, in order, a restart counting
                     \* as the replay of the rows
          answered,  \* history: ids for which apply() returned an update
          unwritten, \* history: ids whose row could not be written, the last time it was tried
          failures,  \* history: rows that could not be written
          restarts   \* history: restarts so far

roomVars == <<updates, vector, pending, taken, log, issued, calls, answered,
              unwritten, failures, restarts>>

IdsOf(s) == [i \in 1..Len(s) |-> s[i].id]
Remembered(id) == \E i \in 1..Len(updates) : updates[i].id = id

TypeOK ==
  /\ updates \in Seq(Updates) /\ pending \in Seq(Updates) /\ log \in Seq(Updates)
  /\ vector \in [Clients -> Nat]
  /\ taken \in 0..Burst
  /\ issued \in [Ids -> Updates \cup {None}]
  /\ calls \in Seq(Ids) /\ answered \in SUBSET Ids /\ unwritten \in SUBSET Ids
  /\ failures \in Nat /\ restarts \in Nat

Init ==
  /\ updates = <<>> /\ pending = <<>> /\ log = <<>>
  /\ vector = [c \in Clients |-> 0]
  /\ taken = 0
  /\ issued = [i \in Ids |-> None]
  /\ calls = <<>> /\ answered = {} /\ unwritten = {}
  /\ failures = 0 /\ restarts = 0

----------------------------------------------------------------------------
(* apply and applyStateReplacement, up to the await.                       *)

Expected(c) == vector[c] + 1

\* A frame of the current chunk, or the first one of a new chunk, carries update u.
Frame(u) ==
  /\ taken < Burst
  /\ issued[u.id] \in {None, u}
  /\ taken' = taken + 1
  /\ issued' = [issued EXCEPT ![u.id] = u]
  /\ UNCHANGED <<updates, vector, log, unwritten, failures, restarts>>

\* The first update remembered with u's client and counter, if it is of u's kind.
Duplicates(u) ==
  {i \in 1..Len(updates) :
     /\ updates[i].client = u.client /\ updates[i].counter = u.counter
     /\ \A j \in 1..(i - 1) : updates[j].client # u.client \/ updates[j].counter # u.counter
     /\ (updates[i].id \in Replacements) = (u.id \in Replacements)}

\* The id is known, or the counter was used before: the earlier update is returned.
Replay(u) ==
  /\ Frame(u)
  /\ \/ Remembered(u.id) /\ answered' = answered \cup {u.id}
     \/ /\ ~Remembered(u.id) /\ u.counter < Expected(u.client)
        /\ \E i \in Duplicates(u) : answered' = answered \cup {updates[i].id}
  /\ UNCHANGED <<pending, calls>>

\* Mutants of Admissible: a counter ahead is let through; a used counter is let through
\* when the id is new.
AdmissibleAhead(u) == ~Remembered(u.id) /\ u.counter >= Expected(u.client)
AdmissibleBehind(u) == ~Remembered(u.id) /\ u.counter <= Expected(u.client)

Admissible(u) == ~Remembered(u.id) /\ u.counter = Expected(u.client)

Admit(u) ==
  /\ Frame(u)
  /\ Admissible(u)
  /\ pending' = Append(pending, u)
  /\ calls' = Append(calls, u.id)
  /\ UNCHANGED answered

\* A counter out of order or ahead, or a store that throws.
Reject(u) ==
  /\ Frame(u)
  /\ ~Remembered(u.id)
  /\ u.counter < Expected(u.client) => Duplicates(u) = {}
  /\ UNCHANGED <<pending, calls, answered>>

----------------------------------------------------------------------------
(* After the await: #remember, INSERT OR IGNORE, and what apply returns.   *)

\* Mutant of Insert: the UNIQUE constraint on the counter forgets the client.
InsertByCounter(u) ==
  IF \E i \in 1..Len(log) : log[i].counter = u.counter THEN log ELSE Append(log, u)

Insert(u) ==
  IF \E i \in 1..Len(log) :
       log[i].id = u.id \/ (log[i].client = u.client /\ log[i].counter = u.counter)
    THEN log ELSE Append(log, u)

\* The microtasks run to the end of the queue before another frame is taken.
Resume(u) ==
  /\ pending # <<>> /\ u = Head(pending)
  /\ pending' = Tail(pending)
  /\ taken' = IF Len(pending) = 1 THEN 0 ELSE Burst
  /\ updates' = Append(updates, u)
  /\ vector' = [vector EXCEPT ![u.client] = IF u.counter > @ THEN u.counter ELSE @]

\* emits: no listener throws, so apply() returns.
Remember(u, emits) ==
  /\ Resume(u)
  /\ log' = Insert(u)
  /\ unwritten' = unwritten \ {u.id}
  /\ answered' = answered \cup (IF emits THEN {u.id} ELSE {})
  /\ UNCHANGED <<issued, calls, failures, restarts>>

\* The row cannot be written: apply() rejects, but memory has the update already.
WriteFails(u) ==
  /\ Resume(u)
  /\ failures < MaxFailures
  /\ failures' = failures + 1
  /\ unwritten' = unwritten \cup {u.id}
  /\ UNCHANGED <<log, issued, calls, answered, restarts>>

\* A chunk without accepted updates has no microtask that matters.
EndOfChunk ==
  /\ taken > 0 /\ pending = <<>>
  /\ taken' = 0
  /\ UNCHANGED <<updates, vector, pending, log, issued, calls, answered, unwritten, failures,
                 restarts>>

\* The constructor of a new process remembers the rows.
Highest(s, c) ==
  CHOOSE n \in 0..MaxCounter :
    /\ \A i \in 1..Len(s) : s[i].client = c => s[i].counter <= n
    /\ n > 0 => \E i \in 1..Len(s) : s[i].client = c /\ s[i].counter = n

Restart ==
  /\ restarts < MaxRestarts
  /\ restarts' = restarts + 1
  /\ updates' = log
  /\ vector' = [c \in Clients |-> Highest(log, c)]
  /\ pending' = <<>> /\ taken' = 0
  /\ calls' = IdsOf(log)
  /\ UNCHANGED <<log, issued, answered, unwritten, failures>>

----------------------------------------------------------------------------
Receive == \E u \in Updates : Replay(u) \/ Admit(u) \/ Reject(u)

Next ==
  \/ Receive \/ EndOfChunk \/ Restart
  \/ \E u \in Updates : Remember(u, TRUE) \/ WriteFails(u)

Spec == Init /\ [][Next]_roomVars

----------------------------------------------------------------------------
(* Properties.                                                             *)

\* Every client's updates carry exactly the counters 1, ..., vector[client], so that
\* diff() by counter misses none, although calls overlap and the gap check reads a
\* vector that other calls are about to move.  Only a restart after a failed write of
\* a row may leave a gap.
Numbered(s, c, n) ==
  {s[i].counter : i \in {j \in 1..Len(s) : s[j].client = c}} = 1..n

NoGaps ==
  failures = 0 \/ restarts = 0 => \A c \in Clients : Numbered(updates, c, vector[c])

\* The room lists its updates in the order the store took them, with the calls at
\* the await behind them: nothing is remembered that the store did not take, nothing
\* the store took is dropped, and resuming calls does not reorder them.
StoreOrder == calls = IdsOf(updates) \o IdsOf(pending)

\* An update id is remembered, and so broadcast and listed by diff(), once, however
\* often the update is sent.
RememberedOnce ==
  \A i, j \in 1..Len(updates) : i # j => updates[i].id # updates[j].id

\* u has its row: one with its client and counter, and with its id if calls do not overlap.
Rowed(u) ==
  \E i \in 1..Len(log) : /\ log[i].client = u.client /\ log[i].counter = u.counter
                         /\ Burst = 1 => log[i].id = u.id

\* An update apply() has returned has its row, in the database and so after every restart,
\* whatever was retried, repeated, overlapped or interrupted. There are two exceptions. An
\* update whose row could not be written is remembered all the same, and a retry of it is
\* answered from memory: it is in `unwritten'. And of two different updates with the same
\* client and counter in one chunk both are answered and only the first row is kept: then
\* the row has another id.
AnsweredIsDurable == \A id \in answered \ unwritten : Rowed(issued[id])

\* What a room promises, kept by a room whose calls do not overlap and whose rows are
\* written.
Promise == INSTANCE UpdateLog WITH entries <- updates, latest <- vector
PromiseKept == Promise!Spec
=============================================================================
