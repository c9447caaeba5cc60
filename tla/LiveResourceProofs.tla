------------------------- MODULE LiveResourceProofs -------------------------
(* Proofs about HdsrcRuntimeManager, for any finite set of calls, and about  *)
(* LivePortal: what holds however calls overlap and fail, and what holds if  *)
(* the calls of one caller follow each other.                                *)
EXTENDS HdsrcRuntimeManager, LivePortal, FiniteSetTheorems, SequenceTheorems, TLAPS

----------------------------------------------------------------------------
(* The runtime manager.                                                     *)

\* The process being started, if there is one.
Starting == IF startPromise = "spawned" THEN {spawned} ELSE {}

\* The manager's own state: the discovery is over when the descriptor is known, no process
\* precedes it, the next epoch is not used yet, and a process has a client only as the current or the starting one.
RuntimeInv ==
  /\ ReadyHasRuntime
  /\ open \subseteq {current} \cup Starting
  /\ discovery => ~descriptor
  /\ ~descriptor => current = 0 /\ startPromise # "spawned"
  /\ startPromise = "spawned" => epoch < spawned

\* A call that waits has a start to wait for; a call that runs, or that has yet to react to
\* what happened to its process, was given the current process or there is none.
PlaceInv(c) ==
  /\ c.at = "waiting" => startPromise # "none"
  /\ c.at = "running" => c.on = current /\ current \in open /\ current # 0
  /\ c.at \in {"granted", "failed"} => current \in {0, c.on}

\* A call that is not given out has been sent less often than it was attempted.
SentInv(o, c) ==
  /\ c.sent <= c.attempt
  /\ c.at \in {"idle", "waiting", "granted"} => c.sent < c.attempt
  /\ o \notin Safe \/ c.at = "idle" => c.attempt = 1

CallsInv == \A o \in Ops : PlaceInv(op[o]) /\ SentInv(o, op[o])

ManagerInv == ManagerTypeOK /\ RuntimeInv /\ CallsInv

\* No call was given a process that is still to be created or is being started.
NumberInv ==
  \A o \in Ops : op[o].on <= spawned /\ (startPromise = "spawned" => op[o].on < spawned)

----------------------------------------------------------------------------
(* What the actions do to the calls.                                       *)

\* What a call keeps when it changes its place.
Keeps(c, d) == d.on = c.on /\ d.attempt = c.attempt /\ d.sent = c.sent

\* A rejected call keeps its process, its attempt and its count.
LEMMA FailingCalls ==
  ASSUME op \in [Ops -> CallRecord], NEW S, NEW why \in Origins
  PROVE  /\ Failing(S, why) \in [Ops -> CallRecord]
         /\ \A o \in Ops : /\ Keeps(op[o], Failing(S, why)[o])
                           /\ o \in S => /\ Failing(S, why)[o].at = "failed"
                                         /\ Failing(S, why)[o].why = why
                           /\ o \notin S => Failing(S, why)[o] = op[o]
  <1> SUFFICES ASSUME NEW o \in Ops
               PROVE  LET d == Failing(S, why)[o]
                      IN /\ d \in CallRecord /\ Keeps(op[o], d)
                         /\ o \in S => d.at = "failed" /\ d.why = why
                         /\ o \notin S => d = op[o]
    BY DEF Failing
  <1>1. op[o] \in CallRecord
    OBVIOUS
  <1>2. CASE o \in S
    BY <1>1, <1>2 DEF Failing, CallRecord, Keeps
  <1>3. CASE o \notin S
    BY <1>1, <1>3 DEF Failing, Keeps
  <1>4. QED
    BY <1>2, <1>3

\* The answered calls are done or failed, and the others are as they were.
LEMMA AnsweredCalls ==
  ASSUME op \in [Ops -> CallRecord],
         NEW S \in SUBSET Ops, NEW failed \in SUBSET S, NEW broken \in SUBSET failed,
         Answers(S, failed, broken)
  PROVE  /\ op' \in [Ops -> CallRecord]
         /\ \A o \in Ops : /\ Keeps(op[o], op'[o])
                           /\ o \in S => op'[o].at \in {"failed", "done"}
                           /\ o \notin S => op'[o] = op[o]
  <1> SUFFICES ASSUME NEW o \in Ops
               PROVE  LET d == op'[o]
                      IN /\ d \in CallRecord /\ Keeps(op[o], d)
                         /\ o \in S => d.at \in {"failed", "done"}
                         /\ o \notin S => d = op[o]
    BY DEF Answers
  <1>1. op[o] \in CallRecord
    OBVIOUS
  <1>2. CASE o \in broken
    <2>1. op'[o] = [op[o] EXCEPT !.at = "failed", !.why = "contract"]
      BY <1>2 DEF Answers
    <2>2. QED
      BY <1>1, <1>2, <2>1 DEF CallRecord, Keeps, Origins
  <1>3. CASE o \in failed \ broken
    <2>1. op'[o] = [op[o] EXCEPT !.at = "failed", !.why = "remote_domain"]
      BY <1>3 DEF Answers
    <2>2. QED
      BY <1>1, <1>3, <2>1 DEF CallRecord, Keeps, Origins
  <1>4. CASE o \in S \ failed
    <2>1. op'[o] = [op[o] EXCEPT !.at = "done"]
      BY <1>4 DEF Answers
    <2>2. QED
      BY <1>1, <1>4, <2>1 DEF CallRecord, Keeps
  <1>5. CASE o \notin S
    <2>1. op'[o] = op[o]
      BY <1>5 DEF Answers
    <2>2. QED
      BY <1>1, <1>5, <2>1 DEF Keeps
  <1>6. QED
    BY <1>2, <1>3, <1>4, <1>5

\* A call that joins a start keeps its process and its count; the others are as they were.
LEMMA JoinedCalls ==
  ASSUME NEW f \in [Ops -> CallRecord], NEW o \in Ops, NEW n \in 1..2, Join(f, o, n)
  PROVE  /\ op' \in [Ops -> CallRecord]
         /\ op'[o].at = "waiting" /\ op'[o].attempt = n
         /\ op'[o].on = f[o].on /\ op'[o].sent = f[o].sent
         /\ \A x \in Ops \ {o} : op'[x] = f[x]
  <1>1. op' = [f EXCEPT ![o] = [f[o] EXCEPT !.at = "waiting", !.attempt = n]]
    BY DEF Join
  <1>2. [f[o] EXCEPT !.at = "waiting", !.attempt = n] \in CallRecord
    BY DEF CallRecord
  <1>3. QED
    BY <1>1, <1>2 DEF CallRecord

\* The calls that waited for a process that has started are given it.
LEMMA GrantedCalls ==
  ASSUME op \in [Ops -> CallRecord], spawned \in Nat, Started, mstate # "stopped"
  PROVE  /\ op' \in [Ops -> CallRecord]
         /\ \A o \in Ops : /\ op'[o].attempt = op[o].attempt /\ op'[o].sent = op[o].sent
                           /\ o \in Waiters => op'[o].at = "granted" /\ op'[o].on = spawned
                           /\ o \notin Waiters => op'[o] = op[o]
  <1> SUFFICES ASSUME NEW o \in Ops
               PROVE  LET d == op'[o]
                      IN /\ d \in CallRecord /\ d.attempt = op[o].attempt /\ d.sent = op[o].sent
                         /\ o \in Waiters => d.at = "granted" /\ d.on = spawned
                         /\ o \notin Waiters => d = op[o]
    BY DEF Started
  <1>1. op[o] \in CallRecord
    OBVIOUS
  <1>2. CASE o \in Waiters
    <2>1. op'[o] = [op[o] EXCEPT !.at = "granted", !.on = spawned]
      BY <1>2 DEF Started
    <2>2. QED
      BY <1>1, <1>2, <2>1 DEF CallRecord
  <1>3. CASE o \notin Waiters
    BY <1>1, <1>3 DEF Started
  <1>4. QED
    BY <1>2, <1>3

\* A call that fails keeps its bookkeeping if it was not left with an older process.
LEMMA FailedCall ==
  ASSUME NEW o, NEW c \in CallRecord, NEW d \in CallRecord, SentInv(o, c), Keeps(c, d),
         d.at \in {"failed", "done", "error"}, d.at = "failed" => current' \in {0, c.on}
  PROVE  PlaceInv(d)' /\ SentInv(o, d)
  BY DEF PlaceInv, SentInv, Keeps, CallRecord

----------------------------------------------------------------------------
(* Every step keeps the invariant.                                         *)

\* Calling, or coming back to #start after a failure, keeps the invariant.
LEMMA CallStep ==
  ASSUME ManagerInv, NEW o \in Ops, Call(o)
  PROVE  ManagerInv'
  <1> USE DEF ManagerInv
  <1>t. op \in [Ops -> CallRecord] /\ op[o] \in CallRecord /\ current \in Nat
    BY DEF ManagerTypeOK
  <1>u. UNCHANGED <<mstate, descriptor, current, epoch, spawned, open>> /\ op[o].at = "idle"
    BY DEF Call
  <1>1. CASE mstate = "stopped" /\ op' = [op EXCEPT ![o].at = "error"] /\ UNCHANGED <<startPromise, discovery>>
    <2>1. op' = [op EXCEPT ![o] = [op[o] EXCEPT !.at = "error"]]
      BY <1>1
    <2>2. /\ op'[o] \in CallRecord /\ Keeps(op[o], op'[o]) /\ op'[o].at = "error"
          /\ \A x \in Ops \ {o} : op'[x] = op[x]
      BY <1>t, <2>1 DEF CallRecord, Keeps
    <2>3. ManagerTypeOK'
      BY <1>t, <1>u, <1>1, <2>1, <2>2 DEF ManagerTypeOK
    <2>4. RuntimeInv'
      BY <1>u, <1>1 DEF RuntimeInv, ReadyHasRuntime, Starting
    <2>5. PlaceInv(op[o])' /\ SentInv(o, op[o])'
      BY <1>t, <2>2, FailedCall DEF CallsInv, SentInv, PlaceInv, Keeps, CallRecord
    <2>6. \A x \in Ops \ {o} : PlaceInv(op[x])' /\ SentInv(x, op[x])'
      BY <1>u, <1>1, <2>2 DEF CallsInv, PlaceInv, SentInv
    <2>7. QED
      BY <2>3, <2>4, <2>5, <2>6 DEF CallsInv
  <1>2. CASE /\ current # 0 /\ op' = [op EXCEPT ![o].at = "granted", ![o].on = current]
             /\ UNCHANGED <<startPromise, discovery>>
    <2>1. op' = [op EXCEPT ![o] = [op[o] EXCEPT !.at = "granted", !.on = current]]
      BY <1>2
    <2>2. /\ op'[o] \in CallRecord /\ op'[o].at = "granted" /\ op'[o].on = current
          /\ op'[o].sent = op[o].sent /\ op'[o].attempt = op[o].attempt
          /\ \A x \in Ops \ {o} : op'[x] = op[x]
      BY <1>t, <2>1 DEF CallRecord
    <2>3. ManagerTypeOK'
      BY <1>t, <1>u, <1>2, <2>1, <2>2 DEF ManagerTypeOK
    <2>4. RuntimeInv'
      BY <1>u, <1>2 DEF RuntimeInv, ReadyHasRuntime, Starting
    <2>5. PlaceInv(op[o])' /\ SentInv(o, op[o])'
      BY <1>t, <1>u, <2>2 DEF CallsInv, SentInv, PlaceInv, CallRecord
    <2>6. \A x \in Ops \ {o} : PlaceInv(op[x])' /\ SentInv(x, op[x])'
      BY <1>u, <1>2, <2>2 DEF CallsInv, PlaceInv, SentInv
    <2>7. QED
      BY <2>3, <2>4, <2>5, <2>6 DEF CallsInv
  <1>3. CASE mstate # "stopped" /\ ~(mstate = "ready" /\ current # 0) /\ Join(op, o, 1)
    <2>1. /\ op' \in [Ops -> CallRecord] /\ op'[o].at = "waiting" /\ op'[o].attempt = 1
          /\ op'[o].sent = op[o].sent /\ \A x \in Ops \ {o} : op'[x] = op[x]
      BY <1>t, <1>3, JoinedCalls
    <2>2. current = 0
      BY <1>3 DEF RuntimeInv, ReadyHasRuntime
    <2>3. /\ startPromise' = IF startPromise = "none" THEN "begun" ELSE startPromise
          /\ discovery' = (discovery \/ (startPromise = "none" /\ ~descriptor))
      BY <1>3 DEF Join
    <2>4. ManagerTypeOK'
      BY <1>u, <2>1, <2>3 DEF ManagerTypeOK
    <2>5. RuntimeInv'
      BY <1>u, <2>2, <2>3 DEF RuntimeInv, ReadyHasRuntime, Starting
    <2>6. PlaceInv(op[o])' /\ SentInv(o, op[o])'
      <3>1. op[o].attempt \in 1..2 /\ op[o].sent \in Nat /\ op[o].sent < op[o].attempt
        BY <1>t, <1>u DEF CallRecord, CallsInv, SentInv
      <3>2. op[o].attempt = 1
        BY <1>u DEF CallsInv, SentInv
      <3>3. op[o].sent = 0
        BY <3>1, <3>2
      <3>4. QED
        BY <2>1, <2>3, <3>3 DEF PlaceInv, SentInv
    <2>7. \A x \in Ops \ {o} : PlaceInv(op[x])' /\ SentInv(x, op[x])'
      BY <1>u, <2>1, <2>3 DEF CallsInv, PlaceInv, SentInv
    <2>8. QED
      BY <2>4, <2>5, <2>6, <2>7 DEF CallsInv
  <1>4. QED
    BY <1>1, <1>2, <1>3 DEF Call

\* A step that touches no call, closes no client and leaves the current process and the
\* start alone keeps what is known of the calls.
LEMMA CallsFrame ==
  ASSUME CallsInv, op' = op, current' = current, open \subseteq open',
         startPromise # "none" => startPromise' # "none"
  PROVE  CallsInv'
  BY DEF CallsInv, PlaceInv, SentInv

\* A step that fails the waiting calls while there is no process keeps what is known of
\* the calls.
LEMMA WaitersFail ==
  ASSUME ManagerInv, NEW why \in Origins, op' = Failing(Waiters, why), current = 0, current' = 0
  PROVE  op' \in [Ops -> CallRecord] /\ CallsInv'
  <1>1. op \in [Ops -> CallRecord] /\ op' \in [Ops -> CallRecord]
    BY FailingCalls DEF ManagerInv, ManagerTypeOK
  <1>2. ASSUME NEW o \in Ops PROVE PlaceInv(op[o])' /\ SentInv(o, op[o])'
    <2>1. CASE o \in Waiters
      <3>1. Keeps(op[o], op'[o]) /\ op'[o].at = "failed"
        BY <1>1, <2>1, FailingCalls
      <3>2. op[o] \in CallRecord /\ op'[o] \in CallRecord /\ SentInv(o, op[o])
        BY <1>1 DEF ManagerInv, CallsInv
      <3>3. QED
        BY <3>1, <3>2, FailedCall
    <2>2. CASE o \notin Waiters
      <3>1. op'[o] = op[o] /\ op[o].at # "waiting"
        BY <1>1, <2>2, FailingCalls DEF Waiters
      <3>2. QED
        BY <3>1 DEF ManagerInv, CallsInv, PlaceInv, SentInv
    <2>3. QED
      BY <2>1, <2>2
  <1>3. QED
    BY <1>1, <1>2 DEF CallsInv

\* Discovery and the creation of a process keep the invariant.
LEMMA DiscoveryStep ==
  ASSUME ManagerInv, Discover \/ Discovered \/ DiscoveryFails \/ Spawn \/ SpawnThrows
  PROVE  ManagerInv'
  <1> USE DEF ManagerInv
  <1>1. CASE Discover
    BY <1>1, CallsFrame DEF Discover, ManagerTypeOK, RuntimeInv, ReadyHasRuntime, Starting
  <1>2. CASE Discovered
    <2>1. current = 0 /\ ~descriptor
      BY <1>2 DEF Discovered, RuntimeInv
    <2>2. QED
      BY <1>2, <2>1, CallsFrame DEF Discovered, ManagerTypeOK, RuntimeInv, ReadyHasRuntime, Starting
  <1>3. CASE DiscoveryFails
    <2>1. current = 0 /\ ~descriptor /\ startPromise # "spawned"
      BY <1>3 DEF DiscoveryFails, RuntimeInv
    <2>2. op' = Failing(Waiters, "contract") /\ current' = 0
      BY <1>3, <2>1 DEF DiscoveryFails
    <2>3. op' \in [Ops -> CallRecord] /\ CallsInv'
      BY <2>1, <2>2, WaitersFail DEF Origins
    <2>4. QED
      BY <1>3, <2>1, <2>3 DEF DiscoveryFails, ManagerTypeOK, RuntimeInv, ReadyHasRuntime, Starting
  <1>4. CASE Spawn
    <2>1. current = 0 /\ open = {}
      <3>1. current = 0 /\ Starting = {} /\ 0 \notin open
        BY <1>4 DEF Spawn, RuntimeInv, ReadyHasRuntime, Starting, ManagerTypeOK
      <3>2. QED
        BY <3>1 DEF RuntimeInv
    <2>2. ManagerTypeOK'
      BY <1>4, <2>1 DEF Spawn, ManagerTypeOK
    <2>3. RuntimeInv'
      BY <1>4, <2>1 DEF Spawn, ManagerTypeOK, RuntimeInv, ReadyHasRuntime, Starting
    <2>4. QED
      BY <1>4, <2>2, <2>3, CallsFrame DEF Spawn
  <1>5. CASE SpawnThrows
    <2>1. current = 0 /\ Starting = {}
      BY <1>5 DEF SpawnThrows, RuntimeInv, ReadyHasRuntime, Starting
    <2>2. op' = Failing(Waiters, "contract") /\ current' = 0
      BY <1>5, <2>1 DEF SpawnThrows
    <2>3. op' \in [Ops -> CallRecord] /\ CallsInv'
      BY <2>1, <2>2, WaitersFail DEF Origins
    <2>4. QED
      BY <1>5, <2>1, <2>3 DEF SpawnThrows, ManagerTypeOK, RuntimeInv, ReadyHasRuntime, Starting
  <1>6. QED
    BY <1>1, <1>2, <1>3, <1>4, <1>5

\* The end of a start keeps the invariant.
LEMMA StartStep ==
  ASSUME ManagerInv, StartSettles
  PROVE  ManagerInv'
  <1> USE DEF ManagerInv
  <1>1. startPromise = "spawned" /\ startPromise' = "none" /\ current = 0 /\ descriptor /\ mstate # "ready"
    BY DEF StartSettles, Started, StartFails, RuntimeInv, ReadyHasRuntime
  <1>2. op \in [Ops -> CallRecord] /\ spawned \in Nat /\ epoch \in Nat /\ epoch < spawned
        /\ open \subseteq {0, spawned} /\ 0 \notin open
    BY <1>1 DEF ManagerTypeOK, RuntimeInv, Starting
  <1>3. ASSUME NEW why \in Origins, StartFails(why) PROVE ManagerInv'
    <2>1. op' \in [Ops -> CallRecord] /\ CallsInv'
      BY <1>1, <1>3, WaitersFail DEF StartFails
    <2>2. open' = {}
      BY <1>2, <1>3 DEF StartFails
    <2>3. QED
      BY <1>1, <1>2, <1>3, <2>1, <2>2 DEF StartFails, ManagerTypeOK, RuntimeInv, ReadyHasRuntime, Starting
  <1>4. CASE Started /\ mstate = "stopped"
    <2>1. /\ op' = Failing(Waiters, "contract") /\ open' = {}
          /\ UNCHANGED <<mstate, current, epoch, descriptor, discovery, spawned>>
      BY <1>2, <1>4 DEF Started
    <2>2. op' \in [Ops -> CallRecord] /\ CallsInv'
      BY <1>1, <2>1, WaitersFail DEF Origins
    <2>3. QED
      BY <1>1, <1>2, <2>1, <2>2 DEF ManagerTypeOK, RuntimeInv, ReadyHasRuntime, Starting
  <1>5. CASE Started /\ mstate # "stopped"
    <2>1. /\ op' \in [Ops -> CallRecord]
          /\ \A o \in Ops : /\ op'[o].attempt = op[o].attempt /\ op'[o].sent = op[o].sent
                            /\ o \in Waiters => op'[o].at = "granted" /\ op'[o].on = spawned
                            /\ o \notin Waiters => op'[o] = op[o]
      BY <1>2, <1>5, GrantedCalls
    <2>2. /\ current' = spawned /\ epoch' = epoch + 1 /\ mstate' = "ready" /\ open' = open
          /\ UNCHANGED <<descriptor, discovery, spawned>> /\ spawned \in open
      BY <1>5 DEF Started
    <2>3. spawned # 0
      BY <1>2, <2>2
    <2>4. ManagerTypeOK'
      BY <1>1, <1>2, <2>1, <2>2 DEF ManagerTypeOK
    <2>5. RuntimeInv'
      BY <1>1, <1>2, <2>2, <2>3 DEF RuntimeInv, ReadyHasRuntime, Starting
    <2>6. ASSUME NEW o \in Ops PROVE PlaceInv(op[o])' /\ SentInv(o, op[o])'
      <3>1. CASE o \in Waiters
        <4>1. op'[o].at = "granted" /\ op'[o].on = current' /\ op[o].at = "waiting"
          BY <2>1, <2>2, <3>1 DEF Waiters
        <4>2. QED
          BY <2>1, <4>1 DEF CallsInv, PlaceInv, SentInv
      <3>2. CASE o \notin Waiters
        <4>1. op'[o] = op[o] /\ op[o].at \notin {"waiting", "granted", "failed", "running"}
          BY <1>1, <1>5, <2>1, <3>2 DEF Waiters, Started, Drained, CallsInv, PlaceInv
        <4>2. QED
          BY <4>1 DEF CallsInv, PlaceInv, SentInv
      <3>3. QED
        BY <3>1, <3>2
    <2>7. QED
      BY <2>4, <2>5, <2>6 DEF CallsInv
  <1>6. QED
    BY <1>3, <1>4, <1>5 DEF StartSettles

\* The death of the current process keeps what is known of the calls, and so do answers.
LEMMA RequestStep ==
  ASSUME ManagerInv, RequestSettles
  PROVE  ManagerInv'
  <1> USE DEF ManagerInv
  <1>t. op \in [Ops -> CallRecord] /\ open \subseteq 1..spawned
    BY DEF ManagerTypeOK
  <1>1. ASSUME NEW why \in Origins, Dies(why) PROVE ManagerInv'
    <2>1. /\ op' = Failing(Running, why) /\ open' = open \ {current}
          /\ UNCHANGED <<mstate, descriptor, discovery, startPromise, current, epoch, spawned>>
      BY <1>1 DEF Dies
    <2>2. op' \in [Ops -> CallRecord]
      BY <1>t, <2>1, FailingCalls
    <2>3. ASSUME NEW o \in Ops PROVE PlaceInv(op[o])' /\ SentInv(o, op[o])'
      <3>1. CASE o \in Running
        <4>1. Keeps(op[o], op'[o]) /\ op'[o].at = "failed"
          BY <1>t, <2>1, <3>1, FailingCalls
        <4>2. op[o] \in CallRecord /\ op'[o] \in CallRecord /\ SentInv(o, op[o])
          BY <1>t, <2>2 DEF CallsInv
        <4>3. current' = op[o].on
          BY <2>1, <3>1 DEF Running, CallsInv, PlaceInv
        <4>4. QED
          BY <4>1, <4>2, <4>3, FailedCall
      <3>2. CASE o \notin Running
        <4>1. op'[o] = op[o]
          BY <1>t, <2>1, <3>2, FailingCalls
        <4>2. QED
          BY <2>1, <3>2, <4>1 DEF Running, CallsInv, PlaceInv, SentInv
      <3>3. QED
        BY <3>1, <3>2
    <2>4. ManagerTypeOK' /\ RuntimeInv'
      BY <2>1, <2>2 DEF ManagerTypeOK, RuntimeInv, ReadyHasRuntime, Starting
    <2>5. QED
      BY <2>3, <2>4 DEF CallsInv
  <1>2. ASSUME NEW S \in SUBSET Ops, NEW failed \in SUBSET S, NEW broken \in SUBSET failed,
               Answers(S, failed, broken)
        PROVE  ManagerInv'
    <2>1. /\ op' \in [Ops -> CallRecord]
          /\ \A o \in Ops : /\ Keeps(op[o], op'[o])
                            /\ o \in S => op'[o].at \in {"failed", "done"}
                            /\ o \notin S => op'[o] = op[o]
      BY <1>t, <1>2, AnsweredCalls
    <2>2. /\ UNCHANGED <<mstate, descriptor, discovery, startPromise, current, epoch, spawned, open>>
          /\ S \subseteq Running
      BY <1>2 DEF Answers
    <2>3. ASSUME NEW o \in Ops PROVE PlaceInv(op[o])' /\ SentInv(o, op[o])'
      <3>1. CASE o \in S
        <4>1. op[o] \in CallRecord /\ op'[o] \in CallRecord /\ SentInv(o, op[o])
          BY <1>t, <2>1 DEF CallsInv
        <4>2. current' = op[o].on
          BY <2>2, <3>1 DEF Running, CallsInv, PlaceInv
        <4>3. QED
          BY <2>1, <3>1, <4>1, <4>2, FailedCall
      <3>2. CASE o \notin S
        <4>1. op'[o] = op[o]
          BY <2>1, <3>2
        <4>2. QED
          BY <2>2, <4>1 DEF CallsInv, PlaceInv, SentInv
      <3>3. QED
        BY <3>1, <3>2
    <2>4. ManagerTypeOK' /\ RuntimeInv'
      BY <2>1, <2>2 DEF ManagerTypeOK, RuntimeInv, ReadyHasRuntime, Starting
    <2>5. QED
      BY <2>3, <2>4 DEF CallsInv
  <1>3. QED
    BY <1>1, <1>2 DEF RequestSettles, Origins

\* close() rejects every call that runs, for it runs on the current process and its client
\* is open; every other call is as it was.
LEMMA ClosedCalls ==
  ASSUME ManagerInv
  PROVE  /\ Closed \in [Ops -> CallRecord]
         /\ \A x \in Ops :
              /\ op[x].at = "running" => Closed[x].at = "failed" /\ Keeps(op[x], Closed[x])
              /\ op[x].at # "running" => Closed[x] = op[x]
              /\ Closed[x].at = "running" => FALSE
              /\ SentInv(x, Closed[x])
  <1>1. op \in [Ops -> CallRecord] /\ "transport" \in Origins
    BY DEF ManagerInv, ManagerTypeOK, Origins
  <1>0. Closed = Failing(Running, "transport")
    <2>1. {o \in Running : op[o].on = current /\ current \in open} = Running
      BY DEF ManagerInv, CallsInv, PlaceInv, Running
    <2>2. QED
      BY <2>1 DEF Closed
  <1>2. Closed \in [Ops -> CallRecord]
    BY <1>0, <1>1, FailingCalls
  <1>3. ASSUME NEW x \in Ops
        PROVE  /\ op[x].at = "running" => Closed[x].at = "failed" /\ Keeps(op[x], Closed[x])
               /\ op[x].at # "running" => Closed[x] = op[x]
    BY <1>0, <1>1, FailingCalls DEF Running
  <1>4. ASSUME NEW x \in Ops PROVE SentInv(x, Closed[x])
    <2>1. SentInv(x, op[x])
      BY DEF ManagerInv, CallsInv
    <2>2. CASE op[x].at = "running"
      BY <1>3, <2>1, <2>2 DEF SentInv, Keeps
    <2>3. CASE op[x].at # "running"
      BY <1>3, <2>1, <2>3
    <2>4. QED
      BY <2>2, <2>3
  <1>5. QED
    BY <1>2, <1>3, <1>4

\* With no current process, and no call running, every call is where it may be.
LEMMA PlacedWithout ==
  ASSUME ManagerInv, NEW x \in Ops, current' = 0, op'[x] = Closed[x],
         startPromise # "none" => startPromise' # "none"
  PROVE  PlaceInv(op[x])'
  <1>1. CASE op[x].at = "running"
    BY <1>1, ClosedCalls DEF PlaceInv
  <1>2. CASE op[x].at # "running"
    <2>1. op'[x] = op[x] /\ PlaceInv(op[x])
      BY <1>2, ClosedCalls DEF ManagerInv, CallsInv
    <2>2. QED
      BY <1>2, <2>1 DEF PlaceInv
  <1>3. QED
    BY <1>1, <1>2

\* stop() keeps the invariant.
LEMMA StopStep ==
  ASSUME ManagerInv, Stop
  PROVE  ManagerInv'
  <1> USE DEF ManagerInv
  <1>1. /\ mstate' = "stopped" /\ current' = 0 /\ open' = open \ {current} /\ op' = Closed
        /\ UNCHANGED <<descriptor, discovery, startPromise, epoch, spawned>>
    BY DEF Stop
  <1>2. ManagerTypeOK'
    BY <1>1, ClosedCalls DEF ManagerTypeOK
  <1>3. RuntimeInv'
    BY <1>1 DEF RuntimeInv, ReadyHasRuntime, Starting
  <1>4. ASSUME NEW x \in Ops PROVE PlaceInv(op[x])' /\ SentInv(x, op[x])'
    BY <1>1, ClosedCalls, PlacedWithout
  <1>5. QED
    BY <1>2, <1>3, <1>4 DEF CallsInv

\* The continuations of a call keep the invariant.
LEMMA ContinueStep ==
  ASSUME ManagerInv, NumberInv, NEW o \in Ops, Continue(o)
  PROVE  ManagerInv'
  <1> USE DEF ManagerInv
  <1>t. op \in [Ops -> CallRecord] /\ op[o] \in CallRecord /\ current \in Nat
    BY DEF ManagerTypeOK
  <1>c. PlaceInv(op[o]) /\ SentInv(o, op[o])
    BY DEF CallsInv
  <1>1. ASSUME NEW why \in Origins, op[o].at = "granted", op' = Failing({o}, why),
               UNCHANGED <<mstate, descriptor, discovery, startPromise, current, epoch, spawned, open>>
        PROVE  ManagerInv'
    <2>1. /\ op' \in [Ops -> CallRecord] /\ Keeps(op[o], op'[o]) /\ op'[o].at = "failed"
          /\ \A x \in Ops \ {o} : op'[x] = op[x]
      BY <1>t, <1>1, FailingCalls
    <2>2. PlaceInv(op[o])' /\ SentInv(o, op[o])'
      <3>1. current' \in {0, op[o].on}
        BY <1>c, <1>1 DEF PlaceInv
      <3>2. QED
        BY <1>t, <1>c, <2>1, <3>1, FailedCall
    <2>3. \A x \in Ops \ {o} : PlaceInv(op[x])' /\ SentInv(x, op[x])'
      BY <1>1, <2>1 DEF CallsInv, PlaceInv, SentInv
    <2>4. ManagerTypeOK' /\ RuntimeInv'
      BY <1>1, <2>1 DEF ManagerTypeOK, RuntimeInv, ReadyHasRuntime, Starting
    <2>5. QED
      BY <2>2, <2>3, <2>4 DEF CallsInv
  <1>2. ASSUME op[o].at = "granted", op[o].on \in open,
               op' = [op EXCEPT ![o].at = "running", ![o].sent = @ + 1],
               UNCHANGED <<mstate, descriptor, discovery, startPromise, current, epoch, spawned, open>>
        PROVE  ManagerInv'
    <2>1. op' = [op EXCEPT ![o] = [op[o] EXCEPT !.at = "running", !.sent = op[o].sent + 1]]
      BY <1>2
    <2>2. /\ op'[o] \in CallRecord /\ op'[o].at = "running" /\ op'[o].on = op[o].on
          /\ op'[o].sent = op[o].sent + 1 /\ op'[o].attempt = op[o].attempt
          /\ \A x \in Ops \ {o} : op'[x] = op[x]
      <3>1. op[o].sent + 1 \in Nat
        BY <1>t DEF CallRecord
      <3>2. [op[o] EXCEPT !.at = "running", !.sent = op[o].sent + 1] \in CallRecord
        BY <1>t, <3>1 DEF CallRecord
      <3>3. QED
        BY <1>t, <2>1, <3>2 DEF CallRecord
    <2>3. op[o].on = current /\ current # 0
      <3>1. op[o].on \in {current} \cup Starting /\ op[o].on # 0 /\ op[o].on \notin Starting
        BY <1>2 DEF ManagerTypeOK, RuntimeInv, NumberInv, Starting
      <3>2. QED
        BY <3>1
    <2>4. PlaceInv(op[o])'
      BY <1>2, <2>2, <2>3 DEF PlaceInv
    <2>5. SentInv(o, op[o])'
      <3>1. op[o].sent \in Nat /\ op[o].attempt \in 1..2 /\ op[o].sent < op[o].attempt
        BY <1>t, <1>c, <1>2 DEF CallRecord, SentInv
      <3>2. o \notin Safe => op[o].attempt = 1
        BY <1>c DEF SentInv
      <3>3. QED
        BY <2>2, <3>1, <3>2 DEF SentInv
    <2>6. \A x \in Ops \ {o} : PlaceInv(op[x])' /\ SentInv(x, op[x])'
      BY <1>2, <2>2 DEF CallsInv, PlaceInv, SentInv
    <2>7. ManagerTypeOK' /\ RuntimeInv'
      BY <1>t, <1>2, <2>1, <2>2 DEF ManagerTypeOK, RuntimeInv, ReadyHasRuntime, Starting
    <2>8. QED
      BY <2>4, <2>5, <2>6, <2>7 DEF CallsInv
  <1>3. CASE Invoke(o)
    BY <1>1, <1>2, <1>3 DEF Invoke, Origins
  <1>4. CASE Rethrow(o)
    <2>1. op' = [op EXCEPT ![o] = [op[o] EXCEPT !.at = "error"]]
      BY <1>4 DEF Rethrow
    <2>2. /\ op'[o] \in CallRecord /\ Keeps(op[o], op'[o]) /\ op'[o].at = "error"
          /\ \A x \in Ops \ {o} : op'[x] = op[x]
      BY <1>t, <2>1 DEF CallRecord, Keeps
    <2>3. PlaceInv(op[o])' /\ SentInv(o, op[o])'
      BY <1>t, <1>c, <2>2, FailedCall
    <2>4. \A x \in Ops \ {o} : PlaceInv(op[x])' /\ SentInv(x, op[x])'
      BY <1>4, <2>2 DEF Rethrow, CallsInv, PlaceInv, SentInv
    <2>5. ManagerTypeOK' /\ RuntimeInv'
      BY <1>t, <1>4, <2>1, <2>2 DEF Rethrow, ManagerTypeOK, RuntimeInv, ReadyHasRuntime, Starting
    <2>6. QED
      BY <2>3, <2>4, <2>5 DEF CallsInv
  <1>5. CASE GiveUp(o)
    <2>1. /\ current' = 0 /\ open' = open \ {current}
          /\ mstate' = IF mstate = "stopped" THEN mstate ELSE "degraded"
          /\ UNCHANGED <<descriptor, discovery, startPromise, epoch, spawned>>
          /\ op[o].at = "failed"
      BY <1>5 DEF GiveUp, Degrade
    <2>2. /\ Closed \in [Ops -> CallRecord] /\ Closed[o] = op[o]
          /\ op' = [Closed EXCEPT ![o] = [Closed[o] EXCEPT !.at = "error"]]
      BY <1>5, <2>1, ClosedCalls DEF GiveUp
    <2>3. /\ op'[o] \in CallRecord /\ Keeps(op[o], op'[o]) /\ op'[o].at = "error"
          /\ \A x \in Ops \ {o} : op'[x] = Closed[x]
      BY <1>t, <2>2 DEF CallRecord, Keeps
    <2>4. PlaceInv(op[o])' /\ SentInv(o, op[o])'
      BY <1>t, <1>c, <2>3, FailedCall
    <2>5. \A x \in Ops \ {o} : PlaceInv(op[x])' /\ SentInv(x, op[x])'
      BY <2>1, <2>3, ClosedCalls, PlacedWithout
    <2>6. ManagerTypeOK'
      BY <2>1, <2>2, <2>3 DEF ManagerTypeOK
    <2>7. RuntimeInv'
      BY <2>1 DEF RuntimeInv, ReadyHasRuntime, Starting
    <2>8. QED
      BY <2>4, <2>5, <2>6, <2>7 DEF CallsInv
  <1>6. CASE Restart(o)
    <2>1. /\ current' = 0 /\ open' = open \ {current} /\ mstate' = "degraded"
          /\ UNCHANGED <<descriptor, epoch, spawned>>
          /\ op[o].at = "failed" /\ op[o].attempt = 1 /\ o \in Safe /\ Join(Closed, o, 2)
      BY <1>6 DEF Restart, Degrade, Restarts
    <2>2. Closed \in [Ops -> CallRecord] /\ Closed[o] = op[o]
      BY <2>1, ClosedCalls
    <2>3. /\ op' \in [Ops -> CallRecord] /\ op'[o].at = "waiting" /\ op'[o].attempt = 2
          /\ op'[o].sent = op[o].sent /\ \A x \in Ops \ {o} : op'[x] = Closed[x]
      BY <2>1, <2>2, JoinedCalls
    <2>4. /\ startPromise' = IF startPromise = "none" THEN "begun" ELSE startPromise
          /\ discovery' = (discovery \/ (startPromise = "none" /\ ~descriptor))
      BY <2>1 DEF Join
    <2>5. PlaceInv(op[o])' /\ SentInv(o, op[o])'
      <3>1. op[o].sent \in Nat /\ op[o].sent <= 1
        BY <1>t, <1>c, <2>1 DEF CallRecord, SentInv
      <3>2. QED
        BY <2>1, <2>3, <2>4, <3>1 DEF PlaceInv, SentInv
    <2>6. ASSUME NEW x \in Ops \ {o} PROVE PlaceInv(op[x])' /\ SentInv(x, op[x])'
      <3>1. op'[x] = Closed[x] /\ (startPromise # "none" => startPromise' # "none")
        BY <2>3, <2>4
      <3>2. PlaceInv(op[x])'
        BY <2>1, <3>1, PlacedWithout
      <3>3. QED
        BY <3>1, <3>2, ClosedCalls
    <2>7. ManagerTypeOK'
      <3>1. /\ descriptor \in BOOLEAN /\ spawned \in Nat /\ epoch \in 0..spawned
            /\ open \subseteq 1..spawned /\ startPromise \in {"none", "begun", "spawned"}
            /\ discovery \in BOOLEAN
        BY DEF ManagerTypeOK
      <3>2. discovery' \in BOOLEAN
        <4>1. discovery' = (discovery \/ (startPromise = "none" /\ ~descriptor))
          BY <2>4
        <4>2. QED
          BY <4>1
      <3>3. startPromise' \in {"none", "begun", "spawned"}
        BY <2>4, <3>1
      <3>4. current' \in 0..spawned' /\ epoch' \in 0..spawned' /\ open' \subseteq 1..spawned'
        <4>1. current' = 0 /\ open' = open \ {current} /\ epoch' = epoch /\ spawned' = spawned
          BY <2>1
        <4>2. open' \subseteq 1..spawned
          BY <3>1, <4>1
        <4>3. QED
          BY <3>1, <4>1, <4>2
      <3>5. QED
        BY <2>1, <2>3, <3>1, <3>2, <3>3, <3>4 DEF ManagerTypeOK
    <2>8. RuntimeInv'
      BY <2>1, <2>4 DEF RuntimeInv, ReadyHasRuntime, Starting
    <2>9. QED
      BY <2>5, <2>6, <2>7, <2>8 DEF CallsInv
  <1>7. QED
    BY <1>3, <1>4, <1>5, <1>6 DEF Continue

\* A step that keeps the process of each call, or gives it the current one, and starts
\* nothing keeps the numbers of the processes in order.
LEMMA NumberFrame ==
  ASSUME ManagerInv, NumberInv, spawned' = spawned,
         startPromise' = "spawned" => startPromise = "spawned",
         \A o \in Ops : op'[o].on \in {op[o].on, current}
  PROVE  NumberInv'
  BY DEF NumberInv, ManagerInv, ManagerTypeOK, RuntimeInv, ReadyHasRuntime

\* Every step keeps the numbers of the processes in order.
LEMMA NumberStep ==
  ASSUME ManagerInv, NumberInv, [ManagerNext]_managerVars
  PROVE  NumberInv'
  <1>t. op \in [Ops -> CallRecord] /\ spawned \in Nat
    BY DEF ManagerInv, ManagerTypeOK
  <1>f. ASSUME NEW S, NEW why \in Origins, op' = Failing(S, why), spawned' = spawned,
               startPromise' \in {startPromise, "none"}
        PROVE  NumberInv'
    <2>1. \A o \in Ops : op'[o].on = op[o].on
      BY <1>t, <1>f, FailingCalls DEF Keeps
    <2>2. QED
      BY <1>f, <2>1, NumberFrame
  <1>g. "contract" \in Origins /\ "transport" \in Origins
    BY DEF Origins
  <1>1. CASE Discover \/ Discovered \/ UNCHANGED managerVars
    BY <1>1, NumberFrame DEF Discover, Discovered, managerVars
  <1>2. CASE DiscoveryFails \/ SpawnThrows
    BY <1>f, <1>g, <1>2 DEF DiscoveryFails, SpawnThrows
  <1>3. CASE Spawn
    <2>1. op' = op /\ spawned' = spawned + 1
      BY <1>3 DEF Spawn
    <2>2. \A o \in Ops : op[o].on \in Nat /\ op[o].on <= spawned
      BY <1>t DEF CallRecord, NumberInv
    <2>3. QED
      BY <1>t, <2>1, <2>2 DEF NumberInv
  <1>4. CASE Started /\ mstate = "stopped"
    BY <1>f, <1>g, <1>4 DEF Started
  <1>5. CASE Started /\ mstate # "stopped"
    <2>1. \A o \in Ops : op'[o].on \in {op[o].on, spawned}
      BY <1>t, <1>5, GrantedCalls
    <2>2. startPromise' = "none" /\ spawned' = spawned
      BY <1>5 DEF Started
    <2>3. QED
      BY <1>t, <2>1, <2>2 DEF NumberInv
  <1>6. ASSUME NEW why \in Origins, StartFails(why) PROVE NumberInv'
    BY <1>f, <1>6 DEF StartFails
  <1>7. ASSUME NEW why \in Origins, Dies(why) PROVE NumberInv'
    BY <1>f, <1>7 DEF Dies
  <1>8. ASSUME NEW S \in SUBSET Ops, NEW failed \in SUBSET S, NEW broken \in SUBSET failed,
               Answers(S, failed, broken)
        PROVE  NumberInv'
    <2>1. \A o \in Ops : op'[o].on = op[o].on
      BY <1>t, <1>8, AnsweredCalls DEF Keeps
    <2>2. QED
      BY <1>8, <2>1, NumberFrame DEF Answers
  <1>9. CASE Stop
    BY <1>f, <1>g, <1>9 DEF Stop, Closed
  <1>10. ASSUME NEW o \in Ops, Call(o) \/ Rethrow(o) \/ Invoke(o) PROVE NumberInv'
    <2>1. ASSUME spawned' = spawned, startPromise' = startPromise,
                 \/ op' = [op EXCEPT ![o].at = "error"]
                 \/ op' = [op EXCEPT ![o].at = "granted", ![o].on = current]
                 \/ op' = [op EXCEPT ![o].at = "running", ![o].sent = @ + 1]
          PROVE  NumberInv'
      <3>1. ASSUME NEW x \in Ops PROVE op'[x].on \in {op[x].on, current}
        <4>1. op[x] \in CallRecord
          BY <1>t
        <4>2. QED
          BY <1>t, <2>1, <4>1 DEF CallRecord
      <3>2. QED
        BY <2>1, <3>1, NumberFrame
    <2>2. ASSUME Join(op, o, 1), spawned' = spawned PROVE NumberInv'
      <3>1. \A x \in Ops : op'[x].on = op[x].on
        BY <1>t, <2>2, JoinedCalls
      <3>2. startPromise' = "spawned" => startPromise = "spawned"
        BY <2>2 DEF Join
      <3>3. QED
        BY <2>2, <3>1, <3>2, NumberFrame
    <2>3. CASE Call(o)
      BY <2>1, <2>2, <2>3 DEF Call
    <2>4. CASE Rethrow(o)
      BY <2>1, <2>4 DEF Rethrow
    <2>5. CASE Invoke(o)
      BY <1>f, <1>g, <2>1, <2>5 DEF Invoke
    <2>6. QED
      BY <1>10, <2>3, <2>4, <2>5
  <1>11. ASSUME NEW o \in Ops, GiveUp(o) \/ Restart(o) PROVE NumberInv'
    <2>1. \A x \in Ops : Closed[x].on = op[x].on /\ Closed[x] \in CallRecord
      BY ClosedCalls DEF Keeps
    <2>2. Closed \in [Ops -> CallRecord]
      BY ClosedCalls
    <2>3. CASE GiveUp(o)
      <3>1. op' = [Closed EXCEPT ![o].at = "error"] /\ UNCHANGED <<spawned, startPromise>>
        BY <2>3 DEF GiveUp
      <3>2. \A x \in Ops : op'[x].on = op[x].on
        BY <2>1, <2>2, <3>1 DEF CallRecord
      <3>3. QED
        BY <3>1, <3>2, NumberFrame
    <2>4. CASE Restart(o)
      <3>1. Join(Closed, o, 2) /\ spawned' = spawned
        BY <2>4 DEF Restart
      <3>2. \A x \in Ops : op'[x].on = op[x].on
        BY <2>1, <2>2, <3>1, JoinedCalls
      <3>3. startPromise' = "spawned" => startPromise = "spawned"
        BY <3>1 DEF Join
      <3>4. QED
        BY <3>1, <3>2, <3>3, NumberFrame
    <2>5. QED
      BY <1>11, <2>3, <2>4
  <1>12. QED
    BY <1>1, <1>2, <1>3, <1>4, <1>5, <1>6, <1>7, <1>8, <1>9, <1>10, <1>11
       DEF ManagerNext, StartSettles, RequestSettles, Continue, Origins

\* A new manager satisfies the invariant.
LEMMA ManagerInvInit == ManagerInit => ManagerInv /\ NumberInv
  <1> SUFFICES ASSUME ManagerInit PROVE ManagerInv /\ NumberInv
    OBVIOUS
  <1>1. NewCall \in CallRecord
    BY DEF NewCall, CallRecord, Origins
  <1>2. op = [o \in Ops |-> NewCall] /\ current = 0 /\ spawned = 0 /\ startPromise = "none"
    BY DEF ManagerInit
  <1>3. ManagerTypeOK
    <2>1. op \in [Ops -> CallRecord]
      BY <1>1, <1>2
    <2>2. spawned \in Nat /\ current \in 0..spawned /\ epoch \in 0..spawned /\ open \subseteq 1..spawned
      BY <1>2 DEF ManagerInit
    <2>3. QED
      BY <2>1, <2>2 DEF ManagerInit, ManagerTypeOK
  <1>4. RuntimeInv
    BY DEF ManagerInit, RuntimeInv, ReadyHasRuntime, Starting
  <1>5. CallsInv /\ NumberInv
    BY <1>2 DEF CallsInv, PlaceInv, SentInv, NumberInv, NewCall
  <1>6. QED
    BY <1>3, <1>4, <1>5 DEF ManagerInv

\* Every step keeps the invariant.
LEMMA ManagerInvStep ==
  ManagerInv /\ NumberInv /\ [ManagerNext]_managerVars => ManagerInv' /\ NumberInv'
  <1> SUFFICES ASSUME ManagerInv, NumberInv, [ManagerNext]_managerVars
               PROVE  ManagerInv' /\ NumberInv'
    OBVIOUS
  <1>1. NumberInv'
    BY NumberStep
  <1>2. CASE UNCHANGED managerVars
    <2>1. ManagerTypeOK' /\ RuntimeInv'
      BY <1>2 DEF managerVars, ManagerInv, ManagerTypeOK, RuntimeInv, ReadyHasRuntime, Starting
    <2>2. CallsInv'
      BY <1>2, CallsFrame DEF managerVars, ManagerInv
    <2>3. QED
      BY <1>1, <2>1, <2>2 DEF ManagerInv
  <1>3. CASE ManagerNext
    <2>1. ASSUME NEW o \in Ops, Call(o) \/ Continue(o) PROVE ManagerInv'
      BY <2>1, CallStep, ContinueStep
    <2>2. CASE StartSettles
      BY <1>1, <2>2, StartStep
    <2>3. CASE RequestSettles
      BY <1>1, <2>3, RequestStep
    <2>4. QED
      BY <1>1, <1>3, <2>1, <2>2, <2>3, DiscoveryStep, StopStep DEF ManagerNext
  <1>4. QED
    BY <1>1, <1>2, <1>3

----------------------------------------------------------------------------
(* The theorems.                                                           *)

\* The manager is well typed in every state.
THEOREM ManagerTypeCorrect == ManagerSpec => []ManagerTypeOK
  <1>1. ManagerInv => ManagerTypeOK
    BY DEF ManagerInv
  <1>2. QED
    BY <1>1, ManagerInvInit, ManagerInvStep, PTL DEF ManagerSpec

\* However many calls race with failures, retries and stop(), there is one child process at
\* most and the manager knows it.
THEOREM OneChild == ManagerSpec => [](SingleRuntime /\ ReadyHasRuntime)
  <1>1. ManagerInv => SingleRuntime /\ ReadyHasRuntime
    <2> SUFFICES ASSUME ManagerInv PROVE SingleRuntime /\ ReadyHasRuntime
      OBVIOUS
    <2>1. ReadyHasRuntime /\ open \subseteq {current} \cup Starting /\ 0 \notin open
      BY DEF ManagerInv, RuntimeInv, ManagerTypeOK
    <2>2. \E p : open \subseteq {p}
      BY <2>1 DEF ReadyHasRuntime, Starting
    <2>3. PICK p : open \subseteq {p}
      BY <2>2
    <2>4. Cardinality(open) <= 1
      <3>1. IsFiniteSet({p}) /\ Cardinality({p}) = 1
        BY FS_Singleton
      <3>2. Cardinality(open) <= Cardinality({p}) /\ IsFiniteSet(open)
        BY <2>3, <3>1, FS_Subset
      <3>3. QED
        BY <3>1, <3>2, FS_CardinalityType
    <2>5. QED
      BY <2>1, <2>4 DEF SingleRuntime, Starting
  <1>2. QED
    BY <1>1, ManagerInvInit, ManagerInvStep, PTL DEF ManagerSpec

\* A materialization reaches at most one process once, and a read at most two.
THEOREM NothingReplayed == ManagerSpec => []NoReplay
  <1>1. ManagerInv => NoReplay
    BY DEF ManagerInv, CallsInv, SentInv, NoReplay
  <1>2. QED
    BY <1>1, ManagerInvInit, ManagerInvStep, PTL DEF ManagerSpec

\* stop() is terminal, whatever was under way.
THEOREM StopHolds == ManagerSpec => StopIsFinal
  <1>1. ManagerInv /\ [ManagerNext]_managerVars
          => (mstate = "stopped" => mstate' = "stopped" /\ current' = 0 /\ open' \subseteq open)
    <2> SUFFICES ASSUME ManagerInv, [ManagerNext]_managerVars, mstate = "stopped"
                 PROVE  mstate' = "stopped" /\ current' = 0 /\ open' \subseteq open
      OBVIOUS
    <2>1. current = 0
      BY DEF ManagerInv, RuntimeInv, ReadyHasRuntime
    <2>2. CASE UNCHANGED managerVars
      BY <2>1, <2>2 DEF managerVars
    <2>3. CASE Discover \/ Discovered \/ DiscoveryFails \/ Spawn \/ SpawnThrows \/ Stop
      BY <2>1, <2>3 DEF Discover, Discovered, DiscoveryFails, Spawn, SpawnThrows, Stop
    <2>4. CASE StartSettles \/ RequestSettles
      BY <2>1, <2>4 DEF StartSettles, RequestSettles, Started, StartFails, Dies, Answers
    <2>5. ASSUME NEW o \in Ops, Call(o) \/ Continue(o)
          PROVE  mstate' = "stopped" /\ current' = 0 /\ open' \subseteq open
      BY <2>1, <2>5 DEF Call, Continue, Invoke, Rethrow, GiveUp, Restart, Degrade
    <2>6. QED
      BY <2>2, <2>3, <2>4, <2>5 DEF ManagerNext
  <1>2. QED
    BY <1>1, ManagerInvInit, ManagerInvStep, PTL DEF ManagerSpec, StopIsFinal

\* No call's failure closes a process other than the one it was given.
THEOREM HealthyStays == ManagerSpec => HealthyRuntimeStays
  <1> DEFINE Cause(p) ==
        \/ mstate' = "stopped"
        \/ \E why \in Origins : StartFails(why) \/ Dies(why)
        \/ \E o \in Ops : op[o].at = "failed" /\ op[o].on = p /\ op[o].why # "remote_domain"
  <1>1. ManagerInv /\ [ManagerNext]_managerVars => \A p \in open \ open' : Cause(p)
    <2> SUFFICES ASSUME ManagerInv, [ManagerNext]_managerVars, NEW p \in open \ open'
                 PROVE  Cause(p)
      OBVIOUS
    <2>1. p # 0
      BY DEF ManagerInv, ManagerTypeOK
    <2>2. CASE \/ Discover \/ Discovered \/ DiscoveryFails \/ Spawn \/ SpawnThrows
               \/ UNCHANGED managerVars
      BY <2>2 DEF Discover, Discovered, DiscoveryFails, Spawn, SpawnThrows, managerVars
    <2>3. CASE StartSettles \/ RequestSettles \/ Stop
      BY <2>3 DEF StartSettles, RequestSettles, Started, Answers, Stop, Origins
    <2>4. ASSUME NEW o \in Ops, GiveUp(o) \/ Restart(o) PROVE Cause(p)
      <3>1. /\ op[o].at = "failed" /\ op[o].why # "remote_domain"
            /\ open' = open \ {current}
        BY <2>4 DEF GiveUp, Restart, Restarts, Degrade
      <3>2. p = current
        BY <3>1
      <3>3. op[o].on = p
        BY <2>1, <3>1, <3>2 DEF ManagerInv, CallsInv, PlaceInv
      <3>4. QED
        BY <3>1, <3>3
    <2>5. ASSUME NEW o \in Ops, Call(o) \/ Invoke(o) \/ Rethrow(o) PROVE Cause(p)
      BY <2>5 DEF Call, Invoke, Rethrow
    <2>6. QED
      BY <2>2, <2>3, <2>4, <2>5 DEF ManagerNext, Continue
  <1>2. QED
    BY <1>1, ManagerInvInit, ManagerInvStep, PTL DEF ManagerSpec, HealthyRuntimeStays

----------------------------------------------------------------------------
(* The number of processes.                                                *)

\* A start that has begun and has no process yet will count as one.
Pending == IF startPromise = "begun" THEN 1 ELSE 0

CountInv == spawned + Pending <= Cardinality(Called) + Cardinality(Retried)

\* Any set of calls has a cardinality, and one more call makes it one larger.
LEMMA CallSets ==
  ASSUME NEW S \in SUBSET Ops
  PROVE  /\ IsFiniteSet(S) /\ Cardinality(S) \in Nat
         /\ \A o \in Ops \ S : Cardinality(S \cup {o}) = Cardinality(S) + 1
  <1>1. IsFiniteSet(S)
    BY ManagerConstants, FS_Subset
  <1>2. Cardinality(S) \in Nat
    BY <1>1, FS_CardinalityType
  <1>3. \A o \in Ops \ S : Cardinality(S \cup {o}) = Cardinality(S) + 1
    BY <1>1, FS_AddElement
  <1>4. QED
    BY <1>1, <1>2, <1>3

\* A step that calls nothing, retries nothing and begins nothing keeps the count.
LEMMA CountFrame ==
  ASSUME ManagerInv, CountInv,
         \/ spawned' = spawned /\ Pending' \in {0, Pending}
         \/ spawned' = spawned + 1 /\ Pending = 1 /\ Pending' = 0,
         \A o \in Ops : (op'[o].at = "idle" <=> op[o].at = "idle") /\ op'[o].attempt = op[o].attempt
  PROVE  CountInv'
  <1>1. Called' = Called /\ Retried' = Retried
    BY DEF Called, Retried
  <1>2. Called \in SUBSET Ops /\ Retried \in SUBSET Ops
    BY DEF Called, Retried
  <1>3. Cardinality(Called) \in Nat /\ Cardinality(Retried) \in Nat
    BY <1>2, CallSets
  <1>4. spawned \in Nat /\ Pending \in Nat
    BY DEF ManagerInv, ManagerTypeOK, Pending
  <1>5. CASE spawned' = spawned /\ Pending' \in {0, Pending}
    BY <1>1, <1>3, <1>4, <1>5 DEF CountInv
  <1>6. CASE spawned' = spawned + 1 /\ Pending = 1 /\ Pending' = 0
    BY <1>1, <1>3, <1>4, <1>6 DEF CountInv
  <1>7. QED
    BY <1>5, <1>6

\* A call or a retry raises the bound by one and begins at most one start.
LEMMA CountOne ==
  ASSUME ManagerInv, ManagerInv', CountInv, NEW o \in Ops, spawned' = spawned,
         \/ Called' = Called \cup {o} /\ o \notin Called /\ Retried' = Retried
         \/ Called' = Called /\ o \notin Retried /\ Retried' = Retried \cup {o}
  PROVE  CountInv'
  <1>1. Called \in SUBSET Ops /\ Retried \in SUBSET Ops
    BY DEF Called, Retried
  <1>2. Cardinality(Called) \in Nat /\ Cardinality(Retried) \in Nat
    BY <1>1, CallSets
  <1>3. Cardinality(Called') + Cardinality(Retried') = Cardinality(Called) + Cardinality(Retried) + 1
    <2>1. CASE Called' = Called \cup {o} /\ o \notin Called /\ Retried' = Retried
      <3>1. Cardinality(Called') = Cardinality(Called) + 1
        BY <1>1, <2>1, CallSets
      <3>2. QED
        BY <1>2, <2>1, <3>1
    <2>2. CASE Called' = Called /\ o \notin Retried /\ Retried' = Retried \cup {o}
      <3>1. Cardinality(Retried') = Cardinality(Retried) + 1
        BY <1>1, <2>2, CallSets
      <3>2. QED
        BY <1>2, <2>2, <3>1
    <2>3. QED
      BY <2>1, <2>2
  <1>4. spawned \in Nat /\ Pending \in Nat /\ Pending' \in 0..1
    BY DEF ManagerInv, ManagerTypeOK, Pending
  <1>5. spawned' + Pending' <= spawned + Pending + 1
    BY <1>4 DEF Pending
  <1>6. spawned + Pending + 1 <= Cardinality(Called) + Cardinality(Retried) + 1
    BY <1>2, <1>4 DEF CountInv
  <1>7. spawned' + Pending' <= Cardinality(Called') + Cardinality(Retried')
    BY <1>2, <1>3, <1>4, <1>5, <1>6
  <1>8. QED
    BY <1>7 DEF CountInv

\* Every step keeps the count.
LEMMA CountStep ==
  ASSUME ManagerInv, ManagerInv', CountInv, [ManagerNext]_managerVars
  PROVE  CountInv'
  <1>t. op \in [Ops -> CallRecord] /\ spawned \in Nat
    BY DEF ManagerInv, ManagerTypeOK
  <1>g. "contract" \in Origins /\ "transport" \in Origins
    BY DEF Origins
  <1>f. ASSUME NEW S \in SUBSET Ops, NEW why \in Origins, op' = Failing(S, why),
               \A o \in S : op[o].at # "idle",
               spawned' = spawned, startPromise' \in {startPromise, "none"}
        PROVE  CountInv'
    <2>1. \A o \in Ops : (op'[o].at = "idle" <=> op[o].at = "idle") /\ op'[o].attempt = op[o].attempt
      <3> SUFFICES ASSUME NEW o \in Ops
                   PROVE  (op'[o].at = "idle" <=> op[o].at = "idle") /\ op'[o].attempt = op[o].attempt
        OBVIOUS
      <3>1. CASE o \in S
        BY <1>t, <1>f, <3>1, FailingCalls DEF Keeps
      <3>2. CASE o \notin S
        BY <1>t, <1>f, <3>2, FailingCalls
      <3>3. QED
        BY <3>1, <3>2
    <2>2. spawned' = spawned /\ Pending' \in {0, Pending}
      BY <1>t, <1>f DEF Pending
    <2>3. QED
      BY <2>1, <2>2, CountFrame
  <1>w. Waiters \in SUBSET Ops /\ Running \in SUBSET Ops /\ \A o \in Waiters \cup Running : op[o].at # "idle"
    BY DEF Waiters, Running
  <1>1. CASE Discover \/ Discovered \/ UNCHANGED managerVars
    <2>1. spawned' = spawned /\ Pending' \in {0, Pending}
      BY <1>t, <1>1 DEF Discover, Discovered, managerVars, Pending
    <2>2. QED
      BY <1>1, <2>1, CountFrame DEF Discover, Discovered, managerVars
  <1>2. CASE DiscoveryFails \/ SpawnThrows
    BY <1>f, <1>g, <1>w, <1>2 DEF DiscoveryFails, SpawnThrows
  <1>3. CASE Spawn
    <2>1. spawned' = spawned + 1 /\ Pending = 1 /\ Pending' = 0
      BY <1>t, <1>3 DEF Spawn, Pending
    <2>2. QED
      BY <1>3, <2>1, CountFrame DEF Spawn
  <1>4. CASE Started /\ mstate = "stopped"
    BY <1>f, <1>g, <1>w, <1>4 DEF Started
  <1>5. CASE Started /\ mstate # "stopped"
    <2>1. \A o \in Ops : (op'[o].at = "idle" <=> op[o].at = "idle") /\ op'[o].attempt = op[o].attempt
      BY <1>t, <1>5, GrantedCalls DEF Waiters
    <2>2. spawned' = spawned /\ Pending' \in {0, Pending}
      BY <1>5 DEF Started, Pending
    <2>3. QED
      BY <2>1, <2>2, CountFrame
  <1>6. ASSUME NEW why \in Origins, StartFails(why) \/ Dies(why) PROVE CountInv'
    BY <1>f, <1>w, <1>6 DEF StartFails, Dies
  <1>7. ASSUME NEW S \in SUBSET Ops, NEW failed \in SUBSET S, NEW broken \in SUBSET failed,
               Answers(S, failed, broken)
        PROVE  CountInv'
    <2>1. S \subseteq Running /\ spawned' = spawned /\ startPromise' = startPromise
      BY <1>7 DEF Answers
    <2>2. \A o \in Ops : (op'[o].at = "idle" <=> op[o].at = "idle") /\ op'[o].attempt = op[o].attempt
      BY <1>t, <1>7, <2>1, AnsweredCalls DEF Keeps, Running
    <2>3. spawned' = spawned /\ Pending' \in {0, Pending}
      BY <1>t, <2>1 DEF Pending
    <2>4. QED
      BY <2>2, <2>3, CountFrame
  <1>8. CASE Stop
    BY <1>f, <1>g, <1>w, <1>8 DEF Stop, Closed
  <1>9. ASSUME NEW o \in Ops, Call(o) PROVE CountInv'
    <2>1. op[o].at = "idle" /\ op[o].attempt = 1 /\ spawned' = spawned
      BY <1>9 DEF Call, ManagerInv, CallsInv, SentInv
    <2>2. /\ op'[o].at # "idle" /\ op'[o].attempt = 1 /\ \A x \in Ops \ {o} : op'[x] = op[x]
      <3>1. CASE Join(op, o, 1)
        BY <1>t, <3>1, JoinedCalls
      <3>2. CASE op' = [op EXCEPT ![o].at = "error"]
        BY <1>t, <2>1, <3>2 DEF CallRecord
      <3>3. CASE op' = [op EXCEPT ![o].at = "granted", ![o].on = current]
        BY <1>t, <2>1, <3>3 DEF CallRecord
      <3>4. QED
        BY <1>9, <3>1, <3>2, <3>3 DEF Call
    <2>3. Called' = Called \cup {o} /\ o \notin Called /\ Retried' = Retried
      BY <2>1, <2>2 DEF Called, Retried
    <2>4. QED
      BY <2>1, <2>3, CountOne
  <1>10. ASSUME NEW o \in Ops, Invoke(o) \/ Rethrow(o) PROVE CountInv'
    <2>1. op[o].at # "idle" /\ spawned' = spawned /\ startPromise' = startPromise
      BY <1>10 DEF Invoke, Rethrow
    <2>2. CASE op' = Failing({o}, "contract") \/ op' = Failing({o}, "transport")
      BY <1>f, <1>g, <2>1, <2>2
    <2>3. CASE \/ op' = [op EXCEPT ![o].at = "running", ![o].sent = @ + 1]
               \/ op' = [op EXCEPT ![o].at = "error"]
      <3>1. \A x \in Ops : (op'[x].at = "idle" <=> op[x].at = "idle") /\ op'[x].attempt = op[x].attempt
        BY <1>t, <2>1, <2>3 DEF CallRecord
      <3>2. spawned' = spawned /\ Pending' \in {0, Pending}
        BY <1>t, <2>1 DEF Pending
      <3>3. QED
        BY <3>1, <3>2, CountFrame
    <2>4. QED
      BY <1>10, <2>2, <2>3 DEF Invoke, Rethrow
  <1>c. /\ Closed \in [Ops -> CallRecord]
        /\ \A x \in Ops : /\ Closed[x].at = "idle" <=> op[x].at = "idle"
                          /\ Closed[x].attempt = op[x].attempt
    BY ClosedCalls DEF Keeps
  <1>11. ASSUME NEW o \in Ops, GiveUp(o) PROVE CountInv'
    <2>1. /\ op' = [Closed EXCEPT ![o].at = "error"] /\ op[o].at = "failed"
          /\ spawned' = spawned /\ startPromise' = startPromise
      BY <1>11 DEF GiveUp
    <2>2. \A x \in Ops : (op'[x].at = "idle" <=> op[x].at = "idle") /\ op'[x].attempt = op[x].attempt
      BY <1>c, <2>1 DEF CallRecord
    <2>3. spawned' = spawned /\ Pending' \in {0, Pending}
      BY <1>t, <2>1 DEF Pending
    <2>4. QED
      BY <2>2, <2>3, CountFrame
  <1>12. ASSUME NEW o \in Ops, Restart(o) PROVE CountInv'
    <2>1. Join(Closed, o, 2) /\ op[o].at = "failed" /\ op[o].attempt = 1 /\ spawned' = spawned
      BY <1>12 DEF Restart, Restarts
    <2>2. /\ op'[o].at = "waiting" /\ op'[o].attempt = 2
          /\ \A x \in Ops \ {o} : op'[x] = Closed[x]
      BY <1>c, <2>1, JoinedCalls
    <2>3. Called' = Called /\ o \notin Retried /\ Retried' = Retried \cup {o}
      BY <1>c, <2>1, <2>2 DEF Called, Retried
    <2>4. QED
      BY <2>1, <2>3, CountOne
  <1>13. QED
    BY <1>1, <1>2, <1>3, <1>4, <1>5, <1>6, <1>7, <1>8, <1>9, <1>10, <1>11, <1>12
       DEF ManagerNext, StartSettles, RequestSettles, Continue, Origins

\* A process is created for a call or for its one retry, never beyond.
THEOREM RestartsBounded == ManagerSpec => []BoundedRestarts
  <1>1. ManagerInit => CountInv
    <2> SUFFICES ASSUME ManagerInit PROVE CountInv
      OBVIOUS
    <2>1. Called = {} /\ Retried = {} /\ spawned = 0 /\ Pending = 0
      BY DEF ManagerInit, Called, Retried, NewCall, Pending
    <2>2. QED
      BY <2>1, FS_EmptySet DEF CountInv
  <1>2. ManagerInv /\ ManagerInv' /\ CountInv /\ [ManagerNext]_managerVars => CountInv'
    BY CountStep
  <1>3. ManagerInv /\ CountInv => BoundedRestarts
    <2> SUFFICES ASSUME ManagerInv, CountInv PROVE BoundedRestarts
      OBVIOUS
    <2>1. Called \in SUBSET Ops /\ Retried \in SUBSET Ops
      BY DEF Called, Retried
    <2>2. /\ Cardinality(Called) \in Nat /\ Cardinality(Retried) \in Nat
          /\ spawned \in Nat /\ Pending \in Nat
      BY <2>1, CallSets DEF ManagerInv, ManagerTypeOK, Pending
    <2>3. QED
      BY <2>2 DEF CountInv, BoundedRestarts
  <1>4. QED
    BY <1>1, <1>2, <1>3, ManagerInvInit, ManagerInvStep, PTL DEF ManagerSpec

----------------------------------------------------------------------------
(* The portals: their budget.                                               *)

\* No portal has two entries.
Distinct(s) == \A i, j \in DOMAIN s : s[i] = s[j] => i = j

BudgetInv == active \in Seq(Portals) /\ Len(active) <= Limit /\ Distinct(active)

\* What a call knows of its portal and surface.
CallOK(r) ==
  /\ r.at \notin {"idle", "next"} => r.portal \in Portals
  /\ r.at \in {"mount", "evict", "syncEvict", "leave", "replace"} =>
       r.surface \in Portals \X Resources
  /\ r.at \in {"evict", "place", "mount", "replace"} => r.objects[r.portal] # Gone
  /\ r.at \in {"mount", "replace", "leave"} => r.surface[1] = r.portal

CallInv == \A c \in Callers : CallOK(call[c])

TypeInv == PortalTypeOK /\ Distinct(active) /\ CallInv

\* With one caller: what it awaits is the case until the host answers.
SoloCall(c) ==
  LET p == call[c].portal
      v == call[c].surface
  IN
  /\ call[c].at \in {"offscreen", "replace", "update", "leave", "sync", "syncEvict", "show"} =>
       p \in Mounted
  /\ call[c].at = "mount" => p \notin Mounted
  /\ call[c].at \in {"evict", "syncEvict", "leave", "replace"} => v = <<v[1], mounted[v[1]]>>
  /\ call[c].at \in {"evict", "syncEvict"} => v[1] # p
  /\ call[c].todo \subseteq Portals

SoloInv == SurfacesAccounted /\ \A c \in Callers : SoloCall(c)

\* With one caller, until a host rejects: which portal is on its way in or out.
BudgetCall(c) ==
  LET p == call[c].portal
      v == call[c].surface[1]
  IN
  /\ call[c].at \in {"idle", "offscreen", "next", "sync"} => Visible = ToSet(active)
  /\ call[c].at \in {"place", "mount", "replace", "update", "show"} =>
       Visible \cup {p} = ToSet(active)
  /\ call[c].at \in {"evict", "syncEvict"} => (Visible \cup {p}) \ {v} = ToSet(active)
  /\ call[c].at = "leave" => Visible \ {p} = ToSet(active)

InViewInv == Visible \subseteq Mounted /\ \A c \in Callers : BudgetCall(c)

----------------------------------------------------------------------------
(* Lemmas about the budget, LiveSurfaceBudget.                             *)

\* An entry that is taken out of the list of active portals takes nothing else with it.
LEMMA EntryRemoved ==
  ASSUME NEW S, NEW s \in Seq(S), Distinct(s), NEW i \in DOMAIN s
  PROVE  /\ RemoveAt(s, i) \in Seq(S)
         /\ Len(RemoveAt(s, i)) <= Len(s)
         /\ Distinct(RemoveAt(s, i))
         /\ ToSet(RemoveAt(s, i)) = ToSet(s) \ {s[i]}
<1> DEFINE a == SubSeq(s, 1, i - 1)
           b == SubSeq(s, i + 1, Len(s))
           t == RemoveAt(s, i)
<1>0. Len(s) \in Nat /\ DOMAIN s = 1..Len(s) /\ i \in 1..Len(s)
  BY LenProperties
<1>1. a \in Seq(S) /\ Len(a) = i - 1 /\ \A k \in 1..(i - 1) : a[k] = s[k]
  BY <1>0, SubSeqProperties, ElementOfSeq
<1>2. b \in Seq(S) /\ Len(b) = Len(s) - i /\ \A k \in 1..(Len(s) - i) : b[k] = s[k + i]
  BY <1>0, SubSeqProperties, ElementOfSeq
<1>3. /\ t \in Seq(S) /\ Len(t) = Len(s) - 1 /\ DOMAIN t = 1..(Len(s) - 1)
      /\ \A k \in 1..(Len(s) - 1) : t[k] = IF k < i THEN s[k] ELSE s[k + 1]
  <2>1. t = a \o b  BY DEF RemoveAt
  <2>2. t \in Seq(S) /\ Len(t) = Len(s) - 1
    BY <1>0, <1>1, <1>2, <2>1, ConcatProperties
  <2>3. ASSUME NEW k \in 1..(Len(s) - 1)
        PROVE  t[k] = IF k < i THEN s[k] ELSE s[k + 1]
    <3> HIDE DEF a, b, t
    <3>1. t[k] = IF k <= Len(a) THEN a[k] ELSE b[k - Len(a)]
      BY <1>0, <1>1, <1>2, <2>1, ConcatProperties
    <3>2. CASE k < i  BY <3>1, <3>2, <1>0, <1>1
    <3>3. CASE ~(k < i)
      <4>1. k - (i - 1) \in 1..(Len(s) - i)  BY <3>3, <1>0
      <4>2. b[k - (i - 1)] = s[(k - (i - 1)) + i]  BY <4>1, <1>2
      <4>3. (k - (i - 1)) + i = k + 1  BY <1>0
      <4> QED  BY <3>1, <3>3, <1>0, <1>1, <4>2, <4>3
    <3> QED  BY <3>2, <3>3
  <2> QED  BY <2>2, <2>3, LenProperties
<1> HIDE DEF a, b, t
<1>4. Distinct(t)
  <2> SUFFICES ASSUME NEW j \in DOMAIN t, NEW k \in DOMAIN t, t[j] = t[k]
               PROVE  j = k
    BY DEF Distinct
  <2> QED  BY <1>0, <1>3 DEF Distinct
<1>5. ToSet(t) = ToSet(s) \ {s[i]}
  <2>1. ASSUME NEW k \in DOMAIN t  PROVE t[k] \in ToSet(s) \ {s[i]}
    BY <1>0, <1>3 DEF Distinct, ToSet
  <2>2. ASSUME NEW k \in DOMAIN s, k # i  PROVE s[k] \in ToSet(t)
    <3>1. CASE k < i  BY <1>0, <1>3, <3>1 DEF ToSet
    <3>2. CASE k > i
      <4>1. k - 1 \in DOMAIN t /\ t[k - 1] = s[(k - 1) + 1]  BY <1>0, <1>3, <3>2
      <4>2. (k - 1) + 1 = k  BY <1>0
      <4> QED  BY <4>1, <4>2 DEF ToSet
    <3> QED  BY <2>2, <3>1, <3>2, <1>0
  <2> QED  BY <2>1, <2>2 DEF ToSet
<1> QED  BY <1>0, <1>3, <1>4, <1>5 DEF t

\* deactivate() of the budget removes the portal and nothing else.
LEMMA WithoutPortal ==
  ASSUME BudgetInv, NEW p \in Portals
  PROVE  /\ Without(p) \in Seq(Portals) /\ Len(Without(p)) <= Len(active)
         /\ Distinct(Without(p))
         /\ ToSet(Without(p)) = ToSet(active) \ {p}
<1>0. active \in Seq(Portals) /\ Distinct(active) /\ Len(active) \in Nat
      /\ DOMAIN active = 1..Len(active)
  BY LenProperties DEF BudgetInv
<1>1. CASE Contains(active, p)
  <2> DEFINE i == CHOOSE i \in DOMAIN active : active[i] = p
  <2>1. i \in DOMAIN active /\ active[i] = p  BY <1>0, <1>1 DEF Contains
  <2>2. Without(p) = RemoveAt(active, i)  BY <1>1 DEF Without
  <2> HIDE DEF i
  <2> QED  BY <1>0, <2>1, <2>2, EntryRemoved
<1>2. CASE ~Contains(active, p)
  BY <1>0, <1>2 DEF Without, Contains, ToSet
<1> QED  BY <1>1, <1>2

\* activate() of the budget keeps the limit; it evicts at most one portal, never the one
\* that is activated.
LEMMA PortalActivated ==
  ASSUME BudgetInv, NEW p \in Portals
  PROVE  /\ Activated(p) \in Seq(Portals) /\ Len(Activated(p)) <= Limit
         /\ Distinct(Activated(p))
         /\ Evicts(p) =>
              /\ Victim(p) \in ToSet(active) \ {p} /\ Victim(p) \in Portals
              /\ ToSet(Activated(p)) = (ToSet(active) \cup {p}) \ {Victim(p)}
         /\ ~Evicts(p) => ToSet(Activated(p)) = ToSet(active) \cup {p}
<1> DEFINE w == Without(p)
           t == Touched(p)
<1>0. active \in Seq(Portals) /\ Len(active) \in Nat /\ Len(active) <= Limit /\ Limit \in Nat \ {0}
  BY LenProperties, PortalConstants DEF BudgetInv
<1>1. /\ w \in Seq(Portals) /\ Len(w) <= Len(active) /\ Distinct(w)
      /\ ToSet(w) = ToSet(active) \ {p}
      /\ Len(w) \in Nat /\ DOMAIN w = 1..Len(w)
  BY WithoutPortal, LenProperties
<1>2. /\ t \in Seq(Portals) /\ t # <<>> /\ Len(t) = Len(w) + 1
      /\ DOMAIN t = 1..(Len(w) + 1)
      /\ \A i \in 1..Len(w) : t[i] = w[i]
      /\ t[Len(w) + 1] = p
  BY <1>1, AppendProperties, LenProperties DEF Touched
<1> HIDE DEF w, t
<1>3. p \notin ToSet(w)  BY <1>1
<1>4. Distinct(t)
  <2> SUFFICES ASSUME NEW j \in 1..(Len(w) + 1), NEW k \in 1..(Len(w) + 1), t[j] = t[k]
               PROVE  j = k
    BY <1>2 DEF Distinct
  <2>1. CASE j = Len(w) + 1 \/ k = Len(w) + 1
    BY <1>1, <1>2, <1>3, <2>1 DEF ToSet
  <2>2. CASE j # Len(w) + 1 /\ k # Len(w) + 1
    <3>1. j \in 1..Len(w) /\ k \in 1..Len(w)  BY <1>1, <2>2
    <3> QED  BY <1>1, <1>2, <3>1 DEF Distinct
  <2> QED  BY <2>1, <2>2
<1>5. ToSet(t) = ToSet(active) \cup {p}
  <2>1. ToSet(t) = ToSet(w) \cup {p}
    <3>1. ASSUME NEW i \in 1..(Len(w) + 1)  PROVE t[i] \in ToSet(w) \cup {p}
      BY <1>1, <1>2 DEF ToSet
    <3>2. ASSUME NEW i \in 1..Len(w)  PROVE w[i] \in ToSet(t)
      <4>1. i \in 1..(Len(w) + 1)  BY <1>1
      <4> QED  BY <1>2, <4>1 DEF ToSet
    <3>3. p \in ToSet(t)
      <4>1. Len(w) + 1 \in 1..(Len(w) + 1)  BY <1>1
      <4> QED  BY <1>2, <4>1 DEF ToSet
    <3> QED  BY <1>1, <1>2, <3>1, <3>2, <3>3 DEF ToSet
  <2> QED  BY <2>1, <1>1
<1>6. CASE ~Evicts(p)
  <2>1. Activated(p) = t /\ Len(t) <= Limit
    BY <1>0, <1>1, <1>2, <1>6 DEF Activated, Evicts, t
  <2> QED  BY <1>2, <1>4, <1>5, <1>6, <2>1
<1>7. CASE Evicts(p)
  <2>1. Activated(p) = Tail(t) /\ Victim(p) = Head(t) /\ Len(w) = Limit
    <3>1. Len(t) > Limit  BY <1>7 DEF Evicts, t
    <3>2. Activated(p) = Tail(t) /\ Victim(p) = Head(t)
      BY <1>7 DEF Activated, Victim, t
    <3>3. Len(w) = Limit
      <4> DEFINE m == Len(w)
                 n == Len(active)
      <4>1. m \in Nat /\ n \in Nat /\ m <= n /\ n <= Limit /\ Limit \in Nat /\ Len(t) = m + 1
        BY <1>0, <1>1, <1>2
      <4>2. m + 1 > Limit  BY <4>1, <3>1
      <4> HIDE DEF m, n
      <4>3. m = Limit  BY <4>1, <4>2
      <4> QED  BY <4>3 DEF m
    <3> QED  BY <3>2, <3>3
  <2>2. /\ Tail(t) \in Seq(Portals) /\ Len(Tail(t)) = Limit /\ Head(t) = t[1]
        /\ DOMAIN Tail(t) = 1..Limit
        /\ \A i \in 1..Limit : Tail(t)[i] = t[i + 1]
    BY <1>0, <1>2, <2>1, HeadTailProperties, LenProperties
  <2> DEFINE u == Tail(t)
  <2> HIDE DEF u
  <2>3. Distinct(u)
    <3> SUFFICES ASSUME NEW j \in 1..Limit, NEW k \in 1..Limit, u[j] = u[k]
                 PROVE  j = k
      BY <2>2 DEF Distinct, u
    <3>1. j + 1 \in DOMAIN t /\ k + 1 \in DOMAIN t /\ t[j + 1] = t[k + 1]
      BY <1>0, <1>2, <2>1, <2>2 DEF u
    <3>2. j + 1 = k + 1  BY <3>1, <1>4 DEF Distinct
    <3> QED  BY <3>2, <1>0
  <2>4. ToSet(u) = ToSet(t) \ {t[1]}
    <3>1. ASSUME NEW k \in 1..Limit  PROVE u[k] \in ToSet(t) \ {t[1]}
      <4>1. k + 1 \in DOMAIN t /\ 1 \in DOMAIN t /\ u[k] = t[k + 1] /\ k + 1 # 1
        BY <1>0, <1>2, <2>1, <2>2 DEF u
      <4> QED  BY <4>1, <1>4 DEF Distinct, ToSet
    <3>2. ASSUME NEW k \in DOMAIN t, k # 1  PROVE t[k] \in ToSet(u)
      <4>1. k - 1 \in 1..Limit /\ (k - 1) + 1 = k  BY <1>0, <1>2, <2>1, <3>2
      <4>2. u[k - 1] = t[(k - 1) + 1]  BY <4>1, <2>2 DEF u
      <4> QED  BY <4>1, <4>2, <2>2 DEF ToSet, u
    <3>3. DOMAIN u = 1..Limit  BY <2>2 DEF u
    <3> QED  BY <3>1, <3>2, <3>3 DEF ToSet
  <2>5. t[1] = w[1] /\ 1 \in 1..Len(w)  BY <1>0, <1>1, <1>2, <2>1
  <2>6. t[1] \in ToSet(active) \ {p} /\ t[1] \in Portals
    <3>1. w[1] \in ToSet(w)  BY <1>1, <2>5 DEF ToSet
    <3>2. w[1] \in Portals  BY <1>1, <2>5, ElementOfSeq
    <3> QED  BY <3>1, <3>2, <1>1, <2>5
  <2> QED  BY <1>0, <1>5, <1>7, <2>1, <2>2, <2>3, <2>4, <2>6 DEF u
<1> QED  BY <1>6, <1>7

----------------------------------------------------------------------------
(* Lemmas about the records of the coordinator.                            *)

\* Everything the coordinator writes into #states is a state.
LEMMA StatesTyped ==
  /\ Off \in PortalState /\ Hidden \in PortalState /\ Fresh \in PortalState
  /\ \A p \in Portals : AfterUnmount(p) \in PortalState
  /\ state \in [Portals -> PortalState] => \A p \in Portals : Shown(p) \in PortalState
BY DEF Off, Hidden, Fresh, Written, AfterUnmount, Shown, PortalState

\* A step that leaves the budget alone or applies one of its operations keeps it.
LEMMA BudgetKept ==
  ASSUME TypeInv, NEW p \in Portals, active' \in {active, Without(p), Activated(p)}
  PROVE  BudgetInv'
<1>1. BudgetInv  BY DEF TypeInv, PortalTypeOK, BudgetInv
<1>2. Len(active) \in Nat /\ Limit \in Nat  BY <1>1, LenProperties, PortalConstants DEF BudgetInv
<1>3. CASE active' = active  BY <1>1, <1>3 DEF BudgetInv, Distinct
<1>4. CASE active' = Without(p)
  <2>1. Len(Without(p)) \in Nat  BY <1>1, WithoutPortal, LenProperties
  <2> QED  BY <1>1, <1>2, <1>4, <2>1, WithoutPortal DEF BudgetInv, Distinct
<1>5. CASE active' = Activated(p)  BY <1>1, <1>5, PortalActivated DEF BudgetInv, Distinct
<1> QED  BY <1>3, <1>4, <1>5

\* A call that begins knows its portal.
LEMMA AskedTyped ==
  ASSUME NEW p \in Portals, NEW o \in Objects
  PROVE  /\ Asked(p, o) \in PortalCall
         /\ Asked(p, o).portal = p /\ Asked(p, o).objects[p] = o
BY DEF Asked, NoCall, PortalCall, Objects, Gone

\* A caller that is idle has nothing to know.
LEMMA NoCallTyped == NoCall \in PortalCall /\ CallOK(NoCall)
BY DEF NoCall, PortalCall, CallOK, Objects, Gone

\* The calls stay well typed when one of them becomes the record r.
LEMMA CallsKept ==
  ASSUME TypeInv, NEW c \in Callers, NEW r \in PortalCall, CallOK(r),
         call' = [call EXCEPT ![c] = r]
  PROVE  call' \in [Callers -> PortalCall] /\ CallInv'
BY DEF TypeInv, PortalTypeOK, CallInv, CallOK

\* What an eviction does to the budget, the states and the calls.
LEMMA EvictTyped ==
  ASSUME TypeInv, NEW c \in Callers, NEW p \in Portals, NEW r \in PortalCall,
         NEW at \in {"evict", "syncEvict"}, NEW after \in {"place", "show"},
         r.portal = p, at = "evict" \/ after = "place" => r.objects[p] # Gone,
         Evict(c, p, at, after, r)
  PROVE  /\ BudgetInv'
         /\ state' \in [Portals -> PortalState]
         /\ call' \in [Callers -> PortalCall] /\ CallInv'
<1> DEFINE v == Victim(p)
<1>0. BudgetInv /\ state \in [Portals -> PortalState] /\ mounted \in [Portals -> Resources \cup {Nothing}]
  BY DEF TypeInv, PortalTypeOK, BudgetInv
<1>1. v \in Portals  BY <1>0, PortalActivated DEF Evict
<1>2. BudgetInv'  BY BudgetKept DEF Evict
<1>3. CASE v \in Mounted /\ UNCHANGED state
           /\ call' = [call EXCEPT ![c] = [r EXCEPT !.at = at, !.surface = <<v, mounted[v]>>]]
  <2> DEFINE x == [r EXCEPT !.at = at, !.surface = <<v, mounted[v]>>]
  <2>1. <<v, mounted[v]>> \in Portals \X Resources
    BY <1>0, <1>1, <1>3 DEF Mounted
  <2> HIDE DEF v
  <2>2. x \in PortalCall /\ CallOK(x)
    BY <2>1 DEF PortalCall, CallOK
  <2> HIDE DEF x
  <2> QED  BY <1>0, <1>2, <1>3, <2>2, CallsKept DEF x, v
<1>4. CASE Writes(v, AfterUnmount(v)) /\ call' = [call EXCEPT ![c] = [r EXCEPT !.at = after]]
  <2> DEFINE x == [r EXCEPT !.at = after]
  <2>1. x \in PortalCall /\ CallOK(x)  BY DEF PortalCall, CallOK
  <2> HIDE DEF x
  <2>2. call' \in [Callers -> PortalCall] /\ CallInv'  BY <1>4, <2>1, CallsKept DEF x
  <2>3. state' \in [Portals -> PortalState]
    BY <1>0, <1>1, <1>4, StatesTyped DEF Writes
  <2> QED  BY <1>2, <2>2, <2>3
<1> QED  BY <1>3, <1>4 DEF Evict

\* What placing a surface does to the states and the calls.
LEMMA PlaceTyped ==
  ASSUME TypeInv, NEW c \in Callers, NEW r \in PortalCall,
         r.portal \in Portals, r.objects[r.portal] # Gone, Place(c, r)
  PROVE  /\ state' \in [Portals -> PortalState]
         /\ call' \in [Callers -> PortalCall] /\ CallInv'
<1> DEFINE p == r.portal
           shows == r.objects[p].shows
           a == [r EXCEPT !.at = "mount", !.surface = <<p, shows>>]
           b == [r EXCEPT !.at = "replace", !.surface = <<p, mounted[p]>>]
           d == [r EXCEPT !.at = "update"]
<1>0. state \in [Portals -> PortalState] /\ mounted \in [Portals -> Resources \cup {Nothing}]
  BY DEF TypeInv, PortalTypeOK
<1>1. shows \in Resources  BY DEF PortalCall, Objects
<1>2. CASE UNCHANGED state /\ call' = [call EXCEPT ![c] = a]
  <2>1. a \in PortalCall /\ CallOK(a)  BY <1>1 DEF PortalCall, CallOK
  <2> QED  BY <1>0, <1>2, <2>1, CallsKept
<1>3. CASE p \in Mounted /\ Writes(p, Fresh) /\ call' = [call EXCEPT ![c] = b]
  <2>1. b \in PortalCall /\ CallOK(b)  BY <1>0, <1>3 DEF PortalCall, CallOK, Mounted
  <2> QED  BY <1>0, <1>3, <2>1, CallsKept, StatesTyped DEF Writes
<1>4. CASE UNCHANGED state /\ call' = [call EXCEPT ![c] = d]
  <2>1. d \in PortalCall /\ CallOK(d)  BY DEF PortalCall, CallOK
  <2> QED  BY <1>0, <1>4, <2>1, CallsKept
<1> QED  BY <1>2, <1>3, <1>4 DEF Place

----------------------------------------------------------------------------
(* Types.                                                                  *)

\* The parts of the invariant, put together again.
LEMMA TypeInvFromParts ==
  ASSUME BudgetInv',
         mounted' \in [Portals -> Resources \cup {Nothing}],
         state' \in [Portals -> PortalState],
         surfaces' \subseteq Portals \X Resources,
         call' \in [Callers -> PortalCall], CallInv', rejected' \in BOOLEAN
  PROVE  TypeInv'
BY DEF TypeInv, PortalTypeOK, BudgetInv

\* Nothing is active, mounted or awaited at the start.
LEMMA TypeInvInit == PortalInit => TypeInv
<1> SUFFICES ASSUME PortalInit PROVE TypeInv  OBVIOUS
<1>1. active \in Seq(Portals) /\ Len(active) <= Limit /\ Distinct(active)
  <2>1. active = <<>> /\ DOMAIN active = {}  BY DEF PortalInit
  <2> QED  BY <2>1, EmptySeq, PortalConstants DEF Distinct
<1>2. /\ mounted \in [Portals -> Resources \cup {Nothing}]
      /\ state \in [Portals -> PortalState] /\ surfaces \subseteq Portals \X Resources
  BY StatesTyped DEF PortalInit
<1>3. call \in [Callers -> PortalCall] /\ CallInv
  BY NoCallTyped DEF PortalInit, CallInv
<1> QED  BY <1>1, <1>2, <1>3 DEF TypeInv, PortalTypeOK, PortalInit

\* Every step keeps the types, the order of the budget and what calls know.
LEMMA TypeInvNext == TypeInv /\ [PortalNext]_portalVars => TypeInv'
<1> SUFFICES ASSUME TypeInv, [PortalNext]_portalVars PROVE TypeInv'  OBVIOUS
<1>0. /\ BudgetInv
      /\ mounted \in [Portals -> Resources \cup {Nothing}]
      /\ state \in [Portals -> PortalState]
      /\ surfaces \subseteq Portals \X Resources
      /\ call \in [Callers -> PortalCall] /\ CallInv
  BY DEF TypeInv, PortalTypeOK, BudgetInv
<1>h. rejected' \in BOOLEAN  BY DEF TypeInv, PortalTypeOK, PortalNext, portalVars
<1> USE <1>h
<1>b. UNCHANGED active => BudgetInv'
  BY <1>0 DEF BudgetInv, Distinct
<1>m. UNCHANGED mounted => mounted' \in [Portals -> Resources \cup {Nothing}]  BY <1>0
<1>s. UNCHANGED state => state' \in [Portals -> PortalState]  BY <1>0
<1>f. UNCHANGED surfaces => surfaces' \subseteq Portals \X Resources  BY <1>0
<1>c. UNCHANGED call => call' \in [Callers -> PortalCall] /\ CallInv'
  BY <1>0 DEF CallInv, CallOK
<1>r. ASSUME NEW c \in Callers, Returns(c)
      PROVE  call' \in [Callers -> PortalCall] /\ CallInv'
  BY <1>r, NoCallTyped, CallsKept DEF Returns
<1>p. ASSUME NEW c \in Callers
      PROVE  /\ call[c] \in PortalCall /\ CallOK(call[c])
             /\ call[c].at \notin {"idle", "next"} => call[c].portal \in Portals
  BY <1>0 DEF CallInv, CallOK
<1>w. ASSUME NEW p \in Portals, NEW x \in PortalState, Writes(p, x)
      PROVE  state' \in [Portals -> PortalState]
  BY <1>0, <1>w DEF Writes
<1>x. ASSUME NEW c \in Callers, NEW at \in {"next", "show", "place"}, Goes(c, at),
             call[c].at \in {"evict", "syncEvict", "leave", "sync", "show"},
             at = "place" => call[c].at = "evict"
      PROVE  call' \in [Callers -> PortalCall] /\ CallInv'
  <2> DEFINE x == [call[c] EXCEPT !.at = at]
  <2>1. x \in PortalCall /\ CallOK(x)  BY <1>p, <1>x DEF PortalCall, CallOK
  <2>2. call' = [call EXCEPT ![c] = x]  BY <1>x DEF Goes
  <2> HIDE DEF x
  <2> QED  BY <2>1, <2>2, CallsKept
<1>1. ASSUME NEW c \in Callers, NEW p \in Portals, NEW o \in Objects, Activate(c, p, o)
      PROVE  TypeInv'
  <2>0. Asked(p, o) \in PortalCall /\ Asked(p, o).portal = p /\ Asked(p, o).objects[p] # Gone
    BY <1>1, AskedTyped DEF Activate, Gone
  <2>1. BudgetInv' /\ state' \in [Portals -> PortalState]
        /\ call' \in [Callers -> PortalCall] /\ CallInv'
    <3>1. CASE Evict(c, p, "evict", "place", Asked(p, o))
      BY <2>0, <3>1, EvictTyped
    <3>2. CASE active' = Activated(p) /\ Place(c, Asked(p, o))
      BY <2>0, <3>2, PlaceTyped, BudgetKept
    <3> QED  BY <1>1, <3>1, <3>2 DEF Activate
  <2> QED  BY <1>1, <1>m, <1>f, <2>1, TypeInvFromParts DEF Activate
<1>2. ASSUME NEW c \in Callers, NEW p \in Portals, NEW o \in Objects, ActivateOffscreen(c, p, o)
      PROVE  TypeInv'
  <2>1. CASE active' = Without(p) /\ Writes(p, Off) /\ UNCHANGED call
    <3>1. BudgetInv'  BY <2>1, BudgetKept
    <3> QED  BY <1>2, <2>1, <3>1, <1>m, <1>f, <1>c, <1>w, StatesTyped, TypeInvFromParts
             DEF ActivateOffscreen
  <2>2. CASE /\ call' = [call EXCEPT ![c] = [Asked(p, o) EXCEPT !.at = "offscreen"]]
             /\ UNCHANGED <<active, state>>
    <3> DEFINE x == [Asked(p, o) EXCEPT !.at = "offscreen"]
    <3>0. Asked(p, o) \in PortalCall /\ Asked(p, o).portal = p  BY AskedTyped
    <3>1. x \in PortalCall /\ CallOK(x)  BY <3>0 DEF PortalCall, CallOK
    <3> HIDE DEF x
    <3>2. call' \in [Callers -> PortalCall] /\ CallInv'  BY <2>2, <3>1, CallsKept DEF x
    <3> QED  BY <1>2, <2>2, <3>2, <1>b, <1>m, <1>s, <1>f, TypeInvFromParts DEF ActivateOffscreen
  <2> QED  BY <1>2, <2>1, <2>2 DEF ActivateOffscreen
<1>3. ASSUME NEW c \in Callers, NEW p \in Portals, Deactivate(c, p)
      PROVE  TypeInv'
  <2> DEFINE x == [NoCall EXCEPT !.at = "next", !.todo = {p}]
  <2>1. x \in PortalCall /\ CallOK(x)  BY NoCallTyped DEF PortalCall, CallOK
  <2> HIDE DEF x
  <2>2. call' \in [Callers -> PortalCall] /\ CallInv'  BY <1>3, <2>1, CallsKept DEF x, Deactivate
  <2> QED  BY <1>3, <2>2, <1>b, <1>m, <1>s, <1>f, TypeInvFromParts DEF Deactivate
<1>4. ASSUME NEW c \in Callers, NEW objects \in [Portals -> Objects], Sync(c, objects)
      PROVE  TypeInv'
  <2> DEFINE x == [NoCall EXCEPT !.at = "next", !.objects = objects, !.todo = Mounted]
  <2>1. x \in PortalCall /\ CallOK(x)  BY NoCallTyped DEF PortalCall, CallOK, Mounted
  <2> HIDE DEF x
  <2>2. call' \in [Callers -> PortalCall] /\ CallInv'  BY <1>4, <2>1, CallsKept DEF x, Sync
  <2> QED  BY <1>4, <2>2, <1>b, <1>m, <1>s, <1>f, TypeInvFromParts DEF Sync
<1>5. ASSUME NEW c \in Callers, PlaceAfterEviction(c)
      PROVE  TypeInv'
  <2>1. call[c].portal \in Portals /\ call[c].objects[call[c].portal] # Gone
    BY <1>5, <1>p DEF PlaceAfterEviction, CallOK
  <2>2. state' \in [Portals -> PortalState] /\ call' \in [Callers -> PortalCall] /\ CallInv'
    BY <1>5, <1>p, <2>1, PlaceTyped DEF PlaceAfterEviction
  <2> QED  BY <1>5, <2>2, <1>b, <1>m, <1>f, TypeInvFromParts DEF PlaceAfterEviction
<1>6. ASSUME NEW c \in Callers, Walk(c)
      PROVE  TypeInv'
  <2>1. CASE VisitNothing(c)
    BY <2>1, <1>b, <1>m, <1>s, <1>f, <1>r, TypeInvFromParts DEF VisitNothing
  <2>2. ASSUME NEW p \in Portals, Visit(c, p)  PROVE TypeInv'
    <3> DEFINE r == [call[c] EXCEPT !.portal = p, !.todo = @ \ {p}]
               x == [r EXCEPT !.at = "leave", !.surface = <<p, mounted[p]>>]
               y(at) == [r EXCEPT !.at = at]
    <3>1. p \in Mounted => x \in PortalCall /\ CallOK(x)
      BY <1>0, <1>p DEF PortalCall, CallOK, Mounted
    <3>2. \A at \in {"next", "sync"} : y(at) \in PortalCall /\ CallOK(y(at))
      BY <1>p DEF PortalCall, CallOK
    <3>3. /\ active' \in {active, Without(p)}
          /\ \/ p \in Mounted /\ call' = [call EXCEPT ![c] = x]
             \/ call' = [call EXCEPT ![c] = y("next")]
             \/ call' = [call EXCEPT ![c] = y("sync")]
      BY <2>2 DEF Visit
    <3> HIDE DEF x, y
    <3>4. BudgetInv'  BY <3>3, BudgetKept
    <3>5. call' \in [Callers -> PortalCall] /\ CallInv'  BY <3>1, <3>2, <3>3, CallsKept
    <3> QED  BY <2>2, <3>4, <3>5, <1>m, <1>s, <1>f, TypeInvFromParts DEF Visit
  <2> QED  BY <1>6, <2>1, <2>2 DEF Walk
<1>7. ASSUME NEW c \in Callers, Show(c)
      PROVE  TypeInv'
  <2>1. call[c].portal \in Portals  BY <1>7, <1>p DEF Show
  <2>2. state' \in [Portals -> PortalState]  BY <1>0, <1>7, <2>1, <1>w, StatesTyped DEF Show
  <2> QED  BY <1>7, <2>2, <1>b, <1>m, <1>f, <1>x, TypeInvFromParts DEF Show
<1>8. ASSUME NEW c \in Callers, MountResolves(c)
      PROVE  TypeInv'
  <2>1. call[c].portal \in Portals /\ call[c].surface \in Portals \X Resources
    BY <1>8, <1>p DEF MountResolves, Awaits, CallOK
  <2>2. state' \in [Portals -> PortalState]
    BY <1>0, <1>8, <2>1, <1>w, StatesTyped DEF MountResolves
  <2>3. mounted' \in [Portals -> Resources \cup {Nothing}]
    BY <1>0, <1>8, <2>1 DEF MountResolves
  <2>4. surfaces' \subseteq Portals \X Resources  BY <1>0, <1>8, <2>1 DEF MountResolves
  <2> QED  BY <1>8, <2>2, <2>3, <2>4, <1>b, <1>r, TypeInvFromParts DEF MountResolves
<1>9. ASSUME NEW c \in Callers, UnmountResolves(c)
      PROVE  TypeInv'
  <2> DEFINE q == call[c].surface[1]
             x == [call[c] EXCEPT !.at = "mount", !.fresh = TRUE,
                                  !.surface = <<q, call[c].objects[q].shows>>]
  <2>1. q \in Portals  BY <1>9, <1>p DEF UnmountResolves, Awaits, CallOK
  <2>2. state' \in [Portals -> PortalState]
    BY <1>9, <2>1, <1>w, StatesTyped DEF UnmountResolves
  <2>3. mounted' \in [Portals -> Resources \cup {Nothing}]  BY <1>0, <1>9 DEF UnmountResolves
  <2>4. surfaces' \subseteq Portals \X Resources  BY <1>0, <1>9 DEF UnmountResolves
  <2>5. ASSUME call[c].at = "replace", call' = [call EXCEPT ![c] = x]
        PROVE  call' \in [Callers -> PortalCall] /\ CallInv'
    <3>1. q = call[c].portal /\ call[c].objects[q].shows \in Resources
      BY <1>p, <2>1, <2>5 DEF CallOK, PortalCall, Objects
    <3>2. x \in PortalCall /\ CallOK(x)  BY <1>p, <2>1, <2>5, <3>1 DEF PortalCall, CallOK
    <3> HIDE DEF x
    <3> QED  BY <2>5, <3>2, CallsKept
  <2>6. ASSUME call[c].at \in {"evict", "syncEvict", "leave"},
               \E at \in {"next", "show", "place"} :
                 Goes(c, at) /\ (at = "place" => call[c].at = "evict")
        PROVE  call' \in [Callers -> PortalCall] /\ CallInv'
    BY <1>x, <2>6
  <2>7. call' \in [Callers -> PortalCall] /\ CallInv'
    <3>1. call[c].at = "replace" => call' = [call EXCEPT ![c] = x]
      BY <1>9 DEF UnmountResolves, Goes
    <3>2. call[c].at = "evict" => Goes(c, "place")  BY <1>9 DEF UnmountResolves
    <3>3. call[c].at = "syncEvict" => Goes(c, "show")  BY <1>9 DEF UnmountResolves
    <3>4. call[c].at = "leave" => Goes(c, "next")  BY <1>9 DEF UnmountResolves
    <3>5. call[c].at \in {"evict", "syncEvict", "leave", "replace"}
      BY <1>9 DEF UnmountResolves, Awaits
    <3> HIDE DEF x
    <3> QED  BY <2>5, <2>6, <3>1, <3>2, <3>3, <3>4, <3>5
  <2> QED  BY <1>9, <2>2, <2>3, <2>4, <2>7, <1>b, TypeInvFromParts DEF UnmountResolves
<1>10. ASSUME NEW c \in Callers, UpdateResolves(c)
      PROVE  TypeInv'
  <2>1. call[c].portal \in Portals  BY <1>10, <1>p DEF UpdateResolves, Awaits
  <2>2. BudgetInv'  BY <1>10, <1>b, <2>1, BudgetKept DEF UpdateResolves
  <2>3. state' \in [Portals -> PortalState]
    BY <1>0, <1>10, <2>1, <1>w, StatesTyped DEF UpdateResolves
  <2> QED  BY <1>10, <2>2, <2>3, <1>m, <1>f, <1>r, TypeInvFromParts DEF UpdateResolves
<1>11. ASSUME NEW c \in Callers, SyncResolves(c)
      PROVE  TypeInv'
  <2> DEFINE p == call[c].portal
  <2>1. p \in Portals /\ call[c].at = "sync"  BY <1>11, <1>p DEF SyncResolves, Awaits
  <2>2. CASE active' \in {active, Without(p), Activated(p)} /\ Goes(c, "next")
             /\ (Writes(p, Hidden) \/ Writes(p, Shown(p)))
    <3>1. BudgetInv'  BY <2>1, <2>2, BudgetKept
    <3>2. state' \in [Portals -> PortalState]  BY <1>0, <2>1, <2>2, <1>w, StatesTyped
    <3>3. call' \in [Callers -> PortalCall] /\ CallInv'  BY <1>x, <2>1, <2>2
    <3> QED  BY <1>11, <3>1, <3>2, <3>3, <1>m, <1>f, TypeInvFromParts DEF SyncResolves
  <2>3. CASE Evict(c, p, "syncEvict", "show", call[c])
    <3>1. BudgetInv' /\ state' \in [Portals -> PortalState]
          /\ call' \in [Callers -> PortalCall] /\ CallInv'
      BY <1>p, <2>1, <2>3, EvictTyped
    <3> QED  BY <1>11, <3>1, <1>m, <1>f, TypeInvFromParts DEF SyncResolves
  <2> QED  BY <1>11, <2>2, <2>3 DEF SyncResolves
<1>12. ASSUME NEW c \in Callers, MountRejects(c)
      PROVE  TypeInv'
  <2>1. call[c].portal \in Portals  BY <1>12, <1>p DEF MountRejects, Awaits
  <2>2. BudgetInv'  BY <1>12, <2>1, BudgetKept DEF MountRejects
  <2>3. state' \in [Portals -> PortalState]  BY <1>12, <2>1, <1>w, StatesTyped DEF MountRejects
  <2>4. mounted' \in [Portals -> Resources \cup {Nothing}]  BY <1>0, <1>12 DEF MountRejects
  <2> QED  BY <1>12, <2>2, <2>3, <2>4, <1>f, <1>r, TypeInvFromParts DEF MountRejects
<1>13. ASSUME NEW c \in Callers, OperationRejects(c)
      PROVE  TypeInv'
  <2>1. call[c].portal \in Portals  BY <1>13, <1>p DEF OperationRejects, Awaits
  <2>2. BudgetInv'  BY <1>13, <2>1, BudgetKept DEF OperationRejects
  <2>3. state' \in [Portals -> PortalState]
    BY <1>13, <2>1, <1>w, StatesTyped DEF OperationRejects
  <2> QED  BY <1>13, <2>2, <2>3, <1>m, <1>f, <1>r, TypeInvFromParts DEF OperationRejects
<1>14. ASSUME NEW c \in Callers, PassesRejection(c)
      PROVE  TypeInv'
  BY <1>14, <1>b, <1>m, <1>s, <1>f, <1>r, TypeInvFromParts DEF PassesRejection
<1>15. ASSUME NEW p \in Portals, Interacts(p)
      PROVE  TypeInv'
  <2>1. PICK x \in PortalState : Writes(p, x)
    <3>1. \A b \in BOOLEAN : [state[p] EXCEPT !.focused = b] \in PortalState
      BY <1>0 DEF PortalState
    <3>2. \A o \in Principals \cup {NoOne} : [state[p] EXCEPT !.controlOwner = o] \in PortalState
      BY <1>0 DEF PortalState
    <3> QED  BY <1>15, <3>1, <3>2 DEF Interacts, SetFocused, AcquireControl, GiveUpControl
  <2>2. UNCHANGED <<active, mounted, surfaces, call>>
    BY <1>15 DEF Interacts, SetFocused, AcquireControl, GiveUpControl
  <2> QED  BY <2>1, <2>2, <1>b, <1>m, <1>f, <1>c, <1>w, TypeInvFromParts
<1>16. CASE UNCHANGED portalVars
  BY <1>16, <1>b, <1>m, <1>s, <1>f, <1>c, TypeInvFromParts DEF portalVars
<1> QED
  BY <1>1, <1>2, <1>3, <1>4, <1>5, <1>6, <1>7, <1>8, <1>9, <1>10, <1>11, <1>12, <1>13,
     <1>14, <1>15, <1>16 DEF PortalNext, Begins, Continues, Resolves, Rejects

\* The coordinator is well typed and its budget never exceeds the limit, however calls
\* overlap and whatever the hosts reject.
THEOREM PortalTypeCorrect == PortalSpec => []PortalTypeOK
<1>1. PortalSpec => []TypeInv  BY TypeInvInit, TypeInvNext, PTL DEF PortalSpec
<1>2. TypeInv => PortalTypeOK  BY DEF TypeInv
<1> QED  BY <1>1, <1>2, PTL

----------------------------------------------------------------------------
(* Focus and control.                                                      *)

\* Every asynchronous call writes one of four states; the last of them keeps focus and
\* control as they are at that moment.
LEMMA WhatIsWritten ==
  ASSUME TypeInv, [PortalNext]_portalVars
  PROVE  \/ UNCHANGED state
         \/ \E p \in Portals : \E x \in {Off, Hidden, Fresh, Shown(p)} : Writes(p, x)
         \/ \E p \in Portals : Interacts(p)
<1> DEFINE Goal == \/ UNCHANGED state
                   \/ \E p \in Portals : \E x \in {Off, Hidden, Fresh, Shown(p)} : Writes(p, x)
                   \/ \E p \in Portals : Interacts(p)
<1>0. BudgetInv /\ \A c \in Callers : CallOK(call[c])
  BY DEF TypeInv, PortalTypeOK, BudgetInv, CallInv
<1>1. ASSUME NEW c \in Callers, call[c].at \notin {"idle", "next"}
      PROVE  call[c].portal \in Portals
  BY <1>0, <1>1 DEF CallOK
<1>2. ASSUME NEW c \in Callers, NEW p \in Portals, NEW at, NEW after, NEW r,
             Evict(c, p, at, after, r)
      PROVE  Goal
  <2>1. Victim(p) \in Portals  BY <1>0, <1>2, PortalActivated DEF Evict
  <2>2. UNCHANGED state \/ Writes(Victim(p), Off)  BY <1>2 DEF Evict, AfterUnmount
  <2> QED  BY <2>1, <2>2
<1>3. ASSUME NEW c \in Callers, NEW r, r.portal \in Portals, Place(c, r)
      PROVE  Goal
  <2>1. UNCHANGED state \/ Writes(r.portal, Fresh)  BY <1>3 DEF Place
  <2> QED  BY <2>1, <1>3
<1>4. ASSUME NEW c \in Callers, Begins(c)
      PROVE  Goal
  <2>1. ASSUME NEW p \in Portals, NEW o \in Objects, Activate(c, p, o)  PROVE Goal
    <3>1. Asked(p, o).portal = p  BY AskedTyped
    <3> HIDE DEF Goal
    <3> QED  BY <2>1, <3>1, <1>2, <1>3 DEF Activate
  <2>2. ASSUME NEW p \in Portals, NEW o \in Objects, ActivateOffscreen(c, p, o)  PROVE Goal
    BY <2>2 DEF ActivateOffscreen
  <2> QED  BY <1>4, <2>1, <2>2 DEF Begins, Deactivate, Sync
<1>5. ASSUME NEW c \in Callers, Continues(c)
      PROVE  Goal
  <2>1. CASE PlaceAfterEviction(c)  BY <2>1, <1>1, <1>3 DEF PlaceAfterEviction
  <2>2. CASE Walk(c)  BY <2>2 DEF Walk, VisitNothing, Visit
  <2>3. CASE Show(c)
    <3>1. call[c].portal \in Portals  BY <2>3, <1>1 DEF Show
    <3> QED  BY <2>3, <3>1 DEF Show
  <2> QED  BY <1>5, <2>1, <2>2, <2>3 DEF Continues
<1>6. ASSUME NEW c \in Callers, Resolves(c)
      PROVE  Goal
  <2> DEFINE p == call[c].portal
  <2>1. CASE MountResolves(c)
    <3>1. p \in Portals  BY <2>1, <1>1 DEF MountResolves, Awaits
    <3> QED  BY <2>1, <3>1 DEF MountResolves
  <2>2. CASE UnmountResolves(c)
    <3>1. call[c].surface[1] \in Portals  BY <2>2, <1>0 DEF UnmountResolves, Awaits, CallOK
    <3> QED  BY <2>2, <3>1 DEF UnmountResolves, AfterUnmount
  <2>3. CASE UpdateResolves(c)
    <3>1. p \in Portals  BY <2>3, <1>1 DEF UpdateResolves, Awaits
    <3> QED  BY <2>3, <3>1 DEF UpdateResolves
  <2>4. CASE SyncResolves(c)
    <3>1. p \in Portals  BY <2>4, <1>1 DEF SyncResolves, Awaits
    <3>2. Writes(p, Hidden) \/ Writes(p, Shown(p)) \/ Evict(c, p, "syncEvict", "show", call[c])
      BY <2>4 DEF SyncResolves
    <3>3. CASE Evict(c, p, "syncEvict", "show", call[c])  BY <3>1, <3>3, <1>2
    <3> QED  BY <3>1, <3>2, <3>3
  <2> QED  BY <1>6, <2>1, <2>2, <2>3, <2>4 DEF Resolves
<1>7. ASSUME NEW c \in Callers, Rejects(c)
      PROVE  Goal
  <2> DEFINE p == call[c].portal
  <2>1. CASE MountRejects(c)
    <3>1. p \in Portals  BY <2>1, <1>1 DEF MountRejects, Awaits
    <3> QED  BY <2>1, <3>1 DEF MountRejects
  <2>2. CASE OperationRejects(c)
    <3>1. p \in Portals  BY <2>2, <1>1 DEF OperationRejects, Awaits
    <3> QED  BY <2>2, <3>1 DEF OperationRejects
  <2>3. CASE PassesRejection(c)  BY <2>3 DEF PassesRejection
  <2> QED  BY <1>7, <2>1, <2>2, <2>3 DEF Rejects
<1>8. CASE UNCHANGED portalVars  BY <1>8 DEF portalVars
<1> HIDE DEF Goal
<1>9. Goal
  <2>1. ASSUME NEW p \in Portals, Interacts(p)  PROVE Goal  BY <2>1 DEF Goal
  <2>2. UNCHANGED portalVars => Goal  BY DEF Goal, portalVars
  <2> QED  BY <1>4, <1>5, <1>6, <1>7, <2>1, <2>2 DEF PortalNext
<1> QED  BY <1>9 DEF Goal

\* None of the four states gives focus or control that was not there, and those that keep
\* it are visible.
LEMMA WritesTakeNothing ==
  ASSUME state \in [Portals -> PortalState], NEW p \in Portals,
         NEW x \in {Off, Hidden, Fresh, Shown(p)}
  PROVE  /\ x \in PortalState
         /\ x.controlOwner \in {NoOne, state[p].controlOwner}
         /\ x.focused => state[p].focused
         /\ x.focused \/ x.controlOwner # NoOne => x.mounted /\ x.visible
<1>1. CASE x \in {Off, Hidden, Fresh}
  <2>1. x.focused = FALSE /\ x.controlOwner = NoOne  BY <1>1 DEF Off, Hidden, Fresh, Written
  <2> QED  BY <1>1, <2>1, StatesTyped
<1>2. CASE x = Shown(p)
  <2>1. x.mounted = TRUE /\ x.visible = TRUE /\ x.focused = state[p].focused
        /\ x.controlOwner = state[p].controlOwner
    BY <1>2 DEF Shown, PortalState
  <2> QED  BY <1>2, <2>1, StatesTyped
<1> QED  BY <1>1, <1>2

\* However calls of any number of callers overlap and whatever the hosts reject, focus and
\* control are held only on portals that are mounted and visible as far as state() knows.
THEOREM InteractionHolds == PortalSpec => []InteractionNeedsView
<1>1. PortalInit => InteractionNeedsView
  BY DEF PortalInit, InteractionNeedsView, Off, Written
<1>2. TypeInv /\ InteractionNeedsView /\ [PortalNext]_portalVars => InteractionNeedsView'
  <2> SUFFICES ASSUME TypeInv, InteractionNeedsView, [PortalNext]_portalVars
               PROVE  InteractionNeedsView'
    OBVIOUS
  <2>0. state \in [Portals -> PortalState]  BY DEF TypeInv, PortalTypeOK
  <2>1. CASE UNCHANGED state  BY <2>1 DEF InteractionNeedsView
  <2>2. ASSUME NEW p \in Portals, NEW x \in {Off, Hidden, Fresh, Shown(p)}, Writes(p, x)
        PROVE  InteractionNeedsView'
    BY <2>0, <2>2, WritesTakeNothing DEF InteractionNeedsView, Writes
  <2>3. ASSUME NEW p \in Portals, Interacts(p)
        PROVE  InteractionNeedsView'
    BY <2>0, <2>3 DEF Interacts, SetFocused, AcquireControl, GiveUpControl, CanInteract, Writes,
                      InteractionNeedsView, PortalState
  <2> QED  BY <2>1, <2>2, <2>3, WhatIsWritten
<1>3. PortalSpec => []TypeInv  BY TypeInvInit, TypeInvNext, PTL DEF PortalSpec
<1> QED  BY <1>1, <1>2, <1>3, PTL DEF PortalSpec

\* Control that was given up, and focus that was lost, come back only by a new request,
\* never by a call that completes late.
THEOREM LostIsLost == PortalSpec => NothingComesBack
<1> DEFINE Kept == \A p \in Portals :
      /\ state'[p].controlOwner \notin {NoOne, state[p].controlOwner} =>
           \E x \in Principals : AcquireControl(p, x)
      /\ state'[p].focused /\ ~state[p].focused => SetFocused(p, TRUE)
<1>1. TypeInv /\ [PortalNext]_portalVars => [Kept]_portalVars
  <2> SUFFICES ASSUME TypeInv, [PortalNext]_portalVars, NEW p \in Portals
               PROVE  /\ state'[p].controlOwner \notin {NoOne, state[p].controlOwner} =>
                           \E x \in Principals : AcquireControl(p, x)
                      /\ state'[p].focused /\ ~state[p].focused => SetFocused(p, TRUE)
    OBVIOUS
  <2>0. state \in [Portals -> PortalState]  BY DEF TypeInv, PortalTypeOK
  <2>1. CASE UNCHANGED state  BY <2>1
  <2>2. ASSUME NEW q \in Portals, NEW x \in {Off, Hidden, Fresh, Shown(q)}, Writes(q, x)
        PROVE  /\ state'[p].controlOwner \in {NoOne, state[p].controlOwner}
               /\ state'[p].focused => state[p].focused
    BY <2>0, <2>2, WritesTakeNothing DEF Writes
  <2>3. ASSUME NEW q \in Portals, NEW f \in BOOLEAN, SetFocused(q, f)
        PROVE  /\ state'[p].controlOwner = state[p].controlOwner
               /\ state'[p].focused /\ ~state[p].focused => SetFocused(p, TRUE)
    <3>1. state' = [state EXCEPT ![q] = [state[q] EXCEPT !.focused = f]]
      BY <2>3 DEF SetFocused, Writes
    <3>2. CASE p = q /\ f = TRUE  BY <2>0, <2>3, <3>1, <3>2 DEF PortalState
    <3>3. CASE p # q \/ f = FALSE  BY <2>0, <3>1, <3>3 DEF PortalState
    <3> QED  BY <3>2, <3>3
  <2>4. ASSUME NEW q \in Portals, NEW x \in Principals, AcquireControl(q, x)
        PROVE  /\ state'[p].controlOwner # state[p].controlOwner =>
                    \E y \in Principals : AcquireControl(p, y)
               /\ state'[p].focused = state[p].focused
    <3>1. state' = [state EXCEPT ![q] = [state[q] EXCEPT !.controlOwner = x]]
      BY <2>4 DEF AcquireControl, Writes
    <3>2. CASE p = q  BY <2>0, <2>4, <3>1, <3>2 DEF PortalState
    <3>3. CASE p # q  BY <2>0, <3>1, <3>3
    <3> QED  BY <3>2, <3>3
  <2>5. ASSUME NEW q \in Portals, GiveUpControl(q)
        PROVE  /\ state'[p].controlOwner \in {NoOne, state[p].controlOwner}
               /\ state'[p].focused = state[p].focused
    BY <2>0, <2>5 DEF GiveUpControl, Writes, PortalState
  <2> QED  BY <2>1, <2>2, <2>3, <2>4, <2>5, WhatIsWritten DEF Interacts
<1>2. PortalSpec => []TypeInv  BY TypeInvInit, TypeInvNext, PTL DEF PortalSpec
<1> QED  BY <1>1, <1>2, PTL DEF PortalSpec, NothingComesBack

----------------------------------------------------------------------------
(* One caller: surfaces and states.                                        *)

\* A write that tells the truth about mounting keeps the accounts.
LEMMA AccountsKept ==
  ASSUME TypeInv, SurfacesAccounted, UNCHANGED <<mounted, surfaces>>,
         NEW p \in Portals, NEW x \in PortalState, x.mounted <=> p \in Mounted,
         Writes(p, x)
  PROVE  SurfacesAccounted'
<1>0. state \in [Portals -> PortalState]  BY DEF TypeInv, PortalTypeOK
<1>1. Mounted' = Mounted /\ mounted' = mounted /\ surfaces' = surfaces  BY DEF Mounted
<1>2. surfaces' = {<<q, mounted'[q]>> : q \in Mounted'}  BY <1>1 DEF SurfacesAccounted
<1>3. ASSUME NEW q \in Portals  PROVE state'[q].mounted <=> q \in Mounted'
  <2>1. state[q].mounted <=> q \in Mounted  BY DEF SurfacesAccounted
  <2>2. CASE q = p  BY <1>0, <1>1, <2>2 DEF Writes
  <2>3. CASE q # p  BY <1>0, <1>1, <2>1, <2>3 DEF Writes
  <2> QED  BY <2>2, <2>3
<1> QED  BY <1>2, <1>3 DEF SurfacesAccounted

\* A step that touches neither keeps them too.
LEMMA AccountsUntouched ==
  ASSUME SurfacesAccounted, UNCHANGED <<mounted, surfaces, state>>
  PROVE  SurfacesAccounted'
BY DEF SurfacesAccounted, Mounted

\* Which of the four states says mounted.
LEMMA WhatSaysMounted ==
  /\ Off.mounted = FALSE /\ Hidden.mounted = TRUE /\ Fresh.mounted = TRUE
  /\ Off.visible = FALSE /\ Hidden.visible = FALSE /\ Fresh.visible = TRUE
  /\ \A p \in Portals : state \in [Portals -> PortalState] =>
       Shown(p).mounted = TRUE /\ Shown(p).visible = TRUE
BY DEF Off, Hidden, Fresh, Written, Shown, PortalState

\* The caller asks to unmount an evicted surface, another one than the portal's own, or has
\* none to unmount.
LEMMA SoloEvict ==
  ASSUME TypeInv, SoloInv, NEW k, Callers = {k}, NEW p \in Portals, NEW r \in PortalCall,
         NEW at \in {"evict", "syncEvict"}, NEW after \in {"place", "show"},
         r.portal = p, at = "syncEvict" \/ after = "show" => p \in Mounted,
         Evict(k, p, at, after, r), UNCHANGED <<mounted, surfaces>>
  PROVE  SoloInv'
<1> DEFINE v == Victim(p)
<1>0. BudgetInv /\ state \in [Portals -> PortalState] /\ call \in [Callers -> PortalCall]
      /\ SurfacesAccounted /\ Mounted' = Mounted /\ r.todo \subseteq Portals
  BY DEF TypeInv, PortalTypeOK, BudgetInv, SoloInv, Mounted, PortalCall
<1>1. v \in Portals /\ v # p  BY <1>0, PortalActivated DEF Evict
<1>2. SUFFICES SurfacesAccounted' /\ SoloCall(k)'  BY DEF SoloInv
<1>3. CASE v \in Mounted /\ UNCHANGED state
           /\ call' = [call EXCEPT ![k] = [r EXCEPT !.at = at, !.surface = <<v, mounted[v]>>]]
  <2> DEFINE x == [r EXCEPT !.at = at, !.surface = <<v, mounted[v]>>]
  <2>1. call'[k] = x  BY <1>0, <1>3
  <2>2. x.at = at /\ x.portal = p /\ x.surface = <<v, mounted[v]>> /\ x.todo = r.todo
    BY DEF PortalCall
  <2>3. x.surface[1] = v  BY <2>2
  <2> HIDE DEF x, v
  <2>4. SoloCall(k)'  BY <1>0, <1>1, <2>1, <2>2, <2>3 DEF SoloCall
  <2> QED  BY <1>0, <1>3, <2>4, AccountsUntouched
<1>4. CASE v \notin Mounted /\ Writes(v, AfterUnmount(v))
           /\ call' = [call EXCEPT ![k] = [r EXCEPT !.at = after]]
  <2> DEFINE x == [r EXCEPT !.at = after]
  <2>1. call'[k] = x  BY <1>0, <1>4
  <2>2. x.at = after /\ x.portal = p /\ x.todo = r.todo  BY DEF PortalCall
  <2> HIDE DEF x, v
  <2>3. SoloCall(k)'  BY <1>0, <2>1, <2>2 DEF SoloCall
  <2>4. SurfacesAccounted'
    BY <1>0, <1>1, <1>4, AccountsKept, StatesTyped, WhatSaysMounted DEF AfterUnmount
  <2> QED  BY <2>3, <2>4
<1> QED  BY <1>3, <1>4 DEF Evict

\* The caller asks to mount only what is not mounted, and to replace or move only what is.
LEMMA SoloPlace ==
  ASSUME TypeInv, SoloInv, NEW k, Callers = {k}, NEW r \in PortalCall,
         r.portal \in Portals, r.objects[r.portal] # Gone, Place(k, r),
         UNCHANGED <<mounted, surfaces>>
  PROVE  SoloInv'
<1> DEFINE p == r.portal
           shows == r.objects[p].shows
           a == [r EXCEPT !.at = "mount", !.surface = <<p, shows>>]
           b == [r EXCEPT !.at = "replace", !.surface = <<p, mounted[p]>>]
           d == [r EXCEPT !.at = "update"]
<1>0. state \in [Portals -> PortalState] /\ call \in [Callers -> PortalCall]
      /\ SurfacesAccounted /\ Mounted' = Mounted /\ r.todo \subseteq Portals
      /\ mounted' = mounted /\ p \in Portals
  BY DEF TypeInv, PortalTypeOK, SoloInv, Mounted, PortalCall
<1>1. shows \in Resources /\ shows # Nothing
  BY PortalConstants DEF PortalCall, Objects
<1>2. SUFFICES SurfacesAccounted' /\ SoloCall(k)'  BY DEF SoloInv
<1>3. CASE p \notin Mounted /\ UNCHANGED state /\ call' = [call EXCEPT ![k] = a]
  <2>1. call'[k] = a  BY <1>0, <1>3
  <2>2. a.at = "mount" /\ a.portal = p /\ a.todo = r.todo  BY DEF PortalCall
  <2> HIDE DEF a, p
  <2>3. SoloCall(k)'  BY <1>0, <1>3, <2>1, <2>2 DEF SoloCall
  <2> QED  BY <1>0, <1>3, <2>3, AccountsUntouched
<1>4. CASE p \in Mounted /\ Writes(p, Fresh) /\ call' = [call EXCEPT ![k] = b]
  <2>1. call'[k] = b  BY <1>0, <1>4
  <2>2. b.at = "replace" /\ b.portal = p /\ b.surface = <<p, mounted[p]>> /\ b.todo = r.todo
    BY DEF PortalCall
  <2>3. b.surface[1] = p  BY <2>2
  <2> HIDE DEF b, p
  <2>4. SoloCall(k)'  BY <1>0, <1>4, <2>1, <2>2, <2>3 DEF SoloCall
  <2>5. SurfacesAccounted'  BY <1>0, <1>4, AccountsKept, StatesTyped, WhatSaysMounted
  <2> QED  BY <2>4, <2>5
<1>5. CASE mounted[p] = shows /\ UNCHANGED state /\ call' = [call EXCEPT ![k] = d]
  <2>1. call'[k] = d  BY <1>0, <1>5
  <2>2. d.at = "update" /\ d.portal = p /\ d.todo = r.todo  BY DEF PortalCall
  <2>3. p \in Mounted  BY <1>0, <1>1, <1>5 DEF Mounted
  <2> HIDE DEF d, p
  <2>4. SoloCall(k)'  BY <1>0, <2>1, <2>2, <2>3 DEF SoloCall
  <2> QED  BY <1>0, <1>5, <2>4, AccountsUntouched
<1> QED  BY <1>3, <1>4, <1>5 DEF Place

\* A call that visits the next portal, or returns, awaits nothing.
LEMMA SoloCallFree ==
  ASSUME TypeInv, NEW k \in Callers, call[k].todo \subseteq Portals,
         Returns(k) \/ Goes(k, "next") \/ Goes(k, "place")
  PROVE  SoloCall(k)'
<1>0. call \in [Callers -> PortalCall]  BY DEF TypeInv, PortalTypeOK
<1>1. CASE Returns(k)
  <2>1. call'[k] = NoCall  BY <1>0, <1>1 DEF Returns
  <2> QED  BY <2>1 DEF SoloCall, NoCall
<1>2. CASE Goes(k, "next") \/ Goes(k, "place")
  <2>1. call'[k].at \in {"next", "place"} /\ call'[k].todo = call[k].todo
    BY <1>0, <1>2 DEF Goes, PortalCall
  <2> QED  BY <2>1 DEF SoloCall
<1> QED  BY <1>1, <1>2

\* An answer to mount() adds the surface that was asked for.
LEMMA SoloMount ==
  ASSUME TypeInv, SoloInv, NEW k, Callers = {k}, MountResolves(k)
  PROVE  SoloInv'
<1> DEFINE p == call[k].portal
           s == call[k].surface[2]
<1>0. /\ mounted \in [Portals -> Resources \cup {Nothing}]
      /\ state \in [Portals -> PortalState] /\ call \in [Callers -> PortalCall]
      /\ SurfacesAccounted /\ SoloCall(k) /\ CallOK(call[k]) /\ call[k].at = "mount"
  BY DEF TypeInv, PortalTypeOK, CallInv, SoloInv, MountResolves, Awaits
<1>1. /\ p \in Portals /\ s \in Resources /\ s # Nothing
      /\ call[k].surface = <<p, s>> /\ p \notin Mounted
  BY <1>0, PortalConstants DEF CallOK, SoloCall
<1>2. /\ mounted' = [mounted EXCEPT ![p] = s] /\ surfaces' = surfaces \cup {<<p, s>>}
      /\ Returns(k)
      /\ \E x \in PortalState : x.mounted /\ Writes(p, x)
  BY <1>0, <1>1, StatesTyped, WhatSaysMounted DEF MountResolves
<1>3. Mounted' = Mounted \cup {p}  BY <1>0, <1>1, <1>2 DEF Mounted
<1>4. surfaces' = {<<q, mounted'[q]>> : q \in Mounted'}
  <2>1. surfaces = {<<q, mounted[q]>> : q \in Mounted}  BY <1>0 DEF SurfacesAccounted
  <2>2. mounted'[p] = s /\ \A q \in Mounted : mounted'[q] = mounted[q]
    BY <1>0, <1>1, <1>2 DEF Mounted
  <2> HIDE DEF p, s
  <2> QED  BY <1>2, <1>3, <2>1, <2>2
<1>5. \A q \in Portals : state'[q].mounted <=> q \in Mounted'
  <2>1. \A q \in Portals : state[q].mounted <=> q \in Mounted  BY <1>0 DEF SurfacesAccounted
  <2>2. PICK x \in PortalState : x.mounted /\ Writes(p, x)  BY <1>2
  <2> HIDE DEF p
  <2> QED  BY <1>0, <1>1, <1>3, <2>1, <2>2 DEF Writes
<1>6. SoloCall(k)'
  <2>1. call[k].todo \subseteq Portals  BY <1>0 DEF PortalCall
  <2> QED  BY <1>2, <2>1, SoloCallFree
<1> QED  BY <1>4, <1>5, <1>6 DEF SoloInv, SurfacesAccounted

\* An answer to unmount() removes the surface that was asked for, and no other.
LEMMA SoloUnmount ==
  ASSUME TypeInv, SoloInv, NEW k, Callers = {k}, UnmountResolves(k)
  PROVE  SoloInv'
<1> DEFINE q == call[k].surface[1]
           p == call[k].portal
           x == [call[k] EXCEPT !.at = "mount", !.fresh = TRUE,
                                !.surface = <<q, call[k].objects[q].shows>>]
<1>0. /\ mounted \in [Portals -> Resources \cup {Nothing}]
      /\ state \in [Portals -> PortalState] /\ call \in [Callers -> PortalCall]
      /\ SurfacesAccounted /\ SoloCall(k) /\ CallOK(call[k])
      /\ call[k].at \in {"evict", "syncEvict", "leave", "replace"}
  BY DEF TypeInv, PortalTypeOK, CallInv, SoloInv, UnmountResolves, Awaits
<1>1. q \in Portals /\ p \in Portals /\ call[k].surface = <<q, mounted[q]>>
  BY <1>0 DEF CallOK, SoloCall
<1>2. /\ mounted' = [mounted EXCEPT ![q] = Nothing] /\ surfaces' = surfaces \ {<<q, mounted[q]>>}
      /\ Writes(q, Off)
  BY <1>1 DEF UnmountResolves, AfterUnmount
<1>3. Mounted' = Mounted \ {q}  BY <1>0, <1>1, <1>2 DEF Mounted
<1>4. surfaces' = {<<m, mounted'[m]>> : m \in Mounted'}
  <2>1. surfaces = {<<m, mounted[m]>> : m \in Mounted}  BY <1>0 DEF SurfacesAccounted
  <2>2. \A m \in Mounted \ {q} : mounted'[m] = mounted[m]  BY <1>0, <1>2 DEF Mounted
  <2> HIDE DEF q
  <2> QED  BY <1>2, <1>3, <2>1, <2>2
<1>5. \A m \in Portals : state'[m].mounted <=> m \in Mounted'
  <2>1. \A m \in Portals : state[m].mounted <=> m \in Mounted  BY <1>0 DEF SurfacesAccounted
  <2> HIDE DEF q
  <2> QED  BY <1>0, <1>1, <1>2, <1>3, <2>1, WhatSaysMounted DEF Writes
<1>6. SoloCall(k)'
  <2>0. call[k].todo \subseteq Portals  BY <1>0 DEF PortalCall
  <2>1. CASE call[k].at = "evict"
    <3>1. Goes(k, "place")  BY <2>1 DEF UnmountResolves
    <3> QED  BY <2>0, <3>1, SoloCallFree
  <2>2. CASE call[k].at = "leave"
    <3>1. Goes(k, "next")  BY <2>2 DEF UnmountResolves
    <3> QED  BY <2>0, <3>1, SoloCallFree
  <2>3. CASE call[k].at = "syncEvict"
    <3>1. Goes(k, "show")  BY <2>3 DEF UnmountResolves
    <3>2. call'[k].at = "show" /\ call'[k].portal = p /\ call'[k].todo = call[k].todo
      BY <1>0, <3>1 DEF Goes, PortalCall
    <3>3. p \in Mounted /\ p # q  BY <1>0, <2>3 DEF SoloCall
    <3> HIDE DEF p, q
    <3> QED  BY <1>3, <2>0, <3>2, <3>3 DEF SoloCall
  <2>4. CASE call[k].at = "replace"
    <3>1. call' = [call EXCEPT ![k] = x]  BY <2>4 DEF UnmountResolves, Goes
    <3>2. call'[k] = x  BY <1>0, <3>1
    <3>3. x.at = "mount" /\ x.portal = p /\ x.todo = call[k].todo  BY <1>0 DEF PortalCall
    <3>4. p = q  BY <1>0, <2>4 DEF CallOK
    <3> HIDE DEF p, q, x
    <3> QED  BY <1>3, <2>0, <3>2, <3>3, <3>4 DEF SoloCall
  <2> QED  BY <1>0, <2>1, <2>2, <2>3, <2>4
<1> QED  BY <1>4, <1>5, <1>6 DEF SoloInv, SurfacesAccounted

\* The walk of syncGeometry() and deactivate() asks to unmount or move only what is mounted.
LEMMA SoloVisit ==
  ASSUME TypeInv, SoloInv, NEW k, Callers = {k}, NEW p \in Portals, Visit(k, p)
  PROVE  SoloInv'
<1> DEFINE r == [call[k] EXCEPT !.portal = p, !.todo = @ \ {p}]
           x == [r EXCEPT !.at = "leave", !.surface = <<p, mounted[p]>>]
           y(at) == [r EXCEPT !.at = at]
<1>0. /\ call \in [Callers -> PortalCall] /\ SurfacesAccounted
      /\ UNCHANGED <<mounted, state, surfaces>> /\ Mounted' = Mounted
      /\ call[k].todo \subseteq Portals
  BY DEF TypeInv, PortalTypeOK, SoloInv, Visit, Mounted, PortalCall
<1>1. SUFFICES SoloCall(k)'  BY <1>0, AccountsUntouched DEF SoloInv
<1>2. \/ p \in Mounted /\ call' = [call EXCEPT ![k] = x]
      \/ call' = [call EXCEPT ![k] = y("next")]
      \/ p \in Mounted /\ call' = [call EXCEPT ![k] = y("sync")]
  BY DEF Visit
<1>3. CASE p \in Mounted /\ call' = [call EXCEPT ![k] = x]
  <2>1. call'[k] = x  BY <1>0, <1>3
  <2>2. x.at = "leave" /\ x.portal = p /\ x.surface = <<p, mounted[p]>> /\ x.todo = call[k].todo \ {p}
    BY <1>0 DEF PortalCall
  <2>3. x.surface[1] = p  BY <2>2
  <2> HIDE DEF x
  <2> QED  BY <1>0, <1>3, <2>1, <2>2, <2>3 DEF SoloCall
<1>4. CASE call' = [call EXCEPT ![k] = y("next")]
  <2>1. call'[k] = y("next")  BY <1>0, <1>4
  <2>2. y("next").at = "next" /\ y("next").todo = call[k].todo \ {p}  BY <1>0 DEF PortalCall
  <2> HIDE DEF y
  <2> QED  BY <1>0, <2>1, <2>2 DEF SoloCall
<1>5. CASE p \in Mounted /\ call' = [call EXCEPT ![k] = y("sync")]
  <2>1. call'[k] = y("sync")  BY <1>0, <1>5
  <2>2. y("sync").at = "sync" /\ y("sync").portal = p /\ y("sync").todo = call[k].todo \ {p}
    BY <1>0 DEF PortalCall
  <2> HIDE DEF y
  <2> QED  BY <1>0, <1>5, <2>1, <2>2 DEF SoloCall
<1> QED  BY <1>2, <1>3, <1>4, <1>5

\* Every step of the only caller, of its hosts and of those who interact keeps the surfaces
\* accounted and what the caller awaits the case.
LEMMA SoloNext ==
  ASSUME TypeInv, SoloInv, NEW k, Callers = {k}, [PortalNext]_portalVars
  PROVE  SoloInv'
<1> DEFINE p == call[k].portal
<1>0. /\ state \in [Portals -> PortalState] /\ call \in [Callers -> PortalCall]
      /\ mounted \in [Portals -> Resources \cup {Nothing}]
      /\ SurfacesAccounted /\ SoloCall(k) /\ CallOK(call[k])
      /\ call[k] \in PortalCall /\ call[k].todo \subseteq Portals
  BY DEF TypeInv, PortalTypeOK, CallInv, SoloInv, PortalCall
<1>p. call[k].at \notin {"idle", "next"} => p \in Portals  BY <1>0 DEF CallOK
<1>m. UNCHANGED mounted => Mounted' = Mounted  BY DEF Mounted
<1>c. UNCHANGED <<mounted, call>> => SoloCall(k)'
  <2> SUFFICES ASSUME UNCHANGED <<mounted, call>> PROVE SoloCall(k)'  OBVIOUS
  <2> QED  BY <1>0, <1>m DEF SoloCall
<1>f. Returns(k) \/ Goes(k, "next") => SoloCall(k)'  BY <1>0, SoloCallFree
<1>s. SurfacesAccounted' /\ SoloCall(k)' => SoloInv'  BY DEF SoloInv
<1>w. ASSUME UNCHANGED <<mounted, surfaces>>, NEW q \in Portals, NEW x \in PortalState,
             x.mounted <=> q \in Mounted, Writes(q, x), Returns(k) \/ Goes(k, "next")
      PROVE  SoloInv'
  <2>1. SurfacesAccounted'  BY <1>0, <1>w, AccountsKept
  <2> QED  BY <1>f, <1>s, <1>w, <2>1
<1>1. ASSUME NEW q \in Portals, NEW o \in Objects, Activate(k, q, o)
      PROVE  SoloInv'
  <2>1. /\ Asked(q, o) \in PortalCall /\ Asked(q, o).portal = q
        /\ Asked(q, o).objects[q] # Gone /\ UNCHANGED <<mounted, surfaces>>
    BY <1>1, AskedTyped DEF Activate, Gone
  <2>2. CASE Evict(k, q, "evict", "place", Asked(q, o))  BY <2>1, <2>2, SoloEvict
  <2>3. CASE Place(k, Asked(q, o))  BY <2>1, <2>3, SoloPlace
  <2> QED  BY <1>1, <2>2, <2>3 DEF Activate
<1>2. ASSUME NEW q \in Portals, NEW o \in Objects, ActivateOffscreen(k, q, o)
      PROVE  SoloInv'
  <2>1. CASE q \notin Mounted /\ Writes(q, Off) /\ UNCHANGED call
    <3>1. UNCHANGED <<mounted, surfaces>>  BY <1>2 DEF ActivateOffscreen
    <3>2. SurfacesAccounted'  BY <1>0, <2>1, <3>1, AccountsKept, StatesTyped, WhatSaysMounted
    <3> QED  BY <1>c, <1>s, <2>1, <3>1, <3>2
  <2>2. CASE /\ q \in Mounted /\ UNCHANGED state
             /\ call' = [call EXCEPT ![k] = [Asked(q, o) EXCEPT !.at = "offscreen"]]
    <3> DEFINE x == [Asked(q, o) EXCEPT !.at = "offscreen"]
    <3>1. x.at = "offscreen" /\ x.portal = q /\ x.todo \subseteq Portals
      BY AskedTyped DEF PortalCall
    <3>2. call'[k] = x  BY <1>0, <2>2
    <3> HIDE DEF x
    <3>3. UNCHANGED <<mounted, surfaces>>  BY <1>2 DEF ActivateOffscreen
    <3>4. SoloCall(k)'  BY <1>m, <2>2, <3>1, <3>2, <3>3 DEF SoloCall
    <3> QED  BY <1>0, <1>s, <2>2, <3>3, <3>4, AccountsUntouched
  <2> QED  BY <1>2, <2>1, <2>2 DEF ActivateOffscreen
<1>3. ASSUME NEW x \in PortalCall, x.at = "next", call' = [call EXCEPT ![k] = x],
             UNCHANGED <<mounted, surfaces, state>>
      PROVE  SoloInv'
  <2>1. call'[k] = x  BY <1>0, <1>3
  <2>2. SoloCall(k)'  BY <1>3, <2>1 DEF SoloCall, PortalCall
  <2> QED  BY <1>0, <1>3, <1>s, <2>2, AccountsUntouched
<1>4. ASSUME NEW q \in Portals, Deactivate(k, q)
      PROVE  SoloInv'
  <2> DEFINE x == [NoCall EXCEPT !.at = "next", !.todo = {q}]
  <2>1. x \in PortalCall /\ x.at = "next"  BY NoCallTyped DEF PortalCall
  <2>2. call' = [call EXCEPT ![k] = x] /\ UNCHANGED <<mounted, surfaces, state>>
    BY <1>4 DEF Deactivate
  <2> HIDE DEF x
  <2> QED  BY <1>3, <2>1, <2>2
<1>5. ASSUME NEW objects \in [Portals -> Objects], Sync(k, objects)
      PROVE  SoloInv'
  <2> DEFINE x == [NoCall EXCEPT !.at = "next", !.objects = objects, !.todo = Mounted]
  <2>1. x \in PortalCall /\ x.at = "next"  BY NoCallTyped DEF PortalCall, Mounted
  <2>2. call' = [call EXCEPT ![k] = x] /\ UNCHANGED <<mounted, surfaces, state>>
    BY <1>5 DEF Sync
  <2> HIDE DEF x
  <2> QED  BY <1>3, <2>1, <2>2
<1>6. ASSUME PlaceAfterEviction(k)
      PROVE  SoloInv'
  <2>1. p \in Portals /\ call[k].objects[p] # Gone  BY <1>0, <1>6 DEF PlaceAfterEviction, CallOK
  <2> QED  BY <1>0, <1>6, <2>1, SoloPlace DEF PlaceAfterEviction
<1>7. ASSUME Walk(k)
      PROVE  SoloInv'
  <2>1. CASE VisitNothing(k)
    BY <1>0, <1>f, <1>s, <2>1, AccountsUntouched DEF VisitNothing
  <2> QED  BY <1>7, <2>1, SoloVisit DEF Walk
<1>8. ASSUME Show(k)
      PROVE  SoloInv'
  <2>1. p \in Portals /\ p \in Mounted  BY <1>0, <1>8 DEF Show, CallOK, SoloCall
  <2> QED  BY <1>0, <1>8, <1>w, <2>1, StatesTyped, WhatSaysMounted DEF Show
<1>9. ASSUME UpdateResolves(k)
      PROVE  SoloInv'
  <2>1. p \in Portals /\ p \in Mounted
    BY <1>0, <1>9 DEF UpdateResolves, Awaits, CallOK, SoloCall
  <2> QED  BY <1>0, <1>9, <1>w, <2>1, StatesTyped, WhatSaysMounted DEF UpdateResolves
<1>10. ASSUME SyncResolves(k)
       PROVE  SoloInv'
  <2>1. p \in Portals /\ p \in Mounted /\ UNCHANGED <<mounted, surfaces>>
    BY <1>0, <1>10 DEF SyncResolves, Awaits, CallOK, SoloCall
  <2>2. CASE Goes(k, "next") /\ (Writes(p, Hidden) \/ Writes(p, Shown(p)))
    BY <1>0, <1>w, <2>1, <2>2, StatesTyped, WhatSaysMounted
  <2>3. CASE Evict(k, p, "syncEvict", "show", call[k])  BY <1>0, <2>1, <2>3, SoloEvict
  <2> QED  BY <1>10, <2>2, <2>3 DEF SyncResolves
<1>11. ASSUME MountRejects(k)
       PROVE  SoloInv'
  <2>1. p \in Portals /\ p \notin Mounted
    BY <1>0, <1>11 DEF MountRejects, Awaits, CallOK, SoloCall
  <2>2. mounted' = mounted /\ surfaces' = surfaces
    BY <1>0, <1>11, <2>1 DEF MountRejects, Mounted
  <2> QED  BY <1>11, <1>w, <2>1, <2>2, StatesTyped, WhatSaysMounted DEF MountRejects
<1>12. ASSUME OperationRejects(k)
       PROVE  SoloInv'
  <2>1. p \in Portals /\ p \in Mounted
    BY <1>0, <1>12 DEF OperationRejects, Awaits, CallOK, SoloCall
  <2> QED  BY <1>12, <1>w, <2>1, StatesTyped, WhatSaysMounted DEF OperationRejects
<1>13. ASSUME PassesRejection(k)
       PROVE  SoloInv'
  BY <1>0, <1>13, <1>f, <1>s, AccountsUntouched DEF PassesRejection
<1>14. ASSUME NEW q \in Portals, Interacts(q)
       PROVE  SoloInv'
  <2>1. PICK x \in PortalState : x.mounted = state[q].mounted /\ Writes(q, x)
    <3>1. \A b \in BOOLEAN : /\ [state[q] EXCEPT !.focused = b] \in PortalState
                             /\ [state[q] EXCEPT !.focused = b].mounted = state[q].mounted
      BY <1>0 DEF PortalState
    <3>2. \A o \in Principals \cup {NoOne} :
            /\ [state[q] EXCEPT !.controlOwner = o] \in PortalState
            /\ [state[q] EXCEPT !.controlOwner = o].mounted = state[q].mounted
      BY <1>0 DEF PortalState
    <3> QED  BY <1>14, <3>1, <3>2 DEF Interacts, SetFocused, AcquireControl, GiveUpControl
  <2>2. UNCHANGED <<mounted, surfaces, call>>
    BY <1>14 DEF Interacts, SetFocused, AcquireControl, GiveUpControl
  <2>3. state[q].mounted <=> q \in Mounted  BY <1>0 DEF SurfacesAccounted
  <2>4. SurfacesAccounted'  BY <1>0, <2>1, <2>2, <2>3, AccountsKept
  <2> QED  BY <1>c, <1>s, <2>2, <2>4
<1>15. CASE UNCHANGED portalVars
  BY <1>0, <1>15, <1>c, <1>s, AccountsUntouched DEF portalVars
<1> QED
  BY <1>1, <1>2, <1>4, <1>5, <1>6, <1>7, <1>8, <1>9, <1>10, <1>11, <1>12, <1>13, <1>14, <1>15,
     SoloMount, SoloUnmount DEF PortalNext, Begins, Continues, Resolves, Rejects

\* With one caller, what is awaited is the case in every reachable state.
LEMMA SoloAlways ==
  ASSUME NEW k, Callers = {k}
  PROVE  PortalSpec => [](TypeInv /\ SoloInv /\ InteractionNeedsView)
<1>1. PortalInit => SoloInv
  <2> SUFFICES ASSUME PortalInit PROVE SoloInv  OBVIOUS
  <2>1. Mounted = {} /\ surfaces = {} /\ \A p \in Portals : state[p].mounted = FALSE
    BY WhatSaysMounted DEF PortalInit, Mounted
  <2>2. SurfacesAccounted  BY <2>1 DEF SurfacesAccounted
  <2>3. call[k] = NoCall  BY DEF PortalInit
  <2> QED  BY <2>2, <2>3 DEF SoloInv, SoloCall, NoCall
<1>2. TypeInv /\ SoloInv /\ [PortalNext]_portalVars => SoloInv'  BY SoloNext
<1>3. PortalSpec => []TypeInv  BY TypeInvInit, TypeInvNext, PTL DEF PortalSpec
<1> QED  BY <1>1, <1>2, <1>3, InteractionHolds, PTL DEF PortalSpec

\* If the calls of one caller follow each other, then whatever the hosts reject, the surfaces
\* they keep are exactly those the coordinator knows, and state() says which are mounted.
THEOREM SurfacesStayAccounted ==
  ASSUME NEW k, Callers = {k}
  PROVE  PortalSpec => []SurfacesAccounted
<1>1. SoloInv => SurfacesAccounted  BY DEF SoloInv
<1> QED  BY <1>1, SoloAlways, PTL

\* With one caller a principal that controls a portal controls a surface that exists, whatever
\* the hosts reject.
THEOREM ControlIsOfSurface ==
  ASSUME NEW k, Callers = {k}
  PROVE  PortalSpec => []ControlHasSurface
<1>1. SoloInv /\ InteractionNeedsView => ControlHasSurface
  BY DEF SoloInv, SurfacesAccounted, InteractionNeedsView, ControlHasSurface
<1> QED  BY <1>1, SoloAlways, PTL

\* With one caller control never passes from one resource to another: what is mounted in the
\* place of another resource has no owner.
THEOREM ControlStays ==
  ASSUME NEW k, Callers = {k}
  PROVE  PortalSpec => ControlStaysWithResource
<1> DEFINE Kept == \A p \in Portals :
      mounted'[p] \notin {Nothing, mounted[p]} => state'[p].controlOwner = NoOne
<1>1. TypeInv /\ SoloInv /\ InteractionNeedsView /\ [PortalNext]_portalVars => [Kept]_portalVars
  <2> SUFFICES ASSUME TypeInv, SoloInv, InteractionNeedsView, PortalNext, NEW p \in Portals,
                      mounted'[p] \notin {Nothing, mounted[p]}
               PROVE  state'[p].controlOwner = NoOne
    OBVIOUS
  <2>0. /\ state \in [Portals -> PortalState] /\ mounted \in [Portals -> Resources \cup {Nothing}]
        /\ SurfacesAccounted /\ SoloCall(k) /\ CallOK(call[k])
    BY DEF TypeInv, PortalTypeOK, CallInv, SoloInv
  <2>1. ~ UNCHANGED mounted  OBVIOUS
  <2>2. MountResolves(k)
    <3>1. ~ (Begins(k) \/ Continues(k))
      BY <2>1 DEF Begins, Activate, ActivateOffscreen, Deactivate, Sync, Continues,
                  PlaceAfterEviction, Walk, VisitNothing, Visit, Show
    <3>2. ~ UnmountResolves(k)  BY <2>0 DEF UnmountResolves
    <3>3. ~ (UpdateResolves(k) \/ SyncResolves(k))  BY <2>1 DEF UpdateResolves, SyncResolves
    <3>4. ~ Rejects(k)
      BY <2>0, <2>1 DEF Rejects, MountRejects, OperationRejects, PassesRejection
    <3>5. \A q \in Portals : ~ Interacts(q)
      BY <2>1 DEF Interacts, SetFocused, AcquireControl, GiveUpControl
    <3> QED  BY <3>1, <3>2, <3>3, <3>4, <3>5 DEF PortalNext, Resolves
  <2>3. p = call[k].portal /\ p \notin Mounted
    BY <2>0, <2>2 DEF MountResolves, Awaits, SoloCall, CallOK
  <2>4. state[p].controlOwner = NoOne
    BY <2>0, <2>3 DEF SurfacesAccounted, InteractionNeedsView
  <2>5. Fresh.controlOwner = NoOne /\ Shown(p).controlOwner = state[p].controlOwner
    BY <2>0 DEF Fresh, Written, Shown, PortalState
  <2> QED  BY <2>0, <2>2, <2>3, <2>4, <2>5 DEF MountResolves, Writes
<1> QED  BY <1>1, SoloAlways, PTL DEF PortalSpec, ControlStaysWithResource

----------------------------------------------------------------------------
(* One caller, until a host rejects: the budget bounds what is live.       *)

\* What a write shows or hides.
LEMMA VisibleAfter ==
  ASSUME TypeInv, NEW p \in Portals, NEW x \in PortalState, Writes(p, x)
  PROVE  Visible' = IF x.visible THEN Visible \cup {p} ELSE Visible \ {p}
<1>1. state' = [state EXCEPT ![p] = x] /\ state \in [Portals -> PortalState]
  BY DEF TypeInv, PortalTypeOK, Writes
<1> QED  BY <1>1 DEF Visible

\* An eviction that begins between calls asks to unmount a surface that can be seen.
LEMMA InViewEvict ==
  ASSUME TypeInv, InViewInv, Visible = ToSet(active), NEW k, Callers = {k},
         NEW p \in Portals, NEW r \in PortalCall, r.portal = p,
         NEW at \in {"evict", "syncEvict"}, NEW after,
         Evict(k, p, at, after, r), UNCHANGED mounted
  PROVE  InViewInv'
<1> DEFINE v == Victim(p)
           x == [r EXCEPT !.at = at, !.surface = <<v, mounted[v]>>]
<1>0. BudgetInv /\ call \in [Callers -> PortalCall] /\ Mounted' = Mounted
  BY DEF TypeInv, PortalTypeOK, BudgetInv, Mounted
<1>1. v \in ToSet(active) \ {p} /\ ToSet(active') = (ToSet(active) \cup {p}) \ {v}
  BY <1>0, PortalActivated DEF Evict
<1>2. v \in Mounted  BY <1>1 DEF InViewInv
<1>3. call' = [call EXCEPT ![k] = x] /\ UNCHANGED state  BY <1>2 DEF Evict
<1>4. call'[k] = x /\ Visible' = Visible  BY <1>0, <1>3 DEF Visible
<1>5. x.at = at /\ x.portal = p /\ x.surface = <<v, mounted[v]>>  BY DEF PortalCall
<1>6. x.surface[1] = v  BY <1>5
<1> HIDE DEF x, v
<1>7. BudgetCall(k)'  BY <1>1, <1>4, <1>5, <1>6 DEF BudgetCall
<1> QED  BY <1>0, <1>4, <1>7 DEF InViewInv

\* A surface that is about to be placed is the one that the budget has and the view has not.
LEMMA InViewPlace ==
  ASSUME TypeInv, InViewInv, NEW k, Callers = {k}, NEW r \in PortalCall, r.portal \in Portals,
         r.objects[r.portal] # Gone, Place(k, r), UNCHANGED mounted,
         Visible \cup {r.portal} = ToSet(active')
  PROVE  InViewInv'
<1> DEFINE p == r.portal
           shows == r.objects[p].shows
           a == [r EXCEPT !.at = "mount", !.surface = <<p, shows>>]
           b == [r EXCEPT !.at = "replace", !.surface = <<p, mounted[p]>>]
           d == [r EXCEPT !.at = "update"]
<1>0. call \in [Callers -> PortalCall] /\ Mounted' = Mounted /\ Visible \subseteq Mounted
  BY DEF TypeInv, PortalTypeOK, Mounted, InViewInv
<1>1. CASE UNCHANGED state /\ call' = [call EXCEPT ![k] = a]
  <2>1. call'[k] = a /\ Visible' = Visible  BY <1>0, <1>1 DEF Visible
  <2>2. a.at = "mount" /\ a.portal = p  BY DEF PortalCall
  <2> HIDE DEF a
  <2> QED  BY <1>0, <2>1, <2>2 DEF InViewInv, BudgetCall
<1>2. CASE p \in Mounted /\ Writes(p, Fresh) /\ call' = [call EXCEPT ![k] = b]
  <2>1. call'[k] = b  BY <1>0, <1>2
  <2>2. b.at = "replace" /\ b.portal = p  BY DEF PortalCall
  <2>3. Visible' = Visible \cup {p}  BY <1>2, VisibleAfter, StatesTyped, WhatSaysMounted
  <2> HIDE DEF b
  <2>4. BudgetCall(k)'  BY <2>1, <2>2, <2>3 DEF BudgetCall
  <2>5. Visible' \subseteq Mounted'  BY <1>0, <1>2, <2>3
  <2> QED  BY <2>4, <2>5 DEF InViewInv
<1>3. CASE UNCHANGED state /\ call' = [call EXCEPT ![k] = d]
  <2>1. call'[k] = d /\ Visible' = Visible  BY <1>0, <1>3 DEF Visible
  <2>2. d.at = "update" /\ d.portal = p  BY DEF PortalCall
  <2> HIDE DEF d
  <2> QED  BY <1>0, <2>1, <2>2 DEF InViewInv, BudgetCall
<1> QED  BY <1>1, <1>2, <1>3 DEF Place

\* Every step of the only caller keeps the view and the budget together, unless a host rejects.
LEMMA InViewNext ==
  ASSUME TypeInv, SoloInv, InViewInv, NEW k, Callers = {k}, ~rejected', [PortalNext]_portalVars
  PROVE  InViewInv'
<1> DEFINE p == call[k].portal
           v == call[k].surface[1]
           at == call[k].at
<1>0. /\ state \in [Portals -> PortalState] /\ call \in [Callers -> PortalCall]
      /\ mounted \in [Portals -> Resources \cup {Nothing}]
      /\ SoloCall(k) /\ CallOK(call[k]) /\ BudgetCall(k) /\ BudgetInv
      /\ call[k] \in PortalCall /\ Visible \subseteq Mounted
  BY DEF TypeInv, PortalTypeOK, CallInv, SoloInv, InViewInv, BudgetInv
<1>p. at \notin {"idle", "next"} => p \in Portals  BY <1>0 DEF CallOK
<1>m. UNCHANGED mounted => Mounted' = Mounted  BY DEF Mounted
<1>v. UNCHANGED state => Visible' = Visible  BY DEF Visible
<1>t. \A q \in Portals : ToSet(Without(q)) = ToSet(active) \ {q}  BY <1>0, WithoutPortal
<1>i. at = "idle" => Visible = ToSet(active)  BY <1>0 DEF BudgetCall
\* A call that visits the next portal, or returns, leaves the view equal to the budget.
<1>f. ASSUME Returns(k) \/ Goes(k, "next") \/ (UNCHANGED call /\ at = "idle"),
             Visible' = ToSet(active'), Visible' \subseteq Mounted'
      PROVE  InViewInv'
  <2>1. call'[k].at \in {"idle", "next"}
    BY <1>0, <1>f DEF Returns, Goes, NoCall, PortalCall
  <2>2. BudgetCall(k)'  BY <1>f, <2>1 DEF BudgetCall
  <2> QED  BY <1>f, <2>2 DEF InViewInv
<1>1. ASSUME NEW q \in Portals, NEW o \in Objects, Activate(k, q, o)
      PROVE  InViewInv'
  <2>1. /\ Asked(q, o) \in PortalCall /\ Asked(q, o).portal = q
        /\ Asked(q, o).objects[q] # Gone /\ UNCHANGED mounted /\ Visible = ToSet(active)
    BY <1>1, <1>i, AskedTyped DEF Activate, Gone, Awaits
  <2>2. CASE Evict(k, q, "evict", "place", Asked(q, o))  BY <2>1, <2>2, InViewEvict
  <2>3. CASE ~Evicts(q) /\ active' = Activated(q) /\ Place(k, Asked(q, o))
    <3>1. ToSet(active') = Visible \cup {q}  BY <1>0, <2>1, <2>3, PortalActivated
    <3> QED  BY <2>1, <2>3, <3>1, InViewPlace
  <2> QED  BY <1>1, <2>2, <2>3 DEF Activate
<1>2. ASSUME NEW x \in PortalCall, x.at \in {"offscreen", "next"}, at = "idle",
             call' = [call EXCEPT ![k] = x], UNCHANGED <<active, mounted, state>>
      PROVE  InViewInv'
  <2>1. call'[k] = x  BY <1>0, <1>2
  <2>2. BudgetCall(k)'  BY <1>2, <1>i, <1>v, <2>1 DEF BudgetCall
  <2> QED  BY <1>0, <1>2, <1>m, <1>v, <2>2 DEF InViewInv
<1>3. ASSUME NEW q \in Portals, NEW o \in Objects, ActivateOffscreen(k, q, o)
      PROVE  InViewInv'
  <2>0. at = "idle" /\ UNCHANGED mounted  BY <1>3 DEF ActivateOffscreen, Awaits
  <2>1. CASE q \notin Mounted /\ active' = Without(q) /\ Writes(q, Off) /\ UNCHANGED call
    <3>1. Visible' = Visible \ {q}  BY <2>1, VisibleAfter, StatesTyped, WhatSaysMounted
    <3> QED  BY <1>0, <1>f, <1>i, <1>m, <1>t, <2>0, <2>1, <3>1
  <2>2. CASE /\ UNCHANGED <<active, state>>
             /\ call' = [call EXCEPT ![k] = [Asked(q, o) EXCEPT !.at = "offscreen"]]
    <3> DEFINE x == [Asked(q, o) EXCEPT !.at = "offscreen"]
    <3>0. Asked(q, o) \in PortalCall  BY AskedTyped
    <3>1. x \in PortalCall /\ x.at = "offscreen"  BY <3>0 DEF PortalCall
    <3> HIDE DEF x
    <3>2. call' = [call EXCEPT ![k] = x]  BY <2>2 DEF x
    <3> QED  BY <1>2, <2>0, <2>2, <3>1, <3>2
  <2> QED  BY <1>3, <2>1, <2>2 DEF ActivateOffscreen
<1>4. ASSUME NEW q \in Portals, Deactivate(k, q)
      PROVE  InViewInv'
  <2> DEFINE x == [NoCall EXCEPT !.at = "next", !.todo = {q}]
  <2>1. x \in PortalCall /\ x.at = "next"  BY NoCallTyped DEF PortalCall
  <2>2. call' = [call EXCEPT ![k] = x] /\ at = "idle" /\ UNCHANGED <<active, mounted, state>>
    BY <1>4 DEF Deactivate, Awaits
  <2> HIDE DEF x
  <2> QED  BY <1>2, <2>1, <2>2
<1>5. ASSUME NEW objects \in [Portals -> Objects], Sync(k, objects)
      PROVE  InViewInv'
  <2> DEFINE x == [NoCall EXCEPT !.at = "next", !.objects = objects, !.todo = Mounted]
  <2>1. x \in PortalCall /\ x.at = "next"  BY NoCallTyped DEF PortalCall, Mounted
  <2>2. call' = [call EXCEPT ![k] = x] /\ at = "idle" /\ UNCHANGED <<active, mounted, state>>
    BY <1>5 DEF Sync, Awaits
  <2> HIDE DEF x
  <2> QED  BY <1>2, <2>1, <2>2
<1>6. ASSUME PlaceAfterEviction(k)
      PROVE  InViewInv'
  <2>1. p \in Portals /\ call[k].objects[p] # Gone /\ Visible \cup {p} = ToSet(active)
    BY <1>0, <1>6 DEF PlaceAfterEviction, CallOK, BudgetCall
  <2> QED  BY <1>0, <1>6, <2>1, InViewPlace DEF PlaceAfterEviction
<1>7. ASSUME NEW q \in Portals, Visit(k, q), at = "next"
      PROVE  InViewInv'
  <2> DEFINE r == [call[k] EXCEPT !.portal = q, !.todo = @ \ {q}]
             x == [r EXCEPT !.at = "leave", !.surface = <<q, mounted[q]>>]
             y(s) == [r EXCEPT !.at = s]
  <2>0. Visible = ToSet(active) /\ Mounted' = Mounted /\ Visible' = Visible
    BY <1>0, <1>7, <1>m, <1>v DEF BudgetCall, Visit
  <2>1. \/ active' = Without(q) /\ call' = [call EXCEPT ![k] = x]
        \/ q \notin Mounted /\ active' = Without(q) /\ call' = [call EXCEPT ![k] = y("next")]
        \/ active' = active /\ call' \in {[call EXCEPT ![k] = y("next")], [call EXCEPT ![k] = y("sync")]}
    BY <1>7 DEF Visit
  <2>2. x.at = "leave" /\ x.portal = q  BY <1>0 DEF PortalCall
  <2>3. y("next").at = "next" /\ y("sync").at = "sync"  BY <1>0 DEF PortalCall
  <2> HIDE DEF x, y
  <2>4. BudgetCall(k)'
    <3>1. CASE active' = Without(q) /\ call'[k] = x  BY <1>t, <2>0, <2>2, <3>1 DEF BudgetCall
    <3>2. CASE q \notin Mounted /\ active' = Without(q) /\ call'[k] = y("next")
      BY <1>0, <1>t, <2>0, <2>3, <3>2 DEF BudgetCall
    <3>3. CASE active' = active /\ call'[k] \in {y("next"), y("sync")}
      BY <2>0, <2>3, <3>3 DEF BudgetCall
    <3> QED  BY <1>0, <2>1, <3>1, <3>2, <3>3
  <2> QED  BY <1>0, <2>0, <2>4 DEF InViewInv
<1>8. ASSUME Walk(k)
      PROVE  InViewInv'
  <2>1. CASE VisitNothing(k)
    BY <1>0, <1>8, <1>f, <1>m, <1>v, <2>1 DEF Walk, VisitNothing, BudgetCall
  <2> QED  BY <1>8, <1>7, <2>1 DEF Walk
<1>9. ASSUME p \in Mounted, p \in Portals, Writes(p, Shown(p)), UNCHANGED mounted,
             Returns(k) \/ Goes(k, "next"), Visible \cup {p} = ToSet(active')
      PROVE  InViewInv'
  <2>1. Visible' = Visible \cup {p}  BY <1>0, <1>9, VisibleAfter, StatesTyped, WhatSaysMounted
  <2> QED  BY <1>0, <1>9, <1>f, <1>m, <2>1
<1>10. ASSUME p \in Portals, Writes(p, Hidden), UNCHANGED mounted, active' = Without(p),
              Returns(k) \/ Goes(k, "next"), Visible = ToSet(active)
       PROVE  InViewInv'
  <2>1. Visible' = Visible \ {p}  BY <1>10, VisibleAfter, StatesTyped, WhatSaysMounted
  <2> QED  BY <1>0, <1>10, <1>f, <1>m, <1>t, <2>1
<1>11. ASSUME Show(k)
       PROVE  InViewInv'
  <2>1. p \in Portals /\ p \in Mounted /\ Visible \cup {p} = ToSet(active)
    BY <1>0, <1>11 DEF Show, CallOK, SoloCall, BudgetCall
  <2> QED  BY <1>9, <1>11, <2>1 DEF Show
<1>12. ASSUME UpdateResolves(k)
       PROVE  InViewInv'
  <2>1. p \in Portals /\ p \in Mounted
    BY <1>0, <1>12 DEF UpdateResolves, Awaits, CallOK, SoloCall
  <2>2. CASE at = "update" /\ Writes(p, Shown(p)) /\ Returns(k) /\ UNCHANGED <<active, mounted>>
    <3>1. Visible \cup {p} = ToSet(active)  BY <1>0, <2>2 DEF BudgetCall
    <3> QED  BY <1>9, <2>1, <2>2, <3>1
  <2>3. CASE at = "offscreen" /\ active' = Without(p) /\ Writes(p, Hidden) /\ Returns(k)
             /\ UNCHANGED mounted
    <3>1. Visible = ToSet(active)  BY <1>0, <2>3 DEF BudgetCall
    <3> QED  BY <1>10, <2>1, <2>3, <3>1
  <2> QED  BY <1>12, <2>2, <2>3 DEF UpdateResolves, Awaits
<1>13. ASSUME SyncResolves(k)
       PROVE  InViewInv'
  <2>1. /\ p \in Portals /\ p \in Mounted /\ UNCHANGED mounted /\ Visible = ToSet(active)
    BY <1>0, <1>13 DEF SyncResolves, Awaits, CallOK, SoloCall, BudgetCall
  <2>2. CASE active' = Without(p) /\ Writes(p, Hidden) /\ Goes(k, "next")
    BY <1>10, <2>1, <2>2
  <2>3. CASE /\ Contains(active, p) \/ ~Evicts(p)
             /\ active' = IF Contains(active, p) THEN active ELSE Activated(p)
             /\ Writes(p, Shown(p)) /\ Goes(k, "next")
    <3>1. Contains(active, p) => p \in ToSet(active)
      BY <1>0, LenProperties DEF Contains, ToSet, BudgetInv
    <3>2. Visible \cup {p} = ToSet(active')  BY <1>0, <2>1, <2>3, <3>1, PortalActivated
    <3> QED  BY <1>9, <2>1, <2>3, <3>2
  <2>4. CASE Evict(k, p, "syncEvict", "show", call[k])
    BY <1>0, <2>1, <2>4, InViewEvict
  <2> QED  BY <1>13, <2>2, <2>3, <2>4 DEF SyncResolves
<1>14. ASSUME MountResolves(k)
       PROVE  InViewInv'
  <2> DEFINE s == call[k].surface[2]
  <2>1. p \in Portals /\ s # Nothing /\ at = "mount" /\ Visible \cup {p} = ToSet(active)
    BY <1>0, <1>14, PortalConstants DEF MountResolves, Awaits, CallOK, BudgetCall
  <2>2. mounted' = [mounted EXCEPT ![p] = s] /\ Returns(k) /\ active' = active
    BY <1>14 DEF MountResolves
  <2>3. Writes(p, Fresh) \/ Writes(p, Shown(p))  BY <1>14 DEF MountResolves
  <2>4. Visible' = Visible \cup {p}
    BY <1>0, <2>1, <2>3, VisibleAfter, StatesTyped, WhatSaysMounted
  <2>5. Mounted' = Mounted \cup {p}  BY <1>0, <2>1, <2>2 DEF Mounted
  <2> QED  BY <1>0, <1>f, <2>1, <2>2, <2>4, <2>5
<1>15. ASSUME UnmountResolves(k)
       PROVE  InViewInv'
  <2> DEFINE x == [call[k] EXCEPT !.at = "mount", !.fresh = TRUE,
                                  !.surface = <<v, call[k].objects[v].shows>>]
  <2>0. at \in {"evict", "syncEvict", "leave", "replace"} /\ v \in Portals /\ p \in Portals
    BY <1>0, <1>15 DEF UnmountResolves, Awaits, CallOK
  <2>1. mounted' = [mounted EXCEPT ![v] = Nothing] /\ Writes(v, Off) /\ active' = active
    BY <1>15 DEF UnmountResolves, AfterUnmount
  <2>2. Mounted' = Mounted \ {v}  BY <1>0, <2>0, <2>1 DEF Mounted
  <2>3. Visible' = Visible \ {v}  BY <2>0, <2>1, VisibleAfter, StatesTyped, WhatSaysMounted
  <2>4. CASE at \in {"evict", "syncEvict"}
    <3>1. Goes(k, "place") \/ Goes(k, "show")  BY <1>15, <2>4 DEF UnmountResolves
    <3>2. call'[k].at \in {"place", "show"} /\ call'[k].portal = p
      BY <1>0, <3>1 DEF Goes, PortalCall
    <3>3. v # p /\ (Visible \cup {p}) \ {v} = ToSet(active)
      BY <1>0, <2>4 DEF SoloCall, BudgetCall
    <3> HIDE DEF v, p
    <3>4. BudgetCall(k)'  BY <2>1, <2>3, <3>2, <3>3 DEF BudgetCall
    <3> QED  BY <1>0, <2>2, <2>3, <3>4 DEF InViewInv
  <2>5. CASE at = "leave"
    <3>1. Goes(k, "next")  BY <1>15, <2>5 DEF UnmountResolves
    <3>2. v = p /\ Visible \ {p} = ToSet(active)  BY <1>0, <2>5 DEF CallOK, BudgetCall
    <3> QED  BY <1>0, <1>f, <2>1, <2>2, <2>3, <3>1, <3>2
  <2>6. CASE at = "replace"
    <3>1. call' = [call EXCEPT ![k] = x]  BY <1>15, <2>6 DEF UnmountResolves, Goes
    <3>2. call'[k] = x  BY <1>0, <3>1
    <3>3. x.at = "mount" /\ x.portal = p  BY <1>0 DEF PortalCall
    <3>4. v = p /\ Visible \cup {p} = ToSet(active)  BY <1>0, <2>6 DEF CallOK, BudgetCall
    <3> HIDE DEF x, v, p
    <3>5. BudgetCall(k)'  BY <2>1, <2>3, <3>2, <3>3, <3>4 DEF BudgetCall
    <3> QED  BY <1>0, <2>2, <2>3, <3>5 DEF InViewInv
  <2> QED  BY <2>0, <2>4, <2>5, <2>6
<1>16. ASSUME UNCHANGED <<active, mounted, call>>,
              \A q \in Portals : state'[q].visible = state[q].visible
       PROVE  InViewInv'
  <2>1. Visible' = Visible /\ Mounted' = Mounted  BY <1>16, <1>m DEF Visible
  <2>2. BudgetCall(k)'  BY <1>0, <1>16, <2>1 DEF BudgetCall
  <2> QED  BY <1>0, <2>1, <2>2 DEF InViewInv
<1>17. ASSUME NEW q \in Portals, Interacts(q)
       PROVE  InViewInv'
  <2>1. \A m \in Portals : state'[m].visible = state[m].visible
    BY <1>0, <1>17 DEF Interacts, SetFocused, AcquireControl, GiveUpControl, Writes, PortalState
  <2> QED  BY <1>16, <1>17, <2>1 DEF Interacts, SetFocused, AcquireControl, GiveUpControl
<1>18. CASE UNCHANGED portalVars  BY <1>16, <1>18 DEF portalVars
<1> QED
  BY <1>1, <1>3, <1>4, <1>5, <1>6, <1>8, <1>11, <1>12, <1>13, <1>14, <1>15, <1>17, <1>18
     DEF PortalNext, Begins, Continues, Resolves, Rejects

\* With one caller, until a host rejects, the view is that of the budget and is mounted.
LEMMA InViewAlways ==
  ASSUME NEW k, Callers = {k}
  PROVE  PortalSpec => [](TypeInv /\ (~rejected => InViewInv))
<1>1. PortalInit => InViewInv
  <2> SUFFICES ASSUME PortalInit PROVE InViewInv  OBVIOUS
  <2>1. Visible = {}  BY WhatSaysMounted DEF PortalInit, Visible
  <2>2. active = <<>> /\ ToSet(active) = {}  BY DEF PortalInit, ToSet
  <2>3. call[k] = NoCall  BY DEF PortalInit
  <2> QED  BY <2>1, <2>2, <2>3 DEF InViewInv, BudgetCall, NoCall
<1>2. /\ TypeInv /\ SoloInv /\ (~rejected => InViewInv)
      /\ [PortalNext]_portalVars
      => (~rejected => InViewInv)'
  <2> SUFFICES ASSUME TypeInv, SoloInv, ~rejected => InViewInv, [PortalNext]_portalVars, ~rejected'
               PROVE  InViewInv'
    OBVIOUS
  <2>1. ~rejected  BY DEF PortalNext, portalVars
  <2> QED  BY <2>1, InViewNext
<1> QED  BY <1>1, <1>2, SoloAlways, PTL DEF PortalSpec

\* With one caller, until a host rejects, what can be seen between calls is what the budget
\* lists.
THEOREM ViewIsBudget ==
  ASSUME NEW k, Callers = {k}
  PROVE  PortalSpec => []VisibleIsActive
<1>1. (~rejected => InViewInv) => VisibleIsActive
  BY DEF InViewInv, BudgetCall, VisibleIsActive, Quiet
<1> QED  BY <1>1, InViewAlways, PTL

\* With one caller, until a host rejects, at most as many surfaces as the limit allows are
\* live and in view between calls.
THEOREM ViewWithinBudget ==
  ASSUME NEW k, Callers = {k}
  PROVE  PortalSpec => []VisibleWithinBudget
<1>1. ASSUME TypeInv, InViewInv, Quiet
      PROVE  Cardinality(Visible \cap Mounted) <= Limit
  <2>1. Visible \cap Mounted = ToSet(active)
    BY <1>1 DEF InViewInv, BudgetCall, Quiet
  <2>2. Len(active) \in Nat /\ DOMAIN active = 1..Len(active) /\ Len(active) <= Limit
    BY <1>1, LenProperties DEF TypeInv, PortalTypeOK
  <2>3. IsFiniteSet(1..Len(active)) /\ Cardinality(1..Len(active)) = Len(active)
    <3>1. ASSUME NEW n \in Nat  PROVE IsFiniteSet(1..n) /\ Cardinality(1..n) = n
      <4>1. IsFiniteSet(1..n) /\ Cardinality(1..n) = IF 1 > n THEN 0 ELSE n - 1 + 1
        BY FS_Interval
      <4> QED  BY <4>1
    <3> QED  BY <2>2, <3>1
  <2>4. active \in Surjection(1..Len(active), ToSet(active))
    <3>1. active \in [1..Len(active) -> ToSet(active)]
      BY <1>1, <2>2 DEF ToSet, TypeInv, PortalTypeOK
    <3> QED  BY <2>2, <3>1 DEF Surjection, ToSet
  <2>5. IsFiniteSet(ToSet(active)) /\ Cardinality(ToSet(active)) <= Len(active)
    BY <2>3, <2>4, FS_Surjection
  <2>6. Cardinality(ToSet(active)) \in Nat  BY <2>5, FS_CardinalityType
  <2>7. ASSUME NEW i \in Nat, NEW j \in Nat, i <= j, j <= Limit  PROVE i <= Limit
    BY <2>7, PortalConstants
  <2>8. Cardinality(ToSet(active)) <= Limit  BY <2>2, <2>3, <2>5, <2>6, <2>7
  <2> QED  BY <2>1, <2>8
<1>2. TypeInv /\ (~rejected => InViewInv) => VisibleWithinBudget
  BY <1>1 DEF VisibleWithinBudget, LiveWithinLimit
<1> QED  BY <1>2, InViewAlways, PTL
=============================================================================
