------------------------ MODULE HdsrcRuntimeManager ------------------------
(* The manager that starts, shares, replaces and stops the HDSRC child       *)
(* process (provider-hdsrc/src/runtime-manager.ts), with the client of the   *)
(* process (process-client.ts) and the provider around it (local-process.ts).*)
(*                                                                           *)
(* JavaScript runs the continuations of settled promises before the next     *)
(* event of the process, a timer or a file: the actions that are events      *)
(* wait until the continuations are Drained. Callers may call, discover and  *)
(* stop at any time, also between two continuations. The processes are       *)
(* numbered 1, 2, 3, ... in the order of their creation, and 0 is none. An   *)
(* operation that preauthorize refuses touches nothing and is left out.      *)
EXTENDS Integers, FiniteSets

CONSTANTS Ops,   \* the operations callers ask for, one call each
          Safe,  \* those that #runSafe runs; the others materialize
          Bad    \* those whose arguments the provider itself refuses

ASSUME ManagerConstants ==
  /\ IsFiniteSet(Ops)
  /\ Safe \subseteq Ops
  /\ Bad \subseteq Safe

VARIABLES mstate,        \* #state
          descriptor,    \* #descriptor is set
          discovery,     \* #discoveryPromise is pending
          startPromise,  \* #startPromise: none, begun (no process yet) or spawned
          current,       \* #provider
          epoch,         \* #runtimeEpoch
          spawned,       \* the number of processes created so far
          open,          \* the processes whose client is not #closed
          op             \* the calls

managerVars == <<mstate, descriptor, discovery, startPromise, current, epoch, spawned, open, op>>

Origins == {"transport", "contract", "remote_domain"}

\* A call: where it is, the process it was given last, its attempt, the origin of its
\* failure and the number of times its request was written to a process.
CallRecord ==
  [at : {"idle", "waiting", "granted", "running", "failed", "done", "error"},
   on : Nat, attempt : 1..2, why : Origins, sent : Nat]

NewCall == [at |-> "idle", on |-> 0, attempt |-> 1, why |-> "contract", sent |-> 0]

ManagerInit ==
  /\ mstate = "undiscovered" /\ descriptor = FALSE /\ discovery = FALSE /\ startPromise = "none"
  /\ current = 0 /\ epoch = 0 /\ spawned = 0 /\ open = {}
  /\ op = [o \in Ops |-> NewCall]

Waiters == {o \in Ops : op[o].at = "waiting"}
Running == {o \in Ops : op[o].at = "running"}

\* No continuation is outstanding: the next event may be delivered.
Drained ==
  /\ \A o \in Ops : op[o].at \notin {"granted", "failed"}
  /\ ~discovery
  /\ startPromise # "begun"

\* The promises of the calls in S reject with an error of this origin.
Failing(S, why) ==
  [o \in Ops |-> IF o \in S THEN [op[o] EXCEPT !.at = "failed", !.why = why] ELSE op[o]]

----------------------------------------------------------------------------
(* A call obtains a process: #providerForOperation and #start.             *)

\* Mutant of Join: a start that is under way is not shared.
JoinUnshared(f, o, n) ==
  /\ op' = [f EXCEPT ![o].at = "waiting", ![o].attempt = n]
  /\ startPromise' = "begun"
  /\ discovery' = (discovery \/ ~descriptor)

\* Call o awaits the start under way, or begins one, which begins a discovery if none is
\* known or pending.
Join(f, o, n) ==
  /\ op' = [f EXCEPT ![o].at = "waiting", ![o].attempt = n]
  /\ startPromise' = IF startPromise = "none" THEN "begun" ELSE startPromise
  /\ discovery' = (discovery \/ (startPromise = "none" /\ ~descriptor))

Call(o) ==
  /\ op[o].at = "idle"
  /\ \/ /\ mstate = "stopped"
        /\ op' = [op EXCEPT ![o].at = "error"]
        /\ UNCHANGED <<startPromise, discovery>>
     \/ /\ mstate = "ready" /\ current # 0
        /\ op' = [op EXCEPT ![o].at = "granted", ![o].on = current]
        /\ UNCHANGED <<startPromise, discovery>>
     \/ /\ mstate # "stopped" /\ ~(mstate = "ready" /\ current # 0)
        /\ Join(op, o, 1)
  /\ UNCHANGED <<mstate, descriptor, current, epoch, spawned, open>>

\* discover() called by itself.
Discover ==
  /\ mstate # "stopped" /\ ~descriptor
  /\ discovery' = TRUE
  /\ UNCHANGED <<mstate, descriptor, startPromise, current, epoch, spawned, open, op>>

\* The binding was read and is valid.
Discovered ==
  /\ discovery /\ mstate # "stopped"
  /\ discovery' = FALSE /\ descriptor' = TRUE /\ mstate' = "discovered"
  /\ UNCHANGED <<startPromise, current, epoch, spawned, open, op>>

\* There is no valid binding, or the manager was stopped.
DiscoveryFails ==
  /\ discovery
  /\ discovery' = FALSE
  /\ startPromise' = "none"
  /\ op' = Failing(Waiters, "contract")
  /\ UNCHANGED <<mstate, descriptor, current, epoch, spawned, open>>

\* The start goes on after discovery, which is no event once the descriptor is known.
Spawn ==
  /\ startPromise = "begun" /\ descriptor /\ mstate # "stopped"
  /\ mstate' = "starting"
  /\ startPromise' = "spawned"
  /\ spawned' = spawned + 1
  /\ open' = open \cup {spawned + 1}
  /\ UNCHANGED <<descriptor, discovery, current, epoch, op>>

\* The manager was stopped, or the factory of the provider throws.
SpawnThrows ==
  /\ startPromise = "begun" /\ descriptor
  /\ startPromise' = "none"
  /\ op' = Failing(Waiters, "contract")
  /\ mstate' = IF mstate = "stopped" THEN mstate ELSE "starting"
  /\ UNCHANGED <<descriptor, discovery, current, epoch, spawned, open>>

\* Mutant of Started: a start that stop() has overtaken does not close its process.
StartedUnclosed ==
  /\ Drained /\ startPromise = "spawned" /\ spawned \in open
  /\ startPromise' = "none"
  /\ \/ /\ mstate = "stopped"
        /\ op' = Failing(Waiters, "contract")
        /\ UNCHANGED <<mstate, current, epoch, open>>
     \/ /\ mstate # "stopped"
        /\ current' = spawned /\ epoch' = epoch + 1 /\ mstate' = "ready"
        /\ op' = [o \in Ops |-> IF o \in Waiters
                                  THEN [op[o] EXCEPT !.at = "granted", !.on = spawned]
                                  ELSE op[o]]
        /\ open' = open
  /\ UNCHANGED <<descriptor, discovery, spawned>>

\* The new process has answered initialize and capabilities.
Started ==
  /\ Drained /\ startPromise = "spawned" /\ spawned \in open
  /\ startPromise' = "none"
  /\ \/ /\ mstate = "stopped"
        /\ open' = open \ {spawned}
        /\ op' = Failing(Waiters, "contract")
        /\ UNCHANGED <<mstate, current, epoch>>
     \/ /\ mstate # "stopped"
        /\ current' = spawned /\ epoch' = epoch + 1 /\ mstate' = "ready"
        /\ op' = [o \in Ops |-> IF o \in Waiters
                                  THEN [op[o] EXCEPT !.at = "granted", !.on = spawned]
                                  ELSE op[o]]
        /\ open' = open
  /\ UNCHANGED <<descriptor, discovery, spawned>>

\* The new process exits, times out (transport), answers what it must not (contract) or
\* refuses (remote_domain).
StartFails(why) ==
  /\ Drained /\ startPromise = "spawned"
  /\ startPromise' = "none"
  /\ open' = open \ {spawned}
  /\ mstate' = IF mstate = "stopped" THEN mstate ELSE "degraded"
  /\ op' = Failing(Waiters, why)
  /\ UNCHANGED <<descriptor, discovery, current, epoch, spawned>>

----------------------------------------------------------------------------
(* The request: the provider, its client and the process.                  *)

\* The provider checks its arguments and writes the request, unless its client is closed.
Invoke(o) ==
  /\ op[o].at = "granted"
  /\ \/ /\ o \in Bad
        /\ op' = Failing({o}, "contract")
     \/ /\ o \notin Bad /\ op[o].on \in open
        /\ op' = [op EXCEPT ![o].at = "running", ![o].sent = @ + 1]
     \/ /\ o \notin Bad /\ op[o].on \notin open
        /\ op' = Failing({o}, "transport")
  /\ UNCHANGED <<mstate, descriptor, discovery, startPromise, current, epoch, spawned, open>>

\* One chunk of output answers the calls in S, before any of their continuations runs:
\* with a result, an error of the domain, or a payload that fails its assertion.
Answers(S, failed, broken) ==
  /\ Drained /\ current \in open
  /\ S \subseteq Running /\ S # {} /\ failed \subseteq S /\ broken \subseteq failed
  /\ op' = [o \in Ops |->
              CASE o \in broken -> [op[o] EXCEPT !.at = "failed", !.why = "contract"]
                [] o \in failed \ broken -> [op[o] EXCEPT !.at = "failed", !.why = "remote_domain"]
                [] o \in S \ failed -> [op[o] EXCEPT !.at = "done"]
                [] OTHER -> op[o]]
  /\ UNCHANGED <<mstate, descriptor, discovery, startPromise, current, epoch, spawned, open>>

\* Mutant of Dies: the requests of a process that dies are not rejected.
DiesSilently(why) ==
  /\ Drained /\ current \in open
  /\ open' = open \ {current}
  /\ UNCHANGED <<mstate, descriptor, discovery, startPromise, current, epoch, spawned, op>>

\* Mutant of Dies: a request that times out closes the client and rejects itself alone, and
\* the requests beside it are left to their own timers.
DiesAlone(why) ==
  /\ Drained
  /\ \E o \in Running : open' = open \ {op[o].on} /\ op' = Failing({o}, why)
  /\ UNCHANGED <<mstate, descriptor, discovery, startPromise, current, epoch, spawned>>

\* #fatal: the process exits, its streams fail or a request times out (transport), or it
\* writes a line that is no answer (contract). The manager is not told.
Dies(why) ==
  /\ Drained /\ current \in open
  /\ open' = open \ {current}
  /\ op' = Failing(Running, why)
  /\ UNCHANGED <<mstate, descriptor, discovery, startPromise, current, epoch, spawned>>

----------------------------------------------------------------------------
(* A call fails: the catch clauses of #runSafe and #runUnsafe.             *)

FailedBeforeStart == mstate = "undiscovered" /\ ~descriptor /\ current = 0

\* Mutant of Restarts: a materialization is tried again as well.
RestartsUnsafe(o) == op[o].attempt = 1 /\ op[o].why = "transport"

\* Only a read is tried again, once, and only after a failure of the transport.
Restarts(o) == o \in Safe /\ op[o].attempt = 1 /\ op[o].why = "transport"

\* #degradeAndClose.
Degrade ==
  /\ open' = open \ {current}
  /\ current' = 0
  /\ mstate' = IF mstate = "stopped" THEN mstate ELSE "degraded"

\* The calls after close() has rejected the pending requests of the current process, unless
\* its client is closed already.
Closed == Failing({o \in Running : op[o].on = current /\ current \in open}, "transport")

Rethrow(o) ==
  /\ op[o].at = "failed" /\ (FailedBeforeStart \/ op[o].why = "remote_domain")
  /\ op' = [op EXCEPT ![o].at = "error"]
  /\ UNCHANGED <<mstate, descriptor, discovery, startPromise, current, epoch, spawned, open>>

GiveUp(o) ==
  /\ op[o].at = "failed" /\ ~FailedBeforeStart /\ op[o].why # "remote_domain"
  /\ ~Restarts(o) \/ mstate = "stopped"
  /\ Degrade
  /\ op' = [Closed EXCEPT ![o].at = "error"]
  /\ UNCHANGED <<descriptor, discovery, startPromise, epoch, spawned>>

Restart(o) ==
  /\ op[o].at = "failed" /\ ~FailedBeforeStart
  /\ Restarts(o) /\ mstate # "stopped"
  /\ Degrade
  /\ Join(Closed, o, 2)
  /\ UNCHANGED <<descriptor, epoch, spawned>>

Stop ==
  /\ mstate # "stopped"
  /\ mstate' = "stopped"
  /\ current' = 0
  /\ open' = open \ {current}
  /\ op' = Closed
  /\ UNCHANGED <<descriptor, discovery, startPromise, epoch, spawned>>

----------------------------------------------------------------------------
\* What follows from a call without waiting for an event.
Continue(o) == Invoke(o) \/ Rethrow(o) \/ GiveUp(o) \/ Restart(o)

StartSettles == Started \/ \E why \in Origins : StartFails(why)

RequestSettles ==
  \/ \E why \in {"transport", "contract"} : Dies(why)
  \/ \E S \in SUBSET Ops : \E failed \in SUBSET S : \E broken \in SUBSET failed :
       Answers(S, failed, broken)

ManagerNext ==
  \/ Discover \/ Discovered \/ DiscoveryFails \/ Spawn \/ SpawnThrows
  \/ StartSettles \/ RequestSettles \/ Stop
  \/ \E o \in Ops : Call(o) \/ Continue(o)

ManagerSpec == ManagerInit /\ [][ManagerNext]_managerVars

\* Continuations run. A request is answered, or its process ends or times out: callers that
\* keep coming back do so through events of their own, so they delay these events and do
\* not keep them away for ever. Nobody has to call, discover or stop.
FairManager ==
  /\ ManagerSpec
  /\ WF_managerVars(Discovered \/ DiscoveryFails)
  /\ WF_managerVars(Spawn \/ SpawnThrows)
  /\ \A o \in Ops : WF_managerVars(Continue(o))
  /\ SF_managerVars(StartSettles)
  /\ SF_managerVars(RequestSettles)

----------------------------------------------------------------------------
ManagerTypeOK ==
  /\ mstate \in {"undiscovered", "discovered", "starting", "ready", "degraded", "stopped"}
  /\ descriptor \in BOOLEAN /\ discovery \in BOOLEAN
  /\ startPromise \in {"none", "begun", "spawned"}
  /\ spawned \in Nat /\ current \in 0..spawned /\ epoch \in 0..spawned
  /\ open \subseteq 1..spawned
  /\ op \in [Ops -> CallRecord]

\* However calls, failures, retries and stops interleave, at most one child process has an
\* open client, and it is the current one or the one being started: none is forgotten and
\* none runs beside another.
SingleRuntime ==
  /\ Cardinality(open) <= 1
  /\ open \subseteq {current} \cup (IF startPromise = "spawned" THEN {spawned} ELSE {})

\* status() says ready exactly while the manager holds a provider, and then nothing is
\* being started: no failure path leaves one without the other.
ReadyHasRuntime ==
  /\ mstate = "ready" <=> current # 0
  /\ current # 0 => startPromise = "none"

\* stop() is terminal: no discovery, start or failure that completes afterwards changes the
\* state, and no process is created or kept.
StopIsFinal ==
  [][mstate = "stopped" => mstate' = "stopped" /\ current' = 0 /\ open' \subseteq open]_managerVars

\* A materialization is written to a process at most once whatever fails, and a read at
\* most twice, the second time only in its second attempt.
NoReplay ==
  \A o \in Ops : op[o].sent <= (IF o \in Safe THEN op[o].attempt ELSE 1)

Called == {o \in Ops : op[o].at # "idle"}
Retried == {o \in Ops : op[o].attempt = 2}

\* No call costs more than one process, and one more if it was tried again: an executable
\* that dies at once is not restarted in a loop, and calls that fail together share.
BoundedRestarts == spawned <= Cardinality(Called) + Cardinality(Retried)

\* A process loses its client only by its own failure, by stop(), or because a call that
\* was given this very process failed on it: the late failure of a call on an earlier
\* process never closes its replacement.
HealthyRuntimeStays ==
  [][\A p \in open \ open' :
       \/ mstate' = "stopped"
       \/ \E why \in Origins : StartFails(why) \/ Dies(why)
       \/ \E o \in Ops : op[o].at = "failed" /\ op[o].on = p /\ op[o].why # "remote_domain"
    ]_managerVars

\* Every call ends with a result or an error, and so does every call it waited with.
CallsSettle == \A o \in Ops : op[o].at # "idle" ~> op[o].at \in {"done", "error"}

\* After stop() no child process is left, the one that was being started included.
StopReleases == mstate = "stopped" ~> open = {}
=============================================================================
