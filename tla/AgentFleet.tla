----------------------------- MODULE AgentFleet -----------------------------
(***************************************************************************)
(* The primary server and its remote agents: job-queue.js, the registry    *)
(* of agent-registry.js, the /agents routes of server.js that join them,   *)
(* and the poll loop of agent-service.js, over an unreliable network.      *)
(*                                                                         *)
(* The queue is JobQueue, action for action: what drain learns of the      *)
(* remote capacity is countIdle of the registry, one of Capacities.  A     *)
(* route handler is one action, but for /complete: it checks the           *)
(* assignment, awaits the writing of the uploaded files, and only then     *)
(* completes the job.  Names of JobQueue (Init, Next, vars...) are the     *)
(* queue's; those of the whole begin with Fleet.                           *)
(*                                                                         *)
(* What goes wrong (a lost response, a crash, a late heartbeat, a clock    *)
(* that outruns an agent) is counted against MaxFaults.                    *)
(***************************************************************************)
EXTENDS JobQueue

CONSTANTS StaleTicks,  \* computeStaleWindowMs, in clock ticks
          MaxFaults    \* bound: how many things may go wrong

ASSUME AgentFleetAssumption ==
  /\ StaleTicks \in Nat \ {0} /\ MaxFaults \in Nat
  /\ IsFiniteSet(Agent)
  /\ 0..Cardinality(Agent) \subseteq Capacities

VARIABLES listed,  \* agents.get(a).status in the registry, or "unknown"
          seen,    \* ticks left before isAgentStale(a)
          ended,   \* agents.get(a).jobsCompleted + jobsFailed
          phase,   \* where agent a's poll loop stands
          task,    \* the job of the assignment agent a processes, or None
          result,  \* the status of the snapshot agent a uploads, or None
          retries, \* uploadCompletion is called again should it fail
          late,    \* heartbeats of <<agent, job>> still on their way
          uploads, \* /complete handlers that write the uploaded files
          faults   \* how many more things may go wrong

queueVars == vars
registryVars == <<listed, seen, ended>>
agentVars == <<phase, task, result, retries>>
networkVars == <<late, uploads, faults>>
fleetVars == <<queueVars, registryVars, agentVars, networkVars>>

Upload == [agent : Agent, job : Job, outcome : Terminal]

FleetInit ==
  /\ Init
  /\ listed = [a \in Agent |-> "unknown"]
  /\ seen = [a \in Agent |-> 0]
  /\ ended = [a \in Agent |-> 0]
  /\ phase = [a \in Agent |-> "idle"]
  /\ task = [a \in Agent |-> None]
  /\ result = [a \in Agent |-> None]
  /\ retries = [a \in Agent |-> FALSE]
  /\ late = {}
  /\ uploads = {}
  /\ faults = MaxFaults

Fault == faults > 0 /\ faults' = faults - 1

-----------------------------------------------------------------------------
(* The registry.                                                           *)

(* touchAgent, with the status the caller patches in. *)
TouchAgent(a, state) == /\ listed' = [listed EXCEPT ![a] = state]
                        /\ seen' = [seen EXCEPT ![a] = StaleTicks]

(* A lease that lapsed marks its agent stale, and touches it as well. *)
NoteLeaseExpiry(expired) ==
  LET lapsed == {holder[j] : j \in expired} IN
  /\ listed' = [a \in Agent |-> IF a \in lapsed /\ listed[a] # "unknown" THEN "stale" ELSE listed[a]]
  /\ seen' = [a \in Agent |-> IF a \in lapsed /\ listed[a] # "unknown" THEN StaleTicks ELSE seen[a]]
  /\ UNCHANGED ended

(* Mutant: the agent is not listed idle again. *)
NoteCompletionOnly(a) == TouchAgent(a, listed[a]) /\ ended' = [ended EXCEPT ![a] = @ + 1]

NoteCompletion(a) == TouchAgent(a, "idle") /\ ended' = [ended EXCEPT ![a] = @ + 1]

(* Mutant: every agent that was seen lately counts, the busy ones too. *)
CountSeen == Cardinality({a \in Agent : seen[a] > 0})

CountIdle == Cardinality({a \in Agent : listed[a] = "idle" /\ seen[a] > 0})

-----------------------------------------------------------------------------
(* The primary server without its agents.                                  *)

Submit(j) == Enqueue(j) /\ UNCHANGED <<registryVars, agentVars, networkVars>>

DrainLocally == Drain(CountIdle) /\ UNCHANGED <<registryVars, agentVars, networkVars>>

ProcessLocally == /\ \/ LocalProgress
                     \/ \E outcome \in Terminal : LocalFinish(outcome)
                     \/ LocalThrow
                  /\ UNCHANGED <<registryVars, agentVars, networkVars>>

(* Every request begins with this, whatever it asks for. *)
SyncExpiredAgentLeases == /\ RecoverExpiredRemoteClaims
                          /\ NoteLeaseExpiry(Requeued)
                          /\ UNCHANGED <<agentVars, networkVars>>

(* The body of a request is awaited after that; get, list and stats then   *)
(* sweep again, and tell nobody.                                           *)
SweepSilently == /\ RecoverExpiredRemoteClaims
                 /\ UNCHANGED <<registryVars, agentVars, networkVars>>

-----------------------------------------------------------------------------
(* The poll loop of agent a.                                               *)

GoIdle(a) == /\ phase' = [phase EXCEPT ![a] = "idle"]
             /\ task' = [task EXCEPT ![a] = None]
             /\ result' = [result EXCEPT ![a] = None]
             /\ retries' = [retries EXCEPT ![a] = FALSE]

StartWork(a, j) == /\ phase' = [phase EXCEPT ![a] = "working"]
                   /\ task' = [task EXCEPT ![a] = j]
                   /\ UNCHANGED <<result, retries>>

(* uploadCompletion threw.  Inside the try it is called once more, with a  *)
(* failure snapshot; inside the catch the agent gives up.                  *)
UploadFailed(a) == IF retries[a]
                   THEN /\ phase' = [phase EXCEPT ![a] = "uploading"]
                        /\ result' = [result EXCEPT ![a] = "failed"]
                        /\ retries' = [retries EXCEPT ![a] = FALSE]
                        /\ UNCHANGED task
                   ELSE GoIdle(a)

(* POST /agents/check-in when a job waits: it is leased to the agent, who  *)
(* may never hear of it.                                                   *)
CheckInForWork(a) ==
  /\ phase[a] = "idle"
  /\ ClaimNextRemoteJob(a)
  /\ TouchAgent(a, "busy")
  /\ \/ /\ \E j \in Job : HolderR[j] # a /\ holder'[j] = a /\ StartWork(a, j)
        /\ UNCHANGED faults
     \/ Fault /\ UNCHANGED agentVars
  /\ UNCHANGED <<ended, late, uploads>>

(* The same when none waits, not even a job that the sweep would return. *)
CheckInIdle(a) ==
  /\ phase[a] = "idle"
  /\ queue = <<>> /\ Expired = {}
  /\ RequestDrain
  /\ TouchAgent(a, "idle")
  /\ UNCHANGED <<ended, agentVars, networkVars>>

(* A heartbeat of the job in hand: the run's progress, or the one sent     *)
(* before an upload.  The 409 of a refused one changes nothing.            *)
HeartbeatAccepted(a, j) == /\ HeartbeatRemoteJob(j, a)
                           /\ TouchAgent(a, "busy")
                           /\ UNCHANGED <<ended, agentVars, uploads>>

Heartbeat(a) == /\ phase[a] \in {"working", "uploading"}
                /\ HeartbeatAccepted(a, task[a])
                /\ UNCHANGED <<late, faults>>

(* The timer of a stage sends heartbeats that nobody awaits: one of them   *)
(* may arrive when the agent is long past that job.                        *)
HeartbeatDelayed(a) == /\ phase[a] = "working"
                       /\ <<a, task[a]>> \notin late
                       /\ late' = late \cup {<<a, task[a]>>}
                       /\ Fault
                       /\ UNCHANGED <<queueVars, registryVars, agentVars, uploads>>

LateHeartbeat(a, j) == /\ <<a, j>> \in late
                       /\ late' = late \ {<<a, j>>}
                       /\ \/ HeartbeatAccepted(a, j)
                          \/ /\ MicrotasksDone /\ ~Accepted(j, a)
                             /\ Recover
                             /\ UNCHANGED <<registryVars, agentVars, uploads>>
                       /\ UNCHANGED faults

(* The run returned a snapshot, or threw (GET .../input answering 404 is   *)
(* one way to): only the upload of a returned snapshot is tried again.     *)
RunReturns(a, outcome) == /\ phase[a] = "working"
                          /\ phase' = [phase EXCEPT ![a] = "uploading"]
                          /\ result' = [result EXCEPT ![a] = outcome]
                          /\ retries' = [retries EXCEPT ![a] = TRUE]
                          /\ UNCHANGED <<task, queueVars, registryVars, networkVars>>

RunThrows(a) == /\ phase[a] = "working"
                /\ phase' = [phase EXCEPT ![a] = "uploading"]
                /\ result' = [result EXCEPT ![a] = "failed"]
                /\ UNCHANGED <<task, retries, queueVars, registryVars, networkVars>>

-----------------------------------------------------------------------------
(* POST /agents/jobs/j/complete.                                           *)

(* Its first part: the assignment is checked (isJobAssignedToAgent sweeps  *)
(* first) and the files begin to be written.  Bound: no two handlers with  *)
(* the same agent, job and outcome at once.                                *)
UploadArrives(a) ==
  LET u == [agent |-> a, job |-> task[a], outcome |-> result[a]] IN
  /\ phase[a] = "uploading"
  /\ MicrotasksDone
  /\ Recover
  /\ IF Accepted(task[a], a)
     THEN /\ u \notin uploads
          /\ uploads' = uploads \cup {u}
          /\ phase' = [phase EXCEPT ![a] = "waiting"]
          /\ UNCHANGED <<task, result, retries>>
     ELSE UploadFailed(a) /\ UNCHANGED uploads
  /\ UNCHANGED <<registryVars, late, faults>>

Awaits(u) == /\ phase[u.agent] = "waiting"
             /\ task[u.agent] = u.job
             /\ result[u.agent] = u.outcome

(* Its second part: the files are written, and the assignment is checked   *)
(* again by completeRemoteJob.                                             *)
AcceptUpload(u) ==
  /\ CompleteRemoteJob(u.job, u.agent, u.outcome)
  /\ NoteCompletion(u.agent)
  /\ IF Awaits(u) THEN GoIdle(u.agent) ELSE UNCHANGED agentVars

(* Mutant: the completion is noted though the queue refused it. *)
RefuseButNote(u) ==
  /\ MicrotasksDone
  /\ ~Accepted(u.job, u.agent)
  /\ Recover
  /\ NoteCompletion(u.agent)
  /\ IF Awaits(u) THEN UploadFailed(u.agent) ELSE UNCHANGED agentVars

RefuseUpload(u) ==
  /\ MicrotasksDone
  /\ ~Accepted(u.job, u.agent)
  /\ Recover
  /\ UNCHANGED registryVars
  /\ IF Awaits(u) THEN UploadFailed(u.agent) ELSE UNCHANGED agentVars

UploadCompletes(u) == /\ u \in uploads
                      /\ uploads' = uploads \ {u}
                      /\ AcceptUpload(u) \/ RefuseUpload(u)
                      /\ UNCHANGED <<late, faults>>

(* The files could not be written: the answer is an error. *)
PersistFails(u) == /\ u \in uploads
                   /\ uploads' = uploads \ {u}
                   /\ IF Awaits(u) THEN UploadFailed(u.agent) ELSE UNCHANGED agentVars
                   /\ Fault
                   /\ UNCHANGED <<queueVars, registryVars, late>>

(* The connection breaks, before the request was read or while its handler *)
(* runs on.                                                                *)
ConnectionLost(a) == /\ phase[a] \in {"uploading", "waiting"}
                     /\ UploadFailed(a)
                     /\ Fault
                     /\ UNCHANGED <<queueVars, registryVars, late, uploads>>

-----------------------------------------------------------------------------
(* Crashes and time.                                                       *)

Crash(a) == /\ phase[a] # "dead"
            /\ phase' = [phase EXCEPT ![a] = "dead"]
            /\ task' = [task EXCEPT ![a] = None]
            /\ result' = [result EXCEPT ![a] = None]
            /\ retries' = [retries EXCEPT ![a] = FALSE]
            /\ Fault
            /\ UNCHANGED <<queueVars, registryVars, late, uploads>>

(* A restarted agent has the agentId it had: ensureAgentId reads it back. *)
Restart(a) == /\ phase[a] = "dead"
              /\ phase' = [phase EXCEPT ![a] = "idle"]
              /\ UNCHANGED <<task, result, retries, queueVars, registryVars, networkVars>>

(* An agent in time renews what it has before it lapses: a heartbeat every *)
(* heartbeatIntervalMs, at least three in a lease, and a check-in every    *)
(* checkInIntervalMs, at least three in a stale window.                    *)
InTime(a) ==
  /\ task[a] # None /\ holder[task[a]] = a => lease[task[a]] > 1
  /\ phase[a] # "dead" /\ listed[a] # "unknown" => seen[a] > 1

FleetTick ==
  /\ \/ \E j \in Job : lease[j] > 0
     \/ \E a \in Agent : seen[a] > 0
  /\ \/ (\A a \in Agent : InTime(a)) /\ UNCHANGED faults
     \/ (\E a \in Agent : ~InTime(a)) /\ Fault
  /\ lease' = [j \in Job |-> IF lease[j] > 0 THEN lease[j] - 1 ELSE 0]
  /\ seen' = [a \in Agent |-> IF seen[a] > 0 THEN seen[a] - 1 ELSE 0]
  /\ UNCHANGED <<status, worker, detail, queue, holder, local, drainPending, capacitySeen,
                 listed, ended, agentVars, late, uploads>>

-----------------------------------------------------------------------------
FleetNext ==
  \/ \E j \in Job : Submit(j)
  \/ DrainLocally
  \/ ProcessLocally
  \/ SyncExpiredAgentLeases
  \/ SweepSilently
  \/ \E a \in Agent : \/ CheckInForWork(a)
                      \/ CheckInIdle(a)
                      \/ Heartbeat(a)
                      \/ HeartbeatDelayed(a)
                      \/ \E j \in Job : LateHeartbeat(a, j)
                      \/ \E outcome \in Terminal : RunReturns(a, outcome)
                      \/ RunThrows(a)
                      \/ UploadArrives(a)
                      \/ ConnectionLost(a)
                      \/ Crash(a)
                      \/ Restart(a)
  \/ \E u \in uploads : UploadCompletes(u) \/ PersistFails(u)
  \/ FleetTick

FleetSpec == FleetInit /\ [][FleetNext]_fleetVars

-----------------------------------------------------------------------------
(* Invariants.                                                             *)

(* The registry's totals, which the admin page adds up, count every job    *)
(* that an agent ended exactly once, however often its completion was      *)
(* sent, refused or raced by a second upload of the same job.              *)
CountersAgree ==
  \A a \in Agent :
    ended[a] = Cardinality({j \in Job : status[j] \in Terminal /\ worker[j] = a})

(* While nothing has gone wrong, queue, registry and agents agree on who   *)
(* does what: the lease's holder is the agent that has the job, the        *)
(* registry calls exactly those agents busy, and nobody works in vain.     *)
UndisturbedFleetAgrees ==
  faults = MaxFaults =>
    \A a \in Agent : /\ \A j \in Job : holder[j] = a <=> task[a] = j
                     /\ listed[a] = "busy" <=> task[a] # None
                     /\ listed[a] # "stale"

(* While nothing has gone wrong, a job that drain leaves to the agents has *)
(* one: no fewer agents have checked in as idle, and still poll, than jobs *)
(* are held back.                                                          *)
HeldWorkIsCovered ==
  faults = MaxFaults /\ local = None /\ ~drainPending =>
    Len(queue) <= Cardinality({a \in Agent : listed[a] = "idle" /\ phase[a] = "idle"})

Executions(j) == Cardinality({a \in Agent : task[a] = j}) + (IF local = j THEN 1 ELSE 0)

(* A job is executed more than once at a time only as often as something   *)
(* went wrong: only the loss of a lease hands it on to another worker.     *)
RedundantRunsAreBounded == \A j \in Job : Executions(j) <= 1 + (MaxFaults - faults)

-----------------------------------------------------------------------------
(* Liveness.                                                               *)

(* Node's event loop serves every callback that is due: an operation that  *)
(* becomes possible again and again, between microtasks, is performed.     *)
(* The processor settles, requests keep arriving, and time passes.         *)
PrimaryFairness ==
  /\ WF_fleetVars(DrainLocally)
  /\ SF_fleetVars((\E outcome \in Terminal : LocalFinish(outcome)) /\ ProcessLocally)
  /\ SF_fleetVars(SyncExpiredAgentLeases)
  /\ WF_fleetVars(FleetTick)

(* A living agent polls, its runs return, its requests are answered. *)
AgentFairness ==
  \A a \in Agent :
    /\ SF_fleetVars(CheckInForWork(a) \/ CheckInIdle(a))
    /\ WF_fleetVars((\E outcome \in Terminal : RunReturns(a, outcome)) \/ RunThrows(a))
    /\ SF_fleetVars(UploadArrives(a))
    /\ SF_fleetVars(\E u \in uploads : u.agent = a /\ UploadCompletes(u))

(* The supervisor restarts an agent that crashed. *)
RestartFairness == \A a \in Agent : WF_fleetVars(Restart(a))

LiveSpec == FleetSpec /\ PrimaryFairness /\ AgentFairness /\ RestartFairness

(* Every submitted job ends, whatever was lost on the way: a lease whose   *)
(* agent never heard of it lapses, and a job held back for an agent that   *)
(* died waits for its restart.                                             *)
EveryJobEnds == \A j \in Job : status[j] = "queued" ~> status[j] \in Terminal

(* The same fleet without anyone to restart its agents. *)
UnsupervisedSpec == FleetSpec /\ PrimaryFairness /\ AgentFairness

(* "If no idle agents are checked in, the primary server keeps processing  *)
(* queued work locally" (README.md:138).                                   *)
NoIdleAgent == CountIdle = 0

LocalFallback ==
  (NoIdleAgent /\ queue # <<>> /\ local = None) ~> (~NoIdleAgent \/ queue = <<>> \/ local # None)
=============================================================================
