------------------------------ MODULE JobQueue ------------------------------
(***************************************************************************)
(* orchestrator/job-queue.js: the in-memory queue of the primary server.   *)
(* A job waits in `queue`, is run by the in-process worker (one at a time) *)
(* or is leased to a remote agent, and ends completed or failed.  A lease  *)
(* that is not renewed lapses: the next operation of the queue, whichever  *)
(* it is, puts its job back at the front.                                  *)
(*                                                                         *)
(* Node runs one callback at a time, so each operation is one action.      *)
(* Every `queueMicrotask(drain)` sets drainPending; microtasks run before  *)
(* the next callback, so while it is set only Drain, or the clock, moves.  *)
(* Time is a countdown: lease[j] ticks are left before assignment j's      *)
(* expiresAt; LeaseTicks stands for computeLeaseDurationMs.                *)
(* Callers are arbitrary: any agent may call any operation for any job.    *)
(***************************************************************************)
EXTENDS Naturals, Sequences, FiniteSets, SequencesExt

CONSTANTS Job,        \* the identifiers randomUUID may return
          Agent,      \* the remote agents' ids
          LocalMain,  \* DEFAULT_LOCAL_WORKER_ID
          None,       \* JavaScript's null, for a worker or a job
          LeaseTicks, \* the length of a lease, in clock ticks
          Capacities  \* what the remote capacity provider may answer

ASSUME JobQueueAssumption ==
  /\ LocalMain \notin Agent
  /\ None \notin Agent \cup Job \cup {LocalMain}
  /\ IsFiniteSet(Job)
  /\ LeaseTicks \in Nat \ {0}
  /\ Capacities \subseteq Nat

VARIABLES status,       \* jobs.get(j).status, "absent" before enqueue
          worker,       \* jobs.get(j).worker: its id, or None
          detail,       \* jobs.get(j).statusDetail.state, by kind: "reported"
                        \*   is whatever the run reported last
          queue,        \* the job ids that wait
          holder,       \* remoteAssignments.get(j).agentId, or None
          lease,        \* ticks left before remoteAssignments.get(j).expiresAt
          local,        \* the job whose processor call is awaited, or None:
                        \*   localRunning is local # None
          drainPending, \* a drain microtask is queued
          capacitySeen  \* history: the provider's last answer to drain

vars == <<status, worker, detail, queue, holder, lease, local, drainPending, capacitySeen>>

Status == {"absent", "queued", "running", "completed", "failed"}
Terminal == {"completed", "failed"}
Detail == {"none", "queued_waiting_for_worker", "claimed", "reported"} \cup Terminal
Worker == Agent \cup {LocalMain}

TypeOK == /\ status \in [Job -> Status]
          /\ worker \in [Job -> Worker \cup {None}]
          /\ detail \in [Job -> Detail]
          /\ queue \in Seq(Job)
          /\ holder \in [Job -> Agent \cup {None}]
          /\ lease \in [Job -> 0..LeaseTicks]
          /\ local \in Job \cup {None}
          /\ drainPending \in BOOLEAN
          /\ capacitySeen \in Nat

Init == /\ status = [j \in Job |-> "absent"]
        /\ worker = [j \in Job |-> None]
        /\ detail = [j \in Job |-> "none"]
        /\ queue = <<>>
        /\ holder = [j \in Job |-> None]
        /\ lease = [j \in Job |-> 0]
        /\ local = None
        /\ drainPending = FALSE
        /\ capacitySeen = 0

-----------------------------------------------------------------------------
(* recoverExpiredRemoteClaims, with which every operation begins.  The     *)
(* operators below give the state it leaves, on which the operation goes   *)
(* on.                                                                     *)

(* Mutant: a lease lapses one tick early. *)
ExpiredEarly == {j \in Job : holder[j] # None /\ lease[j] <= 1}

Expired == {j \in Job : holder[j] # None /\ lease[j] = 0}

(* The sweep drops every lapsed assignment, but requeues its job only if   *)
(* the job still runs on an agent.                                         *)
Requeued == {j \in Expired : status[j] = "running" /\ worker[j] \in Agent}

StatusR == [j \in Job |-> IF j \in Requeued THEN "queued" ELSE status[j]]
(* Mutants: the sweep does not clear the worker, does not reset the        *)
(* detail, does not drop the assignment.                                   *)
WorkerKept == worker
DetailKept == detail
HolderKept == holder

WorkerR == [j \in Job |-> IF j \in Requeued THEN None ELSE worker[j]]
DetailR == [j \in Job |-> IF j \in Requeued THEN "queued_waiting_for_worker" ELSE detail[j]]
HolderR == [j \in Job |-> IF j \in Expired THEN None ELSE holder[j]]

(* removeFromQueue takes a job out only where it finds it. *)
RemoveFromQueue(q, S) ==
  IF ToSet(q) \cap S = {} THEN q ELSE SelectSeq(q, LAMBDA j : j \notin S)

(* Mutants: requeued jobs go to the back, or nowhere. *)
QueuesBehind == {RemoveFromQueue(queue, Requeued) \o back : back \in SetToSeqs(Requeued)}
QueueOnly == {queue}

(* enqueueFront, once per requeued job.  The order among leases that lapse *)
(* in one sweep follows the Map's insertion order; it is left open here.   *)
QueuesR == {front \o RemoveFromQueue(queue, Requeued) : front \in SetToSeqs(Requeued)}

(* The handlers of other callbacks wait until the microtasks have run. *)
MicrotasksDone == ~drainPending

Recover == /\ queue' \in QueuesR
           /\ status' = StatusR
           /\ worker' = WorkerR
           /\ detail' = DetailR
           /\ holder' = HolderR
           /\ drainPending' = (Requeued # {})
           /\ UNCHANGED <<lease, local, capacitySeen>>

(* get, list, stats, isJobAssignedToAgent, getRemoteAssignment and the     *)
(* exported recoverExpiredRemoteClaims change nothing but this; neither do *)
(* the operations below when they answer null.                             *)
RecoverExpiredRemoteClaims == /\ MicrotasksDone
                              /\ Expired # {}
                              /\ Recover

-----------------------------------------------------------------------------
(* enqueue: the new job goes to the back, then drain() runs in the same    *)
(* callback, before anything else: the flag says so.                       *)
Enqueue(j) == /\ MicrotasksDone
              /\ status[j] = "absent"
              /\ \E q \in QueuesR : queue' = Append(q, j)
              /\ status' = [StatusR EXCEPT ![j] = "queued"]
              /\ worker' = [WorkerR EXCEPT ![j] = None]
              /\ detail' = [DetailR EXCEPT ![j] = "queued_waiting_for_worker"]
              /\ holder' = HolderR
              /\ drainPending' = TRUE
              /\ UNCHANGED <<lease, local, capacitySeen>>

(* requestDrain and setRemoteCapacityProvider only queue the microtask. *)
RequestDrain == /\ MicrotasksDone
                /\ drainPending' = TRUE
                /\ UNCHANGED <<status, worker, detail, queue, holder, lease, local, capacitySeen>>

(* drain, up to its first await: `capacity` is what getRemoteCapacity      *)
(* returns.  The queue is left to the agents while they could take all of  *)
(* it; otherwise its head is run here.                                     *)
(* Mutants: localRunning is not looked at; one job too many is left.       *)
DrainRestsUnlocked(q, capacity) == q = <<>> \/ Len(q) <= capacity
DrainRestsBeyond(q, capacity) == local # None \/ q = <<>> \/ Len(q) <= capacity + 1

DrainRests(q, capacity) == local # None \/ q = <<>> \/ Len(q) <= capacity

Drain(capacity) ==
  /\ drainPending
  /\ \E q \in QueuesR :
       IF DrainRests(q, capacity)
       THEN /\ queue' = q
            /\ status' = StatusR
            /\ worker' = WorkerR
            /\ detail' = DetailR
            /\ UNCHANGED local
       ELSE LET j == Head(q) IN
            /\ queue' = Tail(q)
            /\ status' = [StatusR EXCEPT ![j] = "running"]
            /\ worker' = [WorkerR EXCEPT ![j] = LocalMain]
            /\ detail' = [DetailR EXCEPT ![j] = "claimed"]
            /\ local' = j
  /\ holder' = HolderR
  /\ drainPending' = (Requeued # {})
  /\ capacitySeen' = capacity
  /\ UNCHANGED lease

(* mergeWorker keeps the previous worker; the fields it finds missing it   *)
(* fills in with the primary server's.                                     *)
MergeWorker(previous) == IF previous = None THEN LocalMain ELSE previous

(* The processor's onProgress callback. *)
LocalProgress == /\ MicrotasksDone
                 /\ local # None
                 /\ status' = [status EXCEPT ![local] = "running"]
                 /\ worker' = [worker EXCEPT ![local] = MergeWorker(@)]
                 /\ detail' = [detail EXCEPT ![local] = "reported"]
                 /\ UNCHANGED <<queue, holder, lease, local, drainPending, capacitySeen>>

(* The processor returned, or threw an error that carries a snapshot of    *)
(* this job: finalizeJob, then the finally block.                          *)
LocalFinish(outcome) == /\ MicrotasksDone
                        /\ local # None
                        /\ status' = [status EXCEPT ![local] = outcome]
                        /\ detail' = [detail EXCEPT ![local] = outcome]
                        /\ holder' = [holder EXCEPT ![local] = None]
                        /\ local' = None
                        /\ drainPending' = TRUE
                        /\ UNCHANGED <<worker, queue, lease, capacitySeen>>

(* It threw any other error: the job is marked failed in place. *)
LocalThrow == /\ MicrotasksDone
              /\ local # None
              /\ status' = [status EXCEPT ![local] = "failed"]
              /\ worker' = [worker EXCEPT ![local] = MergeWorker(@)]
              /\ detail' = [detail EXCEPT ![local] = "failed"]
              /\ local' = None
              /\ drainPending' = TRUE
              /\ UNCHANGED <<queue, holder, lease, capacitySeen>>

-----------------------------------------------------------------------------
(* The operations behind the /agents routes.                               *)

ClaimNextRemoteJob(a) ==
  /\ MicrotasksDone
  /\ \E q \in QueuesR :
       /\ q # <<>>
       /\ LET j == Head(q) IN
          /\ queue' = Tail(q)
          /\ status' = [StatusR EXCEPT ![j] = "running"]
          /\ worker' = [WorkerR EXCEPT ![j] = a]
          /\ detail' = [DetailR EXCEPT ![j] = "claimed"]
          /\ holder' = [HolderR EXCEPT ![j] = a]
          /\ lease' = [lease EXCEPT ![j] = LeaseTicks]
  /\ drainPending' = TRUE
  /\ UNCHANGED <<local, capacitySeen>>

(* Mutant: a lapsed assignment is good until somebody sweeps it. *)
AcceptedUnswept(j, a) == holder[j] = a

(* Heartbeat and completion are accepted from the agent that holds the     *)
(* lease after the sweep, and answered null to anybody else.               *)
Accepted(j, a) == HolderR[j] = a

HeartbeatRemoteJob(j, a) ==
  /\ MicrotasksDone
  /\ Accepted(j, a)
  /\ queue' \in QueuesR
  /\ status' = [StatusR EXCEPT ![j] = "running"]
  /\ worker' = [WorkerR EXCEPT ![j] = MergeWorker(@)]
  /\ detail' = [DetailR EXCEPT ![j] = "reported"]
  /\ holder' = HolderR
  /\ lease' = [lease EXCEPT ![j] = LeaseTicks]
  /\ drainPending' = (Requeued # {})
  /\ UNCHANGED <<local, capacitySeen>>

CompleteRemoteJob(j, a, outcome) ==
  /\ MicrotasksDone
  /\ Accepted(j, a)
  /\ queue' \in QueuesR
  /\ status' = [StatusR EXCEPT ![j] = outcome]
  /\ worker' = [WorkerR EXCEPT ![j] = a]
  /\ detail' = [DetailR EXCEPT ![j] = outcome]
  /\ holder' = [HolderR EXCEPT ![j] = None]
  /\ lease' = [lease EXCEPT ![j] = 0]
  /\ drainPending' = TRUE
  /\ UNCHANGED <<local, capacitySeen>>

(* Mutant: a failure reported without a snapshot is passed on as it is. *)
FailAsReported(j, a, snapshot) == CompleteRemoteJob(j, a, snapshot)

(* With a snapshot of the job failRemoteJob completes it as the snapshot   *)
(* says; without one the job is failed.                                    *)
FailRemoteJob(j, a, snapshot) ==
  CompleteRemoteJob(j, a, IF snapshot = None THEN "failed" ELSE snapshot)

(* A clock tick: every lease in force comes one tick nearer to its end. *)
Tick == /\ \E j \in Job : lease[j] > 0
        /\ lease' = [j \in Job |-> IF lease[j] > 0 THEN lease[j] - 1 ELSE 0]
        /\ UNCHANGED <<status, worker, detail, queue, holder, local, drainPending, capacitySeen>>

-----------------------------------------------------------------------------
AgentCall(a) == \/ ClaimNextRemoteJob(a)
                \/ \E j \in Job :
                     \/ HeartbeatRemoteJob(j, a)
                     \/ \E outcome \in Terminal : CompleteRemoteJob(j, a, outcome)
                     \/ \E snapshot \in Terminal \cup {None} : FailRemoteJob(j, a, snapshot)

Next == \/ \E j \in Job : Enqueue(j)
        \/ RequestDrain
        \/ RecoverExpiredRemoteClaims
        \/ \E capacity \in Capacities : Drain(capacity)
        \/ LocalProgress
        \/ \E outcome \in Terminal : LocalFinish(outcome)
        \/ LocalThrow
        \/ \E a \in Agent : AgentCall(a)
        \/ Tick

Spec == Init /\ [][Next]_vars

-----------------------------------------------------------------------------
(* Invariants.                                                             *)

(* The queue never lists a job twice: two drains or a claim and a drain    *)
(* could otherwise start the same job on two workers.                      *)
NoDuplicates == \A i, k \in DOMAIN queue : queue[i] = queue[k] => i = k

(* A job is in exactly one place: in the queue if it is queued; under one  *)
(* of the local worker and a lease, never both, if it is running; nowhere  *)
(* if it is not submitted or has ended.  A job in no place would be lost   *)
(* for good, a job in two would run twice into one output directory.       *)
ExactlyOneOwner ==
  /\ NoDuplicates
  /\ \A j \in Job :
       /\ status[j] = "queued" <=> j \in ToSet(queue)
       /\ status[j] = "running" <=> (local = j \/ holder[j] # None)
       /\ ~(local = j /\ holder[j] # None)

(* The worker a client is shown is the one that has the job: the local     *)
(* worker, the lease's agent, or nobody while the job waits.               *)
WorkerIsOwner ==
  \A j \in Job : /\ local = j => worker[j] = LocalMain
                 /\ holder[j] # None => worker[j] = holder[j]
                 /\ status[j] \in {"absent", "queued"} => worker[j] = None
                 /\ status[j] \in {"running"} \cup Terminal => worker[j] \in Worker

(* statusDetail, which progress reports overwrite piecemeal, follows       *)
(* status: a requeued job no longer shows what its last run reported, a    *)
(* started one not yet, and an ended job shows how it ended.               *)
DetailFollowsStatus ==
  \A j \in Job : /\ status[j] = "queued" => detail[j] = "queued_waiting_for_worker"
                 /\ status[j] = "running" => detail[j] \in {"claimed", "reported"}
                 /\ status[j] \in Terminal => detail[j] = status[j]

(* No wakeup of the local worker is lost: when it is idle and no drain is  *)
(* on its way, the remote capacity drain last saw covered all that waits.  *)
(* (That capacity may since have vanished: see AgentFleet.)                *)
NoLostWakeup == ~drainPending /\ local = None => Len(queue) <= capacitySeen

-----------------------------------------------------------------------------
(* Action properties.                                                      *)

(* An ended job is never reopened, reassigned or re-ended: not by a late   *)
(* heartbeat, a second completion, a stale progress report or a sweep.     *)
TerminalIsFinal ==
  [][\A j \in Job : status[j] \in Terminal => status'[j] = status[j] /\ worker'[j] = worker[j]]_vars

(* While its lease is in force an agent keeps its job until it ends it     *)
(* itself; once the lease has lapsed nothing that agent sends can end the  *)
(* job.                                                                    *)
LeaseDecides ==
  [][\A j \in Job : holder[j] # None =>
       IF lease[j] > 0
       THEN \/ holder'[j] = holder[j] /\ status'[j] = "running"
            \/ holder'[j] = None /\ status'[j] \in Terminal /\ worker'[j] = holder[j]
       ELSE status'[j] \notin Terminal]_vars

Before(q, x, y) == \E i, k \in DOMAIN q : i < k /\ q[i] = x /\ q[k] = y

(* No job overtakes another: jobs leave the queue from its head, a new job *)
(* goes behind all that wait, a requeued one before them.                  *)
FirstComeFirstServed ==
  [][/\ \A x, y \in Job :
          Before(queue, x, y) => Before(queue', x, y) \/ x \notin ToSet(queue')
     /\ \A x \in ToSet(queue) \cap ToSet(queue'), y \in ToSet(queue') \ ToSet(queue) :
          IF status[y] = "absent" THEN Before(queue', x, y) ELSE Before(queue', y, x)]_vars

(* What a client is promised about its job, whatever happens to the agents *)
(* that run it: the queue implements JobLifecycle.                         *)
Lifecycle == INSTANCE JobLifecycle WITH phase <- status, owner <- worker

LifecycleSpec == Lifecycle!Spec
=============================================================================
