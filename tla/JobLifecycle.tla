---------------------------- MODULE JobLifecycle ----------------------------
(***************************************************************************)
(* What a client of the queue is promised about a job, whoever executes   *)
(* it: a submitted job waits, is run by one worker at a time, may go back  *)
(* to waiting only when a remote worker is given up on, and once it is     *)
(* completed or failed it stays exactly as it ended, with the worker that  *)
(* ended it.  The primary server runs at most one job itself.              *)
(* job-queue.js keeps these promises with a queue, leases and an           *)
(* in-process worker: see JobQueue.                                        *)
(***************************************************************************)

CONSTANTS Job,        \* the job identifiers
          Agent,      \* the remote agents
          LocalMain,  \* DEFAULT_LOCAL_WORKER_ID, the primary server
          None        \* no worker

VARIABLES phase,  \* phase[j]: where job j stands
          owner   \* owner[j]: the worker that runs, or that ended, job j

lifecycleVars == <<phase, owner>>

Ended == {"completed", "failed"}

Init == /\ phase = [j \in Job |-> "absent"]
        /\ owner = [j \in Job |-> None]

-----------------------------------------------------------------------------
(* One step of one job.                                                    *)

Stays(j) == phase'[j] = phase[j] /\ owner'[j] = owner[j]

Submitted(j) == /\ phase[j] = "absent"
                /\ phase'[j] = "queued"
                /\ owner'[j] = None

Started(j) == /\ phase[j] = "queued"
              /\ phase'[j] = "running"
              /\ owner'[j] \in Agent \cup {LocalMain}

(* Only a remote worker is ever given up on; its job waits again, or is    *)
(* handed to another remote worker in the same step.                       *)
GivenUp(j) == /\ phase[j] = "running"
              /\ owner[j] \in Agent
              /\ \/ phase'[j] = "queued" /\ owner'[j] = None
                 \/ phase'[j] = "running" /\ owner'[j] \in Agent \cup {LocalMain}

EndedBy(j) == /\ phase[j] = "running"
              /\ phase'[j] \in Ended
              /\ owner'[j] = owner[j]

JobStep(j) == Stays(j) \/ Submitted(j) \/ Started(j) \/ GivenUp(j) \/ EndedBy(j)

RunsLocally(j) == phase[j] = "running" /\ owner[j] = LocalMain

(* The jobs move independently of each other, except that the primary      *)
(* server has a single slot.                                               *)
Next == /\ \A j \in Job : JobStep(j)
        /\ \A i, j \in Job : RunsLocally(i)' /\ RunsLocally(j)' => i = j

Spec == Init /\ [][Next]_lifecycleVars
=============================================================================
