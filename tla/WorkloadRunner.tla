--------------------------- MODULE WorkloadRunner ---------------------------
(***************************************************************************)
(* runManagedWorkload of workload-runner.js over any plan: the stages one  *)
(* after another, each tried up to MaxAttempts times, every step announced *)
(* through onProgress, with a timer that repeats the announcement while a  *)
(* stage runs.  The primary server and every agent run their jobs through  *)
(* it (ProcessLocally and StartWork of AgentFleet).                        *)
(*                                                                         *)
(* Steps are cut at the awaits at which something else can happen: before  *)
(* an attempt, while its child process runs (when timers fire), after the  *)
(* last stage.  onProgress of both callers settles without rejecting.      *)
(***************************************************************************)
EXTENDS Naturals, Sequences

CONSTANTS
  Jobs,               \* what a run may depend on: options, document, paths
  Plan(_),            \* buildStagePlan: the keys of the stages of a job
  Endings(_, _, _),   \* how an attempt of a stage may end, from the artifacts
                      \* it finds: [arts, ends, refused], where ends is "ok",
                      \* "transient" (a retryable error) or "final"
  MaxStages,          \* an upper bound on the length of a plan
  MaxAttempts         \* maxStageAttempts, DEFAULT_STAGE_ATTEMPTS

ASSUME WorkloadRunnerAssumption ==
  /\ MaxAttempts \in Nat \ {0}
  /\ MaxStages \in Nat
  /\ \A j \in Jobs : Len(Plan(j)) \in 0..MaxStages

VARIABLES job,        \* the facts the run depends on
          at,         \* where the run stands
          attempt,    \* of the stage at hand
          artifacts,  \* the keys of the shared artifacts object
          stages,     \* the status of each stage record so far
          timers,     \* the heartbeat timers that are set, with what they report
          reported,   \* the last progress reported: [completed, attempt]
          outcome,    \* "running", "completed", "failed" or "threw"
          refused     \* an attempt ended with a refusal of the candidate

vars == <<job, at, attempt, artifacts, stages, timers, reported, outcome, refused>>

Total == Len(Plan(job))

(* index of the loop over the plan: while it lasts, every record so far is *)
(* that of a completed stage.                                              *)
Index == Len(stages)

Stage == Plan(job)[Index + 1]

Progress(completed, n) == [completed |-> completed, attempt |-> n]

Init == /\ job \in Jobs
        /\ at = "preparing"
        /\ attempt = 1
        /\ artifacts = {}
        /\ stages = << >>
        /\ timers = {}
        /\ reported = Progress(0, 0)
        /\ outcome = "running"
        /\ refused = FALSE

-----------------------------------------------------------------------------
(* preparing_workspace, staging_input, building_stage_plan: the directory  *)
(* and the copy of the input are made, and the plan is built.              *)
StageInput ==
    /\ at = "preparing"
    /\ at' = IF Total = 0 THEN "finalizing" ELSE "between"
    /\ UNCHANGED <<job, attempt, artifacts, stages, timers, reported, outcome, refused>>

(* ... or cannot be made, and the call rejects.                            *)
StagingFails ==
    /\ at = "preparing"
    /\ at' = "ended"
    /\ outcome' = "threw"
    /\ UNCHANGED <<job, attempt, artifacts, stages, timers, reported, refused>>

(* running_stage is reported, the heartbeat is started and the stage runs. *)
StartAttempt ==
    /\ at = "between"
    /\ at' = "executing"
    /\ reported' = Progress(Index, attempt)
    /\ timers' = timers \cup {Progress(Index, attempt)}
    /\ UNCHANGED <<job, attempt, artifacts, stages, outcome, refused>>

(* An interval passes while the run awaits something.  Nobody awaits the   *)
(* report, and its interval is the closure's stage and attempt.            *)
Heartbeat ==
    /\ \E t \in timers : reported' = t
    /\ UNCHANGED <<job, at, attempt, artifacts, stages, timers, outcome, refused>>

(* Mutant: the timer is never cleared.                                     *)
StillTicking == timers

(* stopHeartbeat: the timer of this attempt is cleared.                    *)
Stopped == timers \ {Progress(Index, attempt)}

(* The stage's run() returned: its record is kept, its artifacts are       *)
(* assigned to the shared object and stage_completed is reported.          *)
AttemptSucceeds ==
    /\ at = "executing"
    /\ \E e \in Endings(Stage, artifacts, job) :
          /\ e.ends = "ok"
          /\ artifacts' = e.arts
          /\ refused' = (refused \/ e.refused)
    /\ stages' = Append(stages, "completed")
    /\ timers' = Stopped
    /\ reported' = Progress(Index + 1, 0)
    /\ attempt' = 1
    /\ at' = IF Index + 1 = Total THEN "finalizing" ELSE "between"
    /\ UNCHANGED <<job, outcome>>

(* Mutant: a retry is not counted.                                         *)
SameAttempt == attempt

NextAttempt == attempt + 1

(* Mutant: the comparison lets one attempt too many through.               *)
MayRetryOnceMore(ends) == ends = "transient" /\ attempt <= MaxAttempts

MayRetry(ends) == ends = "transient" /\ attempt < MaxAttempts

(* The attempt failed in a way that is retried: retrying_stage.            *)
AttemptRetried ==
    /\ at = "executing"
    /\ \E e \in Endings(Stage, artifacts, job) :
          /\ MayRetry(e.ends)
          /\ artifacts' = e.arts
          /\ refused' = (refused \/ e.refused)
    /\ timers' = Stopped
    /\ reported' = Progress(Index, attempt)
    /\ attempt' = NextAttempt
    /\ at' = "between"
    /\ UNCHANGED <<job, stages, outcome>>

(* The records of the stages behind the one that failed.                   *)
SkippedRest == [i \in 1..(Total - Index - 1) |-> "skipped"]

(* The attempt failed for good: the stage is recorded as failed, the rest  *)
(* as skipped, and the failure snapshot is returned.                       *)
StageFails ==
    /\ at = "executing"
    /\ \E e \in Endings(Stage, artifacts, job) :
          /\ e.ends # "ok"
          /\ ~MayRetry(e.ends)
          /\ artifacts' = e.arts
          /\ refused' = (refused \/ e.refused)
    /\ timers' = Stopped
    /\ reported' = Progress(Index, attempt)
    /\ stages' = Append(stages, "failed") \o SkippedRest
    /\ outcome' = "failed"
    /\ at' = "ended"
    /\ UNCHANGED <<job, attempt>>

(* finalizing_job, and the snapshot of a completed run.                    *)
Finalize ==
    /\ at = "finalizing"
    /\ reported' = Progress(Total, 0)
    /\ outcome' = "completed"
    /\ at' = "ended"
    /\ UNCHANGED <<job, attempt, artifacts, stages, timers, refused>>

Run == \/ StageInput \/ StagingFails \/ StartAttempt
       \/ AttemptSucceeds \/ AttemptRetried \/ StageFails \/ Finalize

Next == Run \/ Heartbeat

(* Every child process a stage waits for ends: the runner sets no time     *)
(* limit of its own.                                                       *)
Spec == Init /\ [][Next]_vars /\ WF_vars(Run)

-----------------------------------------------------------------------------
Progresses == [completed: 0..MaxStages, attempt: 0..MaxAttempts]

(* Types.  No attempt beyond the last allowed one is made or reported      *)
(* (the loop of executeStageWithRetries).                                  *)
TypeOK ==
    /\ job \in Jobs
    /\ at \in {"preparing", "between", "executing", "finalizing", "ended"}
    /\ attempt \in 1..MaxAttempts
    /\ stages \in Seq({"completed", "failed", "skipped"})
    /\ timers \subseteq Progresses
    /\ reported \in Progresses
    /\ outcome \in {"running", "completed", "failed", "threw"}
    /\ refused \in BOOLEAN

(* Progress reaches onProgress in the order in which it was made: neither  *)
(* the stages completed nor the attempt at the present one ever go back,   *)
(* although a timer reports what it saw when it was set                    *)
(* (startStageHeartbeat).                                                  *)
ProgressNeverGoesBack ==
    [][ \/ reported'.completed > reported.completed
        \/ /\ reported'.completed = reported.completed
           /\ \/ reported'.attempt >= reported.attempt
              \/ at = "finalizing" ]_reported

-----------------------------------------------------------------------------
(* The run as its caller sees it.                                          *)
Staged == INSTANCE StagedRun WITH total <- Total, record <- stages

(* runManagedWorkload is such a run, and it ends: attempts are bounded.    *)
RunSpec == Staged!FairSpec
=============================================================================
