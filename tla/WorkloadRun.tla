---------------------------- MODULE WorkloadRun ----------------------------
(***************************************************************************)
(* A run of any of the four workloads: the runner of WorkloadRunner over   *)
(* the stages of WorkloadPlans, which a configuration gives to its         *)
(* constants.                                                              *)
(***************************************************************************)
EXTENDS WorkloadRunner, WorkloadPlans

(* Whatever options a request combines, and whatever failed and was        *)
(* retried or replaced by a fallback before, an attempt finds the paths it *)
(* reads in the artifacts object: the closures of                          *)
(* accessibility-stage-plan.js pass undefined otherwise, and a redaction   *)
(* would be written without its redactions (tag-redaction-runner.js).  The *)
(* exception is a repeated preservation stage of a production run that     *)
(* withdrew its candidate.                                                 *)
InputsReady ==
    (at = "executing") =>
        \/ Needs(Stage, job) \subseteq artifacts
        \/ Stage = "preservationQuality" /\ job.production /\ refused

(* The withdrawn candidate: once the preservation stage of a production    *)
(* run refused the candidate, on account of the preservation report, the   *)
(* saved semantics or the completion check, no retry of the stage lets the *)
(* run complete, whatever its error says; and a run that completed has its *)
(* evidence and offers the candidate under no other name.  An attempt that *)
(* broke off before it refused does not count: the next one judges anew.   *)
RefusalStands ==
    (outcome = "completed" /\ job.production) =>
        /\ ~refused
        /\ {"candidatePdf", "qualityReport", "completionReport"} \subseteq artifacts
        /\ "taggedPdf" \notin artifacts

(* docs/profiles.md:155, of a preservation check that ends as "error" or   *)
(* "rejected", in whatever run: "Either fails the pipeline stage without   *)
(* retry."                                                                 *)
RefusalFailsTheStage == (outcome = "completed") => ~refused
=============================================================================
