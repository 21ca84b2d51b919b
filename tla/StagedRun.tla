----------------------------- MODULE StagedRun -----------------------------
(***************************************************************************)
(* What a caller of runManagedWorkload is promised, whatever the stages    *)
(* are: the stages complete one after another, the run completes only      *)
(* when all of them have, a failed stage ends it and the stages behind it  *)
(* are recorded as skipped, and the run ends.  workload-runner.js keeps    *)
(* this with attempts, retries and heartbeats: see WorkloadRunner.         *)
(***************************************************************************)
EXTENDS Naturals, Sequences

VARIABLES total,    \* how many stages the plan has
          record,   \* the status of each stage that has one, in plan order
          outcome   \* "running", or how the run ended

stagedVars == <<total, record, outcome>>

Completed(n) == [i \in 1..n |-> "completed"]

(* The record of a run whose stage after the first n failed.               *)
FailedAfter(n, m) ==
    [i \in 1..m |-> IF i <= n THEN "completed"
                    ELSE IF i = n + 1 THEN "failed" ELSE "skipped"]

Init == /\ total \in Nat
        /\ record = << >>
        /\ outcome = "running"

Running == outcome = "running" /\ total' = total

Advance == /\ Running
           /\ Len(record) < total
           /\ record' = Completed(Len(record) + 1)
           /\ outcome' = "running"

Complete == /\ Running
            /\ Len(record) = total
            /\ outcome' = "completed"
            /\ record' = record

Fail == /\ Running
        /\ Len(record) < total
        /\ record' = FailedAfter(Len(record), total)
        /\ outcome' = "failed"

(* Before the first stage the run may reject: the workspace or the copy of *)
(* the input could not be made.                                            *)
Reject == /\ Running
          /\ record = << >>
          /\ outcome' = "threw"
          /\ record' = record

Next == Advance \/ Complete \/ Fail \/ Reject

Spec == Init /\ [][Next]_stagedVars

FairSpec == Spec /\ WF_stagedVars(Next)
=============================================================================
