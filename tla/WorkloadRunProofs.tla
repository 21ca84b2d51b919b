------------------------- MODULE WorkloadRunProofs -------------------------
(***************************************************************************)
(* Proofs about WorkloadRunner, for every plan, and about WorkloadRun, for *)
(* every job of the four workloads; both for any number of attempts.       *)
(*                                                                         *)
(* While a run lasts its records are a prefix of completed stages, and a   *)
(* timer is set exactly while an attempt executes, for that attempt: the   *)
(* types, the order of the reports and the refinement of StagedRun follow. *)
(* For the workloads the argument has three parts: where each stage stands *)
(* in its plan, that what a stage reads is surely added by a stage before  *)
(* it (NeedsAreMade), and that no later attempt takes it away (StageLeaves,*)
(* VerdictLeaves), but for the candidate a production run withdraws.       *)
(***************************************************************************)
EXTENDS WorkloadRun, SequenceTheorems, TLAPS

Statuses == {"completed", "failed", "skipped"}

(* The control of a run: what its records are while it lasts. *)
Prefix == at # "ended" =>
    /\ outcome = "running"
    /\ \A i \in 1..Index : stages[i] = "completed"
    /\ Index <= Total
    /\ at = "preparing" => Index = 0
    /\ at \in {"between", "executing"} => Index < Total
    /\ at = "finalizing" => Index = Total

(* The timers, and the last report against where the run stands. *)
Announced ==
    /\ timers = IF at = "executing" THEN {Progress(Index, attempt)} ELSE {}
    /\ at \in {"preparing", "between"} =>
         \/ reported.completed < Index
         \/ reported.completed = Index /\ reported.attempt <= attempt
    /\ at = "preparing" => reported.completed = 0
    /\ at = "executing" => reported = Progress(Index, attempt)
    /\ at = "finalizing" => reported.completed = Index

Ended == at = "ended" => outcome # "running"

IInv == TypeOK /\ Prefix /\ Announced /\ Ended

LEMMA TotalInRange ==
  ASSUME TypeOK
  PROVE  Total \in 0..MaxStages /\ MaxStages \in Nat /\ Total \in Nat /\ Total <= MaxStages
BY WorkloadRunnerAssumption DEF TypeOK, Total

LEMMA InitIsIInv == Init => IInv
<1> SUFFICES ASSUME Init PROVE IInv
  OBVIOUS
<1> USE WorkloadRunnerAssumption DEF Init
<1>1. stages \in Seq(Statuses) /\ Len(stages) = 0
  BY DEF Statuses
<1>2. TypeOK
  <2>1. Progress(0, 0) \in Progresses
    BY DEF Progresses, Progress
  <2>2. 1 \in 1..MaxAttempts
    OBVIOUS
  <2>3. QED
    BY <1>1, <2>1, <2>2 DEF TypeOK, Statuses
<1>3. Total \in Nat
  BY <1>2, TotalInRange
<1>4. Prefix
  BY <1>1, <1>3 DEF Prefix, Index
<1>5. Announced /\ Ended
  BY <1>1 DEF Announced, Ended, Index, Progress
<1>6. QED
  BY <1>2, <1>4, <1>5 DEF IInv

(* A report made at an attempt of the stage at hand has its type. *)
LEMMA ReportTyped ==
  ASSUME TypeOK, NEW n \in 0..Total, NEW a \in 0..MaxAttempts
  PROVE  Progress(n, a) \in Progresses
BY TotalInRange DEF Progress, Progresses

LEMMA NextKeepsIInv == IInv /\ [Next]_vars => IInv'
<1> SUFFICES ASSUME IInv, [Next]_vars PROVE IInv'
  OBVIOUS
<1> USE DEF IInv
<1>a. Index \in Nat /\ stages \in Seq(Statuses) /\ attempt \in 1..MaxAttempts
      /\ MaxAttempts \in Nat \ {0} /\ Total \in Nat /\ Total <= MaxStages /\ MaxStages \in Nat
  BY WorkloadRunnerAssumption, TotalInRange DEF TypeOK, Index, Statuses
<1>1. CASE UNCHANGED vars
  BY <1>1 DEF vars, TypeOK, Prefix, Announced, Ended, Index, Total
<1>2. CASE StageInput
  <2> USE <1>2 DEF StageInput
  <2>1. TypeOK'
    BY DEF TypeOK
  <2>2. Index' = Index /\ Total' = Total /\ Index = 0
    BY DEF Index, Total, Prefix
  <2>3. Prefix'
    BY <1>a, <2>2 DEF Prefix
  <2>4. Announced' /\ Ended'
    BY <1>a, <2>2 DEF Announced, Ended
  <2>5. QED
    BY <2>1, <2>3, <2>4
<1>3. CASE StagingFails
  BY <1>3 DEF StagingFails, TypeOK, Prefix, Announced, Ended, Index, Total
<1>4. CASE StartAttempt
  <2> USE <1>4 DEF StartAttempt
  <2>1. Progress(Index, attempt) \in Progresses
    BY <1>a, ReportTyped DEF Prefix
  <2>2. TypeOK'
    BY <2>1 DEF TypeOK
  <2>3. Prefix' /\ Ended'
    BY DEF Prefix, Ended, Index, Total
  <2>4. Announced'
    BY <1>a DEF Announced, Index, Progress
  <2>5. QED
    BY <2>2, <2>3, <2>4
<1>5. CASE Heartbeat
  BY <1>5 DEF Heartbeat, TypeOK, Prefix, Announced, Ended, Index, Total
<1>6. CASE AttemptSucceeds
  <2> USE <1>6 DEF AttemptSucceeds
  <2>0. Index < Total /\ Index + 1 \in 0..Total /\ Stopped = {}
    BY <1>a DEF Prefix, Announced, Stopped
  <2>1. /\ stages' \in Seq(Statuses)
        /\ Index' = Index + 1
        /\ \A i \in 1..Index : stages'[i] = stages[i]
        /\ stages'[Index + 1] = "completed"
    BY <1>a, AppendProperties DEF Statuses, Index
  <2>2. Progress(Index + 1, 0) \in Progresses
    BY <2>0, <1>a, ReportTyped
  <2>3. TypeOK'
    <3>1. refused' \in BOOLEAN /\ 1 \in 1..MaxAttempts
      BY <1>a DEF TypeOK
    <3>2. at' \in {"finalizing", "between"}
      OBVIOUS
    <3>3. timers' = {} /\ reported' \in Progresses
      BY <2>0, <2>2
    <3>4. job' \in Jobs /\ outcome' \in {"running", "completed", "failed", "threw"}
      BY DEF TypeOK
    <3>5. attempt' \in 1..MaxAttempts /\ stages' \in Seq({"completed", "failed", "skipped"})
      BY <2>1, <3>1 DEF Statuses
    <3>6. QED
      BY <3>1, <3>2, <3>3, <3>4, <3>5 DEF TypeOK
  <2>4. Prefix'
    <3>1. \A i \in 1..Index' : stages'[i] = "completed"
      <4>1. \A i \in 1..Index : stages[i] = "completed"
        BY DEF Prefix
      <4>2. SUFFICES ASSUME NEW i \in 1..(Index + 1) PROVE stages'[i] = "completed"
        BY <2>1
      <4>3. CASE i = Index + 1
        BY <2>1, <4>3
      <4>4. CASE i # Index + 1
        <5>1. i \in 1..Index
          BY <1>a, <4>4
        <5>2. stages'[i] = stages[i] /\ stages[i] = "completed"
          BY ONLY <2>1, <4>1, <5>1
        <5>3. QED
          BY <5>2
      <4>5. QED
        BY <4>3, <4>4
    <3>2. Total' = Total
      BY DEF Total
    <3>3. outcome' = "running"
      BY DEF Prefix
    <3>4. IF Index + 1 = Total THEN at' = "finalizing" ELSE at' = "between"
      OBVIOUS
    <3>5. Index' <= Total' /\ Index' \in Nat
      BY <1>a, <2>0, <2>1, <3>2
    <3>6. at' = "finalizing" => Index' = Total'
      BY <2>1, <3>2, <3>4
    <3>7. at' = "between" => Index' < Total'
      BY <1>a, <2>0, <2>1, <3>2, <3>4
    <3>8. at' \in {"finalizing", "between"}
      BY <3>4
    <3>9. QED
      BY <3>1, <3>3, <3>5, <3>6, <3>7, <3>8 DEF Prefix
  <2>5. Announced' /\ Ended'
    BY <1>a, <2>0, <2>1 DEF Announced, Ended, Progress
  <2>6. QED
    BY <2>3, <2>4, <2>5
<1>7. CASE AttemptRetried
  <2> USE <1>7 DEF AttemptRetried
  <2>0. Index < Total /\ Index \in 0..Total /\ Stopped = {} /\ attempt < MaxAttempts
    BY <1>a DEF Prefix, Announced, Stopped, MayRetry
  <2>1. Progress(Index, attempt) \in Progresses
    BY <2>0, <1>a, ReportTyped
  <2>2. TypeOK'
    BY <1>a, <2>0, <2>1 DEF TypeOK, NextAttempt
  <2>3. Prefix' /\ Ended'
    BY <2>0 DEF Prefix, Ended, Index, Total
  <2>4. Announced'
    BY <1>a, <2>0 DEF Announced, Index, Progress, NextAttempt
  <2>5. QED
    BY <2>2, <2>3, <2>4
<1>8. CASE StageFails
  <2> USE <1>8 DEF StageFails
  <2>0. Index < Total /\ Index \in 0..Total /\ Stopped = {}
    BY <1>a DEF Prefix, Announced, Stopped
  <2>1. Progress(Index, attempt) \in Progresses
    BY <2>0, <1>a, ReportTyped
  <2>2. SkippedRest \in Seq(Statuses)
    BY <1>a, <2>0 DEF SkippedRest, Statuses
  <2>3. Append(stages, "failed") \in Seq(Statuses)
    BY <1>a, AppendProperties DEF Statuses
  <2>4. stages' \in Seq(Statuses)
    BY <2>2, <2>3, ConcatProperties
  <2>5. TypeOK'
    BY <1>a, <2>0, <2>1, <2>4 DEF TypeOK, Statuses
  <2>6. Prefix' /\ Ended'
    BY DEF Prefix, Ended
  <2>7. Announced'
    BY <2>0 DEF Announced
  <2>8. QED
    BY <2>5, <2>6, <2>7
<1>9. CASE Finalize
  <2> USE <1>9 DEF Finalize
  <2>0. Total \in 0..Total /\ 0 \in 0..MaxAttempts
    BY <1>a
  <2>1. Progress(Total, 0) \in Progresses
    BY <2>0, ReportTyped
  <2>2. TypeOK'
    BY <2>1 DEF TypeOK
  <2>3. Prefix' /\ Ended'
    BY DEF Prefix, Ended
  <2>4. Announced'
    BY DEF Announced
  <2>5. QED
    BY <2>2, <2>3, <2>4
<1>10. QED
  BY <1>1, <1>2, <1>3, <1>4, <1>5, <1>6, <1>7, <1>8, <1>9 DEF Next, Run

LEMMA Invariance == Spec => []IInv
<1>1. QED
  BY InitIsIInv, NextKeepsIInv, PTL DEF Spec

(* Type correctness: in particular no attempt beyond MaxAttempts is made or *)
(* reported by executeStageWithRetries.                                    *)
THEOREM RunnerTypeCorrect == Spec => []TypeOK
<1>1. IInv => TypeOK
  BY DEF IInv
<1>2. QED
  BY <1>1, Invariance, PTL

(* Reports reach onProgress in order: what startStageHeartbeat's timer      *)
(* repeats is never older than what was reported before it.                *)
THEOREM ProgressIsMonotone == Spec => ProgressNeverGoesBack
<1>1. IInv /\ [Next]_vars =>
        [ \/ reported'.completed > reported.completed
          \/ /\ reported'.completed = reported.completed
             /\ \/ reported'.attempt >= reported.attempt
                \/ at = "finalizing" ]_reported
  <2> SUFFICES ASSUME IInv, [Next]_vars, reported' # reported
               PROVE  \/ reported'.completed > reported.completed
                      \/ /\ reported'.completed = reported.completed
                         /\ \/ reported'.attempt >= reported.attempt
                            \/ at = "finalizing"
    OBVIOUS
  <2> USE DEF IInv
  <2>a. Index \in Nat /\ attempt \in 1..MaxAttempts /\ MaxAttempts \in Nat
        /\ reported.completed \in Nat /\ reported.attempt \in Nat
    BY WorkloadRunnerAssumption DEF TypeOK, Index, Progresses
  <2>1. CASE StartAttempt
    BY <2>1, <2>a DEF StartAttempt, Announced, Progress
  <2>2. CASE Heartbeat
    BY <2>2, <2>a DEF Heartbeat, Announced, Progress
  <2>3. CASE AttemptSucceeds
    BY <2>3, <2>a DEF AttemptSucceeds, Announced, Progress
  <2>4. CASE AttemptRetried \/ StageFails
    BY <2>4, <2>a DEF AttemptRetried, StageFails, Announced, Progress
  <2>5. CASE Finalize
    BY <2>5, <2>a DEF Finalize, Announced, Progress, Prefix
  <2>6. CASE StageInput \/ StagingFails \/ UNCHANGED vars
    BY <2>6 DEF StageInput, StagingFails, vars
  <2>7. QED
    BY <2>1, <2>2, <2>3, <2>4, <2>5, <2>6 DEF Next, Run
<1>2. QED
  BY <1>1, Invariance, PTL DEF Spec, ProgressNeverGoesBack

(* Every step of runManagedWorkload is a step, or a stutter, of the run its *)
(* caller is promised: stages complete one by one, a failed stage ends the *)
(* run with the rest skipped, and it completes only after all of them.     *)
THEOREM RunImplementsStages == Spec => Staged!Spec
<1>1. Init => Staged!Init
  BY WorkloadRunnerAssumption DEF Init, Staged!Init, Total
<1>2. IInv /\ [Next]_vars => [Staged!Next]_(Staged!stagedVars)
  <2> SUFFICES ASSUME IInv, [Next]_vars PROVE [Staged!Next]_(Staged!stagedVars)
    OBVIOUS
  <2> USE DEF IInv
  <2>a. Index \in Nat /\ stages \in Seq(Statuses) /\ Total \in Nat
        /\ Len(stages) = Index /\ DOMAIN stages = 1..Index
    BY TotalInRange DEF TypeOK, Index, Statuses
  <2>1. CASE StageInput \/ StartAttempt \/ Heartbeat \/ AttemptRetried \/ UNCHANGED vars
    BY <2>1 DEF StageInput, StartAttempt, Heartbeat, AttemptRetried, vars,
                Staged!stagedVars, Total
  <2>2. CASE StagingFails
    <3>1. stages = << >> /\ outcome = "running"
      BY <2>2, <2>a DEF StagingFails, Prefix
    <3>2. Staged!Reject
      BY <2>2, <3>1 DEF StagingFails, Staged!Reject, Staged!Running, Total
    <3>3. QED
      BY <3>2 DEF Staged!Next
  <2>3. CASE AttemptSucceeds
    <3>1. outcome = "running" /\ Index < Total /\ Total' = Total /\ outcome' = outcome
      BY <2>3 DEF AttemptSucceeds, Prefix, Total
    <3>2. stages' = Append(stages, "completed")
      BY <2>3 DEF AttemptSucceeds
    <3>3. \A i \in 1..Index : stages[i] = "completed"
      BY <2>3 DEF AttemptSucceeds, Prefix
    <3>4. stages' = [i \in 1..(Index + 1) |-> "completed"]
      <4> DEFINE all == [i \in 1..(Index + 1) |-> "completed"]
      <4>1. stages' \in Seq(Statuses) /\ Len(stages') = Index + 1
        BY <2>a, <3>2, AppendProperties DEF Statuses
      <4>2. \A i \in 1..(Index + 1) : stages'[i] = "completed"
        BY <2>a, <3>2, <3>3
      <4>3. all \in Seq(Statuses) /\ Len(all) = Index + 1
            /\ \A i \in 1..(Index + 1) : all[i] = "completed"
        BY <2>a DEF Statuses
      <4> HIDE DEF all
      <4>4. stages' = all
        BY <4>1, <4>2, <4>3, SeqEqual
      <4>5. QED
        BY <4>4 DEF all
    <3>5. Staged!Advance
      BY <2>a, <3>1, <3>4 DEF Staged!Advance, Staged!Running, Staged!Completed
    <3>6. QED
      BY <3>5 DEF Staged!Next
  <2>4. CASE StageFails
    <3>1. /\ outcome = "running" /\ outcome' = "failed"
          /\ Index < Total /\ Total' = Total
          /\ stages' = Append(stages, "failed") \o SkippedRest
      BY <2>4 DEF StageFails, Prefix, Total
    <3>2. \A i \in 1..Index : stages[i] = "completed"
      BY <2>4 DEF StageFails, Prefix
    <3> DEFINE head == Append(stages, "failed")
               k == Total - Index - 1
    <3>3. /\ head \in Seq(Statuses) /\ Len(head) = Index + 1
          /\ \A i \in 1..(Index + 1) : head[i] = IF i <= Index THEN "completed" ELSE "failed"
      BY <2>a, <3>2 DEF Statuses
    <3>4. /\ k \in Nat /\ SkippedRest \in Seq(Statuses) /\ Len(SkippedRest) = k
          /\ \A i \in 1..k : SkippedRest[i] = "skipped"
      BY <2>a, <3>1 DEF SkippedRest, Statuses
    <3> HIDE DEF head
    <3>5. head \o SkippedRest = Staged!FailedAfter(Index, Total)
      <4>1. /\ head \o SkippedRest \in Seq(Statuses)
            /\ Len(head \o SkippedRest) = Total
        BY <2>a, <3>3, <3>4, ConcatProperties
      <4>2. \A i \in 1..Total : (head \o SkippedRest)[i]
                = IF i <= Index + 1 THEN head[i] ELSE SkippedRest[i - (Index + 1)]
        BY <2>a, <3>3, <3>4, ConcatProperties
      <4>3. \A i \in 1..Total : (head \o SkippedRest)[i] = Staged!FailedAfter(Index, Total)[i]
        BY <2>a, <3>1, <3>3, <3>4, <4>2 DEF Staged!FailedAfter
      <4>4. /\ Staged!FailedAfter(Index, Total) \in Seq(Statuses)
            /\ Len(Staged!FailedAfter(Index, Total)) = Total
        BY <2>a DEF Staged!FailedAfter, Statuses
      <4>5. QED
        BY <4>1, <4>3, <4>4, SeqEqual
    <3>6. Staged!Fail
      BY <2>a, <3>1, <3>5 DEF Staged!Fail, Staged!Running, head
    <3>7. QED
      BY <3>6 DEF Staged!Next
  <2>5. CASE Finalize
    <3>1. Staged!Complete
      BY <2>5, <2>a DEF Finalize, Staged!Complete, Staged!Running, Prefix, Total
    <3>2. QED
      BY <3>1 DEF Staged!Next
  <2>6. QED
    BY <2>1, <2>2, <2>3, <2>4, <2>5 DEF Next, Run
<1>3. QED
  BY <1>1, <1>2, Invariance, PTL DEF Spec, Staged!Spec

-----------------------------------------------------------------------------
(* Every key of every plan.                                                *)
StageKeys == {"layout", "sourceTextMap", "tableStructureMap", "layoutEnriched", "semantic",
              "paragraphMerger", "readingOrder", "mlClassifier", "semanticRedaction",
              "tagBuilder", "pdfWriter", "tagDeltaReport", "redactionFinalize", "validator",
              "preservationQuality", "redactor", "repair", "fontRepair"}

-----------------------------------------------------------------------------
(* Where the stages of a plan stand.                                       *)

(* u is s, of length m, and behind it t, of length n.                      *)
Joined(u, s, t, m, n) ==
  /\ u \in Seq(StageKeys)
  /\ Len(u) = m + n
  /\ \A i \in 1..m : u[i] = s[i]
  /\ \A i \in 1..n : u[m + i] = t[i]

LEMMA Places ==
  ASSUME NEW s \in Seq(StageKeys), NEW t \in Seq(StageKeys),
         NEW m \in Nat, NEW n \in Nat, Len(s) = m, Len(t) = n
  PROVE  Joined(s \o t, s, t, m, n)
<1> DEFINE u == s \o t
<1>1. /\ u \in Seq(StageKeys)
      /\ Len(u) = Len(s) + Len(t)
      /\ \A i \in 1..(Len(s) + Len(t)) : u[i] = IF i <= Len(s) THEN s[i] ELSE t[i - Len(s)]
  BY ConcatProperties
<1> HIDE DEF u
<1>2. Len(u) = m + n /\ \A i \in 1..(m + n) : u[i] = IF i <= m THEN s[i] ELSE t[i - m]
  BY <1>1
<1>3. ASSUME NEW i \in 1..m PROVE u[i] = s[i]
  BY <1>2
<1>4. ASSUME NEW i \in 1..n PROVE u[m + i] = t[i]
  <2>1. m + i \in 1..(m + n) /\ ~(m + i <= m) /\ (m + i) - m = i
    OBVIOUS
  <2>2. QED
    BY <1>2, <2>1
<1>5. QED
  BY <1>1, <1>2, <1>3, <1>4 DEF u, Joined

LEMMA PreparationPlaces ==
  ASSUME NEW j \in WorkloadJobs, NEW p, p = PreparationStages(j)
  PROVE  /\ p \in Seq(StageKeys)
         /\ Len(p) = IF j.ml THEN 8 ELSE 7
         /\ p[1] = "layout" /\ p[2] = "sourceTextMap" /\ p[3] = "tableStructureMap"
         /\ p[4] = "layoutEnriched" /\ p[5] = "semantic" /\ p[6] = "paragraphMerger"
         /\ p[7] = "readingOrder" /\ (j.ml => p[8] = "mlClassifier")
<1> DEFINE first == <<"layout", "sourceTextMap", "tableStructureMap", "layoutEnriched",
                      "semantic", "paragraphMerger", "readingOrder">>
           second == IF j.ml THEN <<"mlClassifier">> ELSE << >>
           n == IF j.ml THEN 1 ELSE 0
<1>1. first \in Seq(StageKeys) /\ Len(first) = 7
      /\ first[1] = "layout" /\ first[2] = "sourceTextMap" /\ first[3] = "tableStructureMap"
      /\ first[4] = "layoutEnriched" /\ first[5] = "semantic" /\ first[6] = "paragraphMerger"
      /\ first[7] = "readingOrder"
  BY DEF StageKeys
<1>2. second \in Seq(StageKeys) /\ Len(second) = n
      /\ (j.ml => second[1] = "mlClassifier")
  <2>1. CASE j.ml
    BY <2>1 DEF StageKeys
  <2>2. CASE ~j.ml
    BY <2>2 DEF StageKeys
  <2>3. QED
    BY <2>1, <2>2
<1>3. p = first \o second /\ 7 \in Nat /\ n \in Nat
  BY DEF PreparationStages
<1>4. (j.ml <=> n = 1) /\ n \in 0..1
  OBVIOUS
<1> HIDE DEF first, second, n
<1>5. Joined(p, first, second, 7, n)
  BY <1>1, <1>2, <1>3, Places
<1>6. ASSUME j.ml PROVE p[8] = "mlClassifier"
  <2>1. 1 \in 1..n /\ 7 + 1 = 8
    BY <1>4, <1>6
  <2>2. QED
    BY <1>2, <1>5, <1>6, <2>1 DEF Joined
<1>7. QED
  BY <1>1, <1>4, <1>5, <1>6 DEF Joined

(* The redaction adds a stage to the output stages, before the validator.  *)
Shift(j) == IF Redacts(j) THEN 1 ELSE 0

LEMMA OutputPlaces ==
  ASSUME NEW j \in WorkloadJobs, NEW p, p = OutputStages(j)
  PROVE  /\ p \in Seq(StageKeys)
         /\ Len(p) = 4 + Shift(j) + (IF Checked(j) THEN 1 ELSE 0)
         /\ p[1] = "tagBuilder" /\ p[2] = "pdfWriter" /\ p[3] = "tagDeltaReport"
         /\ Redacts(j) => p[4] = "redactionFinalize"
         /\ p[3 + Shift(j) + 1] = "validator"
         /\ Checked(j) => p[3 + Shift(j) + 1 + 1] = "preservationQuality"
<1> DEFINE first == <<"tagBuilder", "pdfWriter", "tagDeltaReport">>
           second == IF Redacts(j) THEN <<"redactionFinalize">> ELSE << >>
           third == <<"validator">>
           fourth == IF Checked(j) THEN <<"preservationQuality">> ELSE << >>
           r == Shift(j)
           c == IF Checked(j) THEN 1 ELSE 0
<1>0. r \in 0..1 /\ c \in 0..1 /\ (Redacts(j) <=> r = 1) /\ (Checked(j) <=> c = 1)
  BY DEF Shift
<1>1. first \in Seq(StageKeys) /\ Len(first) = 3
      /\ first[1] = "tagBuilder" /\ first[2] = "pdfWriter" /\ first[3] = "tagDeltaReport"
  BY DEF StageKeys
<1>2. second \in Seq(StageKeys) /\ Len(second) = r /\ (Redacts(j) => second[1] = "redactionFinalize")
  <2>1. CASE Redacts(j)
    BY <2>1 DEF StageKeys, Shift
  <2>2. CASE ~Redacts(j)
    BY <2>2 DEF StageKeys, Shift
  <2>3. QED
    BY <2>1, <2>2
<1>3. third \in Seq(StageKeys) /\ Len(third) = 1 /\ third[1] = "validator"
  BY DEF StageKeys
<1>4. fourth \in Seq(StageKeys) /\ Len(fourth) = c /\ (Checked(j) => fourth[1] = "preservationQuality")
  <2>1. CASE Checked(j)
    BY <2>1 DEF StageKeys
  <2>2. CASE ~Checked(j)
    BY <2>2 DEF StageKeys
  <2>3. QED
    BY <2>1, <2>2
<1> DEFINE two == first \o second
           three == two \o third
<1>5. p = three \o fourth
  BY DEF OutputStages
<1> HIDE DEF first, second, third, fourth, c, r
<1>6. Joined(two, first, second, 3, r)
  <2>1. 3 \in Nat /\ r \in Nat
    BY <1>0
  <2>2. QED
    BY <1>1, <1>2, <2>1, Places
<1>7. Redacts(j) => two[4] = "redactionFinalize"
  BY <1>0, <1>2, <1>6 DEF Joined
<1> HIDE DEF two
<1>8. Joined(three, two, third, 3 + r, 1)
  <2>1. 3 + r \in Nat /\ 1 \in Nat
    BY <1>0
  <2>2. QED
    BY <1>3, <1>6, <2>1, Places, ZenonT(40) DEF Joined
<1> HIDE DEF three
<1>9. Joined(p, three, fourth, 3 + r + 1, c)
  <2>1. 3 + r + 1 \in Nat /\ c \in Nat
    BY <1>0
  <2>2. three \in Seq(StageKeys) /\ Len(three) = 3 + r + 1
    BY <1>8 DEF Joined
  <2>3. QED
    BY <1>4, <1>5, <2>1, <2>2, Places
<1>10. Checked(j) => p[3 + r + 1 + 1] = "preservationQuality"
  BY <1>0, <1>4, <1>9 DEF Joined
<1>11. p[3 + r + 1] = "validator"
  <2>1. 3 + r + 1 \in 1..(3 + r + 1) /\ 1 \in 1..1
    BY <1>0
  <2>2. QED
    BY <1>3, <1>8, <1>9, <2>1 DEF Joined
<1>12. p[1] = "tagBuilder" /\ p[2] = "pdfWriter" /\ p[3] = "tagDeltaReport"
  <2>1. \A i \in 1..3 : i \in 1..(3 + r) /\ i \in 1..(3 + r + 1)
    BY <1>0
  <2>2. \A i \in 1..3 : p[i] = first[i]
    BY <2>1, <1>6, <1>8, <1>9 DEF Joined
  <2>3. QED
    BY <1>1, <2>2
<1>13. ASSUME Redacts(j) PROVE p[4] = "redactionFinalize"
  <2>1. 4 \in 1..(3 + r) /\ 4 \in 1..(3 + r + 1)
    BY <1>0, <1>13
  <2>2. QED
    BY <2>1, <1>7, <1>8, <1>9, <1>13 DEF Joined
<1>14. Len(p) = 4 + r + (IF Checked(j) THEN 1 ELSE 0)
  BY <1>0, <1>9 DEF Joined
<1>15. QED
  BY <1>9, <1>10, <1>11, <1>12, <1>13, <1>14 DEF r, Joined

(* How many stages come before the tag builder. *)
Ahead(j) == IF j.ml \/ Redacts(j) THEN 8 ELSE 7

Writes(j) == j.workload \in {"accessibility-tagging", "tag-and-ssn-redact"}

LEMMA WorkloadPlaces ==
  ASSUME NEW j \in WorkloadJobs, Writes(j), NEW p, p = WorkloadStages(j)
  PROVE  /\ p \in Seq(StageKeys)
         /\ Len(p) = Ahead(j) + (4 + Shift(j) + (IF Checked(j) THEN 1 ELSE 0))
         /\ p[1] = "layout" /\ p[2] = "sourceTextMap" /\ p[3] = "tableStructureMap"
         /\ p[4] = "layoutEnriched" /\ p[5] = "semantic" /\ p[6] = "paragraphMerger"
         /\ p[7] = "readingOrder" /\ (j.ml => p[8] = "mlClassifier")
         /\ Redacts(j) => p[8] = "semanticRedaction"
         /\ p[Ahead(j) + 1] = "tagBuilder" /\ p[Ahead(j) + 2] = "pdfWriter"
         /\ p[Ahead(j) + 3] = "tagDeltaReport"
         /\ Redacts(j) => p[Ahead(j) + 4] = "redactionFinalize"
         /\ p[Ahead(j) + (3 + Shift(j) + 1)] = "validator"
         /\ Checked(j) => p[Ahead(j) + (3 + Shift(j) + 1 + 1)] = "preservationQuality"
<1>0. Redacts(j) => ~j.ml
  BY DEF WorkloadJobs, Redacts
<1> DEFINE q == PreparationStages(j)
           front == IF Redacts(j) THEN q \o <<"semanticRedaction">> ELSE q
           back == OutputStages(j)
           m == Ahead(j)
           n == Len(back)
           r == Shift(j)
<1>1. p = front \o back
  BY DEF WorkloadStages, Writes, Redacts, WorkloadJobs
<1>2. /\ q \in Seq(StageKeys) /\ Len(q) = IF j.ml THEN 8 ELSE 7
      /\ q[1] = "layout" /\ q[2] = "sourceTextMap" /\ q[3] = "tableStructureMap"
      /\ q[4] = "layoutEnriched" /\ q[5] = "semantic" /\ q[6] = "paragraphMerger"
      /\ q[7] = "readingOrder" /\ (j.ml => q[8] = "mlClassifier")
  BY PreparationPlaces
<1> HIDE DEF q
<1>3. /\ front \in Seq(StageKeys) /\ Len(front) = m
      /\ \A i \in 1..7 : front[i] = q[i]
      /\ j.ml => front[8] = q[8]
      /\ Redacts(j) => front[8] = "semanticRedaction"
  <2>1. CASE ~Redacts(j)
    BY <1>2, <2>1 DEF Ahead
  <2>2. CASE Redacts(j)
    <3> DEFINE extra == <<"semanticRedaction">>
    <3>1. extra \in Seq(StageKeys) /\ Len(extra) = 1 /\ extra[1] = "semanticRedaction"
      BY DEF StageKeys
    <3>2. front = q \o extra /\ Len(q) = 7 /\ m = 8
      BY <1>0, <1>2, <2>2 DEF Ahead
    <3>3. 7 \in Nat /\ 1 \in Nat /\ 1 \in 1..1 /\ 7 + 1 = 8
      OBVIOUS
    <3> HIDE DEF extra, front, m
    <3>4. Joined(front, q, extra, 7, 1)
      BY <1>2, <3>1, <3>2, <3>3, Places
    <3>5. front[8] = extra[1]
      BY <3>3, <3>4 DEF Joined
    <3>6. QED
      BY <1>0, <2>2, <3>1, <3>2, <3>3, <3>4, <3>5 DEF Joined
  <2>3. QED
    BY <2>1, <2>2
<1>4. /\ back \in Seq(StageKeys)
      /\ n = 4 + r + (IF Checked(j) THEN 1 ELSE 0)
      /\ back[1] = "tagBuilder" /\ back[2] = "pdfWriter" /\ back[3] = "tagDeltaReport"
      /\ Redacts(j) => back[4] = "redactionFinalize"
      /\ back[3 + r + 1] = "validator"
      /\ Checked(j) => back[3 + r + 1 + 1] = "preservationQuality"
  BY OutputPlaces
<1>5. m \in 7..8 /\ n \in 4..6 /\ r \in 0..1
  BY <1>4 DEF Ahead, Shift
<1>6. j.ml \/ Redacts(j) => m = 8
  BY DEF Ahead
<1>7. n = Len(back)
  OBVIOUS
<1> HIDE DEF front, back, n, m, r
<1>8. Joined(p, front, back, m, n)
  <2>1. m \in Nat /\ n \in Nat
    BY <1>5
  <2>2. QED
    BY <1>1, <1>3, <1>4, <1>7, <2>1, Places
<1>9. /\ \A i \in 1..7 : p[i] = q[i]
      /\ j.ml => p[8] = q[8]
      /\ Redacts(j) => p[8] = "semanticRedaction"
  <2>1. \A i \in 1..7 : i \in 1..m
    BY <1>5
  <2>2. \A i \in 1..7 : p[i] = q[i]
    BY <1>3, <1>8, <2>1 DEF Joined
  <2>3. j.ml \/ Redacts(j) => p[8] = front[8]
    BY <1>6, <1>8 DEF Joined
  <2>4. QED
    BY <1>3, <2>2, <2>3
<1>10. /\ p[m + 1] = back[1] /\ p[m + 2] = back[2] /\ p[m + 3] = back[3] /\ p[m + 4] = back[4]
  BY <1>5, <1>8 DEF Joined
<1>11. p[m + (3 + r + 1)] = back[3 + r + 1]
  <2>1. 3 + r + 1 \in 1..n
    BY <1>4, <1>5
  <2>2. QED
    BY <1>8, <2>1 DEF Joined
<1>12. Checked(j) => p[m + (3 + r + 1 + 1)] = back[3 + r + 1 + 1]
  <2>1. Checked(j) => 3 + r + 1 + 1 \in 1..n
    BY <1>4, <1>5
  <2>2. QED
    BY <1>8, <2>1 DEF Joined
<1>13. /\ p[1] = "layout" /\ p[2] = "sourceTextMap" /\ p[3] = "tableStructureMap"
       /\ p[4] = "layoutEnriched" /\ p[5] = "semantic" /\ p[6] = "paragraphMerger"
       /\ p[7] = "readingOrder" /\ (j.ml => p[8] = "mlClassifier")
  BY <1>2, <1>9
<1>14. QED
  BY <1>4, <1>8, <1>9, <1>10, <1>11, <1>12, <1>13 DEF m, r, Joined

LEMMA ShortPlaces ==
  ASSUME NEW j \in WorkloadJobs, ~Writes(j), NEW p, p = WorkloadStages(j)
  PROVE  /\ Len(p) = 2
         /\ \/ p[1] = "layout" /\ p[2] = "redactor"
            \/ p[1] = "repair" /\ p[2] = "fontRepair"
         /\ ~Checked(j)
<1>1. CASE j.workload = "ssn-redaction"
  <2>1. p = <<"layout", "redactor">>
    BY <1>1 DEF WorkloadStages, Redacts
  <2>2. ~Checked(j)
    BY <1>1 DEF WorkloadJobs, Checked
  <2>3. QED
    BY <2>1, <2>2
<1>2. CASE j.workload = "corruption-repair"
  <2>1. p = <<"repair", "fontRepair">>
    BY <1>2 DEF WorkloadStages, Redacts
  <2>2. ~Checked(j)
    BY <1>2 DEF WorkloadJobs, Checked
  <2>3. QED
    BY <2>1, <2>2
<1>3. QED
  BY <1>1, <1>2 DEF WorkloadJobs, Writes

-----------------------------------------------------------------------------
(* What a stage that succeeded has surely added, fallback or not; the      *)
(* preservation stage is the last one, and adds nothing that is read.      *)
Sure(stage, j) ==
  CASE stage = "paragraphMerger" -> {"semanticMerged"}
    [] stage = "preservationQuality" -> {}
    [] OTHER -> Gives(stage, j)

(* The last stage's place, and what it is in a production run.             *)
LEMMA VerdictIsLast ==
  ASSUME NEW j \in WorkloadJobs, NEW p, p = WorkloadStages(j)
  PROVE  /\ Len(p) \in Nat
         /\ \A i \in 1..Len(p) : p[i] \in StageKeys
         /\ \A i \in 1..Len(p) : p[i] = "preservationQuality" => i = Len(p)
         /\ j.production => /\ p[Len(p)] = "preservationQuality"
                            /\ \E k \in 1..(Len(p) - 1) : p[k] = "pdfWriter"
<1>1. CASE ~Writes(j)
  <2>1. Len(p) = 2 /\ ~j.production /\ p[1] # "preservationQuality" /\ p[2] # "preservationQuality"
    BY <1>1, ShortPlaces DEF Checked
  <2>2. p[1] \in StageKeys /\ p[2] \in StageKeys
    <3>1. \/ p[1] = "layout" /\ p[2] = "redactor"
          \/ p[1] = "repair" /\ p[2] = "fontRepair"
      BY <1>1, ShortPlaces
    <3>2. QED
      BY <3>1 DEF StageKeys
  <2>3. QED
    BY <2>1, <2>2
<1>2. CASE Writes(j)
  <2> DEFINE m == Ahead(j)
             r == Shift(j)
             c == IF Checked(j) THEN 1 ELSE 0
  <2>0. p \in Seq(StageKeys)
    BY <1>2, WorkloadPlaces
  <2>1. /\ m \in 7..8 /\ r \in 0..1 /\ c \in 0..1
        /\ (j.ml \/ Redacts(j) <=> m = 8) /\ (Redacts(j) <=> r = 1) /\ (Checked(j) <=> c = 1)
    BY DEF Ahead, Shift
  <2>2. /\ Len(p) = m + (4 + r + c)
        /\ p[1] = "layout" /\ p[2] = "sourceTextMap" /\ p[3] = "tableStructureMap"
        /\ p[4] = "layoutEnriched" /\ p[5] = "semantic" /\ p[6] = "paragraphMerger"
        /\ p[7] = "readingOrder" /\ (j.ml => p[8] = "mlClassifier")
        /\ Redacts(j) => p[8] = "semanticRedaction"
        /\ p[m + 1] = "tagBuilder" /\ p[m + 2] = "pdfWriter" /\ p[m + 3] = "tagDeltaReport"
        /\ Redacts(j) => p[m + 4] = "redactionFinalize"
        /\ p[m + (3 + r + 1)] = "validator"
        /\ Checked(j) => p[m + (3 + r + 1 + 1)] = "preservationQuality"
    BY <1>2, WorkloadPlaces
  <2> HIDE DEF m, r, c
  <2>3. ASSUME NEW i \in 1..Len(p), i # m + (3 + r + 1 + 1) PROVE p[i] # "preservationQuality"
    <3>1. \/ i \in 1..7 \/ (i = 8 /\ m = 8) \/ i \in {m + 1, m + 2, m + 3}
          \/ (i = m + 4 /\ r = 1) \/ i = m + (3 + r + 1)
      BY <2>1, <2>2, <2>3
    <3>2. QED
      BY <2>1, <2>2, <3>1
  <2>4. m + (3 + r + 1 + 1) \in 1..Len(p) => m + (3 + r + 1 + 1) = Len(p)
    BY <2>1, <2>2
  <2>5. j.production => p[Len(p)] = "preservationQuality"
    BY <2>1, <2>2 DEF Checked
  <2>6. m + 2 \in 1..(Len(p) - 1) /\ Len(p) \in Nat
    BY <2>1, <2>2
  <2>7. \E k \in 1..(Len(p) - 1) : p[k] = "pdfWriter"
    BY <2>2, <2>6
  <2>8. \A i \in 1..Len(p) : p[i] \in StageKeys
    BY <2>0
  <2>9. QED
    BY <2>3, <2>4, <2>5, <2>6, <2>7, <2>8
<1>3. QED
  BY <1>1, <1>2

(* Every artifact a stage reads is surely added by a stage before it.      *)
LEMMA NeedsAreMade ==
  ASSUME NEW j \in WorkloadJobs, NEW p, p = WorkloadStages(j),
         NEW i \in 1..Len(p), NEW a \in Needs(p[i], j)
  PROVE  \E k \in 1..(i - 1) : a \in Sure(p[k], j)
<1> USE DEF Sure, Gives
<1>1. CASE ~Writes(j)
  <2>1. Len(p) = 2 /\ \/ p[1] = "layout" /\ p[2] = "redactor"
                      \/ p[1] = "repair" /\ p[2] = "fontRepair"
    BY <1>1, ShortPlaces
  <2>2. i \in {1, 2} /\ 1 \in 1..(2 - 1)
    BY <2>1
  <2>3. i = 2
    BY <2>1, <2>2 DEF Needs
  <2>4. a \in Sure(p[1], j)
    BY <2>1, <2>3 DEF Needs
  <2>5. QED
    BY <2>2, <2>3, <2>4
<1>2. CASE Writes(j)
  <2> DEFINE m == Ahead(j)
             r == Shift(j)
             c == IF Checked(j) THEN 1 ELSE 0
             key == SemanticKey(j)
  <2>1. /\ m \in 7..8 /\ r \in 0..1 /\ c \in 0..1
        /\ (j.ml \/ Redacts(j) <=> m = 8) /\ (Redacts(j) <=> r = 1) /\ (Checked(j) <=> c = 1)
    BY DEF Ahead, Shift
  <2>2. /\ Len(p) = m + (4 + r + c)
        /\ p[1] = "layout" /\ p[2] = "sourceTextMap" /\ p[3] = "tableStructureMap"
        /\ p[4] = "layoutEnriched" /\ p[5] = "semantic" /\ p[6] = "paragraphMerger"
        /\ p[7] = "readingOrder" /\ (j.ml => p[8] = "mlClassifier")
        /\ Redacts(j) => p[8] = "semanticRedaction"
        /\ p[m + 1] = "tagBuilder" /\ p[m + 2] = "pdfWriter" /\ p[m + 3] = "tagDeltaReport"
        /\ Redacts(j) => p[m + 4] = "redactionFinalize"
        /\ p[m + (3 + r + 1)] = "validator"
        /\ Checked(j) => p[m + (3 + r + 1 + 1)] = "preservationQuality"
    BY <1>2, WorkloadPlaces
  <2>3. Redacts(j) => ~j.ml
    BY DEF WorkloadJobs, Redacts
  <2> HIDE DEF m, r, c
  <2>4. /\ "layout" \in Sure(p[1], j) /\ "tableStructureMap" \in Sure(p[3], j)
        /\ "layoutEnriched" \in Sure(p[4], j) /\ "semantic" \in Sure(p[5], j)
        /\ "semanticMerged" \in Sure(p[6], j) /\ "semanticOrdered" \in Sure(p[7], j)
    BY <2>2
  <2>5. key \in Sure(p[m], j)
    BY <2>1, <2>2, <2>3, SMTT(30) DEF SemanticKey
  <2>6. Redacts(j) => "redactionPlan" \in Sure(p[8], j)
    BY <2>2
  <2>7. /\ "tagging" \in Sure(p[m + 1], j)
        /\ {"taggedPdf", "writerReport", "tagManifest"} \subseteq Sure(p[m + 2], j)
        /\ "validationReport" \in Sure(p[m + (3 + r + 1)], j)
    BY <2>2
  <2>8. /\ i \in Nat
        /\ \/ i \in 1..7 \/ (i = 8 /\ m = 8) \/ i \in {m + 1, m + 2, m + 3}
           \/ (i = m + 4 /\ r = 1) \/ i = m + (3 + r + 1)
           \/ (i = m + (3 + r + 1 + 1) /\ c = 1)
    BY <2>1, <2>2
  <2> HIDE DEF Sure, Gives, key
  <2>9. CASE i \in 1..7
    <3>1. \/ i \in {2, 3} /\ a = "layout"
          \/ i = 4 /\ a \in {"layout", "tableStructureMap"}
          \/ i = 5 /\ a = "layoutEnriched"
          \/ i = 6 /\ a = "semantic"
          \/ i = 7 /\ a = "semanticMerged"
      BY <2>2, <2>9 DEF Needs
    <3>2. QED
      BY <2>4, <3>1
  <2>10. CASE i = 8 /\ m = 8
    <3>1. a \in {"semanticOrdered", "layoutEnriched", "layout"}
      BY <2>1, <2>2, <2>10 DEF Needs
    <3>2. QED
      BY <2>4, <2>10, <3>1
  <2>11. CASE i = m + 1
    <3>1. a = key
      BY <2>2, <2>11 DEF Needs, key
    <3>2. m \in 1..(i - 1)
      BY <2>1, <2>11
    <3>3. QED
      BY <2>5, <3>1, <3>2
  <2>12. CASE i = m + 2
    <3>1. a \in {"tagging", key} \/ (Redacts(j) /\ a = "redactionPlan")
      BY <2>2, <2>12 DEF Needs, key
    <3>2. m \in 1..(i - 1) /\ m + 1 \in 1..(i - 1)
      BY <2>1, <2>12
    <3>3. Redacts(j) => 8 \in 1..(i - 1)
      BY <2>1, <2>12
    <3>4. QED
      BY <2>5, <2>6, <2>7, <3>1, <3>2, <3>3
  <2>13. CASE i = m + 3
    <3>1. a = "taggedPdf" /\ m + 2 \in 1..(i - 1)
      BY <2>1, <2>2, <2>13 DEF Needs
    <3>2. QED
      BY <2>7, <3>1
  <2>14. CASE i = m + 4 /\ r = 1
    <3>1. a \in {"taggedPdf", "redactionPlan"} /\ Redacts(j)
      BY <2>1, <2>2, <2>14 DEF Needs
    <3>2. m + 2 \in 1..(i - 1) /\ 8 \in 1..(i - 1)
      BY <2>1, <2>14, <3>1
    <3>3. QED
      BY <2>6, <2>7, <3>1, <3>2
  <2>15. CASE i = m + (3 + r + 1)
    <3>1. a \in {"taggedPdf", "tagManifest"} /\ m + 2 \in 1..(i - 1)
      BY <2>1, <2>2, <2>15, SMTT(30) DEF Needs
    <3>2. QED
      BY <2>7, <3>1
  <2>16. CASE i = m + (3 + r + 1 + 1) /\ c = 1
    <3>1. a \in {"taggedPdf", "validationReport", key, "writerReport", "tagging", "tagManifest"}
      BY <2>1, <2>2, <2>16 DEF Needs, key
    <3>2. /\ m \in 1..(i - 1) /\ m + 1 \in 1..(i - 1) /\ m + 2 \in 1..(i - 1)
          /\ m + (3 + r + 1) \in 1..(i - 1)
      BY <2>1, <2>16
    <3>3. QED
      BY <2>5, <2>7, <3>1, <3>2
  <2>17. QED
    BY <2>8, <2>9, <2>10, <2>11, <2>12, <2>13, <2>14, <2>15, <2>16
<1>3. QED
  BY <1>1, <1>2

-----------------------------------------------------------------------------
(* What an attempt leaves.                                                 *)

(* What an attempt may drop again; no stage counts on it.                  *)
Passing == {"completionReport", "sourceOwnership"}

LEMMA SureStays ==
  ASSUME NEW s \in StageKeys, NEW j
  PROVE  Sure(s, j) \cap Passing = {}
BY DEF StageKeys, Sure, Gives, Passing

LEMMA StageLeaves ==
  ASSUME NEW s, s # "preservationQuality", NEW arts, NEW j, NEW e \in WorkloadEndings(s, arts, j)
  PROVE  /\ e.refused = FALSE
         /\ arts \ Passing \subseteq e.arts
         /\ e.ends = "ok" => Sure(s, j) \subseteq e.arts
<1> DEFINE fresh == Fresh(s, arts, j)
<1>1. e \in StageEndings(s, fresh, j)
  BY DEF WorkloadEndings
<1>2. arts \ Passing \subseteq fresh
  BY DEF Fresh, Passing
<1> HIDE DEF fresh
<1>3. CASE e \in Breaks(fresh)
  BY <1>2, <1>3 DEF Breaks, Ending
<1>4. CASE e = Ending(fresh \cup Gives(s, j), "ok", FALSE)
  <2>1. Sure(s, j) \subseteq Gives(s, j)
    BY DEF Sure, Gives
  <2>2. QED
    BY <1>2, <1>4, <2>1 DEF Ending
<1>5. CASE s = "paragraphMerger" /\ e = Ending(fresh \cup {"semanticMerged"}, "ok", FALSE)
  BY <1>2, <1>5 DEF Ending, Sure
<1>6. QED
  BY <1>1, <1>3, <1>4, <1>5 DEF StageEndings

(* An attempt that refuses the candidate of a production run withdraws it, *)
(* and without a candidate none passes.  Any other attempt that fails      *)
(* keeps what is there, though it may have judged.                         *)
LEMMA VerdictLeaves ==
  ASSUME NEW arts, NEW j, NEW e \in WorkloadEndings("preservationQuality", arts, j)
  PROVE  /\ e.refused \in BOOLEAN
         /\ ~(e.refused /\ j.production) /\ e.ends # "ok" => arts \ Passing \subseteq e.arts
         /\ j.production =>
              /\ e.refused \/ "taggedPdf" \notin arts => "taggedPdf" \notin e.arts
              /\ e.ends = "ok" => /\ "taggedPdf" \in arts /\ ~e.refused
                                  /\ "taggedPdf" \notin e.arts
                                  /\ {"qualityReport", "completionReport"} \subseteq e.arts
                                  /\ arts \ (Passing \cup {"taggedPdf"}) \subseteq e.arts
<1> DEFINE s == "preservationQuality"
           fresh == Fresh(s, arts, j)
<1>1. fresh \subseteq arts /\ arts \ Passing \subseteq fresh
  BY DEF Fresh, Passing
<1>2. ASSUME NEW x, NEW b \in Breaks(x)
      PROVE  b.refused = FALSE /\ b.arts = x /\ b.ends # "ok"
  BY <1>2 DEF Breaks, Ending
<1>3. ASSUME NEW x PROVE /\ Refused(x, j).refused = TRUE /\ Refused(x, j).arts = x
                         /\ Refused(x, j).ends # "ok"
  BY DEF Refused, Refusal, Ending
<1>4. CASE j.production
  <2> DEFINE judged(p) == p[1] \cup {"qualityReport"}
             passed == {p \in Comparisons(fresh, j) : p[2] = "review_required"}
  <2>1. \/ e \in Breaks(fresh)
        \/ \E p \in Comparisons(fresh, j) : e \in Breaks(p[1])
        \/ \E p \in Comparisons(fresh, j) : e = Refused(Withdrawn(judged(p)), j)
        \/ \E p \in passed : e \in CompletionEndings(judged(p), j)
    <3>1. \/ e \in Breaks(fresh)
          \/ e \in Unwritten(Comparisons(fresh, j))
          \/ \E p \in Comparisons(fresh, j) : e = Refused(Withdrawn(judged(p)), j)
          \/ \E p \in passed : e \in CompletionEndings(judged(p), j)
      BY <1>4 DEF WorkloadEndings, ProductionEndings
    <3>2. e \in Unwritten(Comparisons(fresh, j)) => \E p \in Comparisons(fresh, j) : e \in Breaks(p[1])
      BY Zenon DEF Unwritten
    <3> HIDE DEF fresh, judged, passed
    <3>3. QED
      BY <3>1, <3>2
  <2>2. CASE e \in Breaks(fresh)
    BY <1>1, <1>2, <1>4, <2>2
  <2>3. ASSUME NEW p \in Comparisons(fresh, j), e \in Breaks(p[1])
        PROVE  /\ e.refused = FALSE /\ e.ends # "ok"
               /\ arts \ Passing \subseteq e.arts
               /\ "taggedPdf" \notin arts => "taggedPdf" \notin e.arts
    <3>1. p[1] = fresh \/ p[1] = WithSaved(fresh, j)
      BY DEF Comparisons
    <3>2. fresh \ Passing \subseteq p[1] /\ p[1] \subseteq fresh \cup {"savedSemantics", "sourceOwnership"}
      BY <3>1 DEF WithSaved, Passing
    <3>3. e.refused = FALSE /\ e.arts = p[1] /\ e.ends # "ok"
      BY <1>2, <2>3
    <3>4. QED
      BY <1>1, <3>2, <3>3
  <2>4. ASSUME NEW p \in Comparisons(fresh, j), e = Refused(Withdrawn(judged(p)), j)
        PROVE  e.refused = TRUE /\ e.ends # "ok" /\ "taggedPdf" \notin e.arts
    <3> DEFINE x == Withdrawn(judged(p))
    <3>1. "taggedPdf" \notin x
      BY DEF Withdrawn
    <3>2. e = Refused(x, j)
      BY <2>4
    <3> HIDE DEF x
    <3>3. QED
      BY <1>3, <3>1, <3>2
  <2>5. ASSUME NEW p \in passed PROVE p = <<WithSaved(fresh, j), "review_required">> /\ "taggedPdf" \in fresh
    BY <2>5 DEF Comparisons, Inspections
  <2>6. ASSUME NEW p \in passed, e \in CompletionEndings(judged(p), j)
        PROVE  /\ e.refused \in BOOLEAN
               /\ ~e.refused /\ e.ends # "ok" => arts \ Passing \subseteq e.arts
               /\ e.refused => "taggedPdf" \notin e.arts
               /\ "taggedPdf" \in arts
               /\ e.ends = "ok" => /\ ~e.refused
                                   /\ "taggedPdf" \notin e.arts
                                   /\ {"qualityReport", "completionReport"} \subseteq e.arts
                                   /\ arts \ (Passing \cup {"taggedPdf"}) \subseteq e.arts
    <3> DEFINE x == judged(p)
    <3>1. arts \ Passing \subseteq x /\ "qualityReport" \in x
      BY <1>1, <2>5 DEF WithSaved, Passing
    <3>2. "taggedPdf" \in arts
      BY <1>1, <2>5
    <3> HIDE DEF x
    <3>3. CASE e \in Breaks(x)
      BY <1>2, <3>1, <3>2, <3>3
    <3>4. CASE e = Ending(Withdrawn(x \cup {"completionReport"}), "ok", FALSE)
      BY <3>1, <3>2, <3>4 DEF Ending, Withdrawn
    <3>5. CASE e = Refused(Withdrawn(x \cup {"completionReport"}), j)
      <4> DEFINE y == Withdrawn(x \cup {"completionReport"})
      <4>1. "taggedPdf" \notin y
        BY DEF Withdrawn
      <4>2. e = Refused(y, j)
        BY <3>5
      <4> HIDE DEF y
      <4>3. QED
        BY <1>3, <3>2, <4>1, <4>2
    <3>6. CASE e \in Breaks(x \cup {"completionReport"})
      BY <1>2, <3>1, <3>2, <3>6, ZenonT(40)
    <3>7. QED
      BY <2>6, <3>3, <3>4, <3>5, <3>6 DEF CompletionEndings, x
  <2>7. QED
    BY <1>4, <2>1, <2>2, <2>4, <2>6, <2>3
<1>5. CASE ~j.production
  <2>1. e \in PreservationEndings(fresh, j)
    BY <1>5 DEF WorkloadEndings
  <2>2. CASE e \in Breaks(fresh)
    BY <1>1, <1>2, <1>5, <2>2
  <2>3. CASE e = Ending(fresh \cup {"qualityReport"}, "ok", FALSE)
    BY <1>5, <2>3 DEF Ending
  <2>4. CASE e = Refused(fresh \cup {"qualityReport"}, j)
    BY <1>1, <1>3, <1>5, <2>4, ZenonT(40)
  <2>5. QED
    BY <2>1, <2>2, <2>3, <2>4 DEF PreservationEndings
<1>6. QED
  BY <1>4, <1>5

-----------------------------------------------------------------------------
(* A run of the four workloads.                                            *)

(* The runner is given the plans and the endings of WorkloadPlans.         *)
RunsWorkloads ==
  /\ Jobs = WorkloadJobs
  /\ \A j : Plan(j) = WorkloadStages(j)
  /\ \A s, arts, j : Endings(s, arts, j) = WorkloadEndings(s, arts, j)

Under == at \in {"between", "executing"}

(* Only the last stage refuses a candidate, and a production run's is      *)
(* withdrawn when it does.                                                 *)
Judged ==
  /\ at = "preparing" => ~refused
  /\ Under /\ refused => /\ Stage = "preservationQuality"
                         /\ job.production => "taggedPdf" \notin artifacts

(* What the stages behind the run have surely added is still there, but    *)
(* for the candidate that was withdrawn.                                   *)
Gathered ==
  Under => (refused /\ job.production) \/ \A k \in 1..Index : Sure(Plan(job)[k], job) \subseteq artifacts

(* RefusalStands, from the moment the last stage has passed.               *)
Passed ==
  at = "finalizing" /\ job.production =>
    /\ ~refused
    /\ {"candidatePdf", "qualityReport", "completionReport"} \subseteq artifacts
    /\ "taggedPdf" \notin artifacts

RunInv == IInv /\ Judged /\ Gathered /\ Passed /\ RefusalStands

LEMMA RunInvInit == Init => RunInv
<1> SUFFICES ASSUME Init PROVE RunInv
  OBVIOUS
<1>1. IInv
  BY InitIsIInv
<1>2. QED
  BY <1>1 DEF RunInv, Init, Judged, Gathered, Passed, RefusalStands, Under

LEMMA SucceedsKeepsRunInv ==
  ASSUME RunsWorkloads, RunInv, AttemptSucceeds PROVE (Judged /\ Gathered /\ Passed /\ RefusalStands)'
<1> DEFINE p == WorkloadStages(job)
<1>1. /\ job \in WorkloadJobs /\ Plan(job) = p /\ Total = Len(p) /\ Stage = p[Index + 1]
      /\ Index \in Nat /\ Index < Total /\ outcome = "running" /\ Under /\ refused \in BOOLEAN
  BY DEF RunsWorkloads, RunInv, IInv, TypeOK, Total, Stage, Prefix, AttemptSucceeds, Under, Index
<1>2. /\ Len(p) \in Nat
      /\ \A i \in 1..Len(p) : p[i] \in StageKeys
      /\ \A i \in 1..Len(p) : p[i] = "preservationQuality" => i = Len(p)
      /\ job.production => /\ p[Len(p)] = "preservationQuality"
                           /\ \E k \in 1..(Len(p) - 1) : p[k] = "pdfWriter"
  BY <1>1, VerdictIsLast
<1>3. PICK e \in WorkloadEndings(Stage, artifacts, job) :
        e.ends = "ok" /\ artifacts' = e.arts /\ refused' = (refused \/ e.refused)
  BY DEF RunsWorkloads, AttemptSucceeds
<1>4. /\ Index' = Index + 1 /\ job' = job /\ Plan(job)' = p /\ outcome' = "running"
      /\ at' = IF Index + 1 = Total THEN "finalizing" ELSE "between"
      /\ Stage' = p[Index + 1 + 1]
  BY <1>1 DEF AttemptSucceeds, Index, Stage, RunInv, IInv, TypeOK
<1> HIDE DEF p
<1>5. CASE Index + 1 # Total
  <2>1. Stage # "preservationQuality" /\ ~refused /\ at' = "between"
    BY <1>1, <1>2, <1>4, <1>5 DEF RunInv, Judged
  <2>2. /\ e.refused = FALSE
        /\ artifacts \ Passing \subseteq artifacts'
        /\ Sure(Stage, job) \subseteq artifacts'
    BY <1>3, <2>1, StageLeaves
  <2>3. ASSUME NEW k \in 1..(Index + 1) PROVE Sure(p[k], job) \subseteq artifacts'
    <3>1. CASE k = Index + 1
      BY <1>1, <2>2, <3>1
    <3>2. CASE k # Index + 1
      <4>1. k \in 1..Index
        BY <1>1, <3>2
      <4>2. Sure(p[k], job) \subseteq artifacts
        BY <1>1, <2>1, <4>1 DEF RunInv, Gathered
      <4>3. p[k] \in StageKeys
        BY <1>1, <1>2, <4>1
      <4>4. QED
        BY <2>2, <4>2, <4>3, SureStays
    <3>3. QED
      BY <3>1, <3>2
  <2>4. refused' = FALSE
    BY <1>3, <2>1, <2>2
  <2>5. Judged' /\ Passed' /\ RefusalStands'
    BY <1>4, <2>1, <2>4 DEF Judged, Passed, RefusalStands, Under
  <2>6. Gathered'
    BY <1>4, <2>3 DEF Gathered
  <2>7. QED
    BY <2>5, <2>6
<1>6. CASE Index + 1 = Total
  <2>1. at' = "finalizing"
    BY <1>4, <1>6
  <2>2. ASSUME job.production
        PROVE  /\ ~refused'
               /\ {"candidatePdf", "qualityReport", "completionReport"} \subseteq artifacts'
               /\ "taggedPdf" \notin artifacts'
    <3>1. Stage = "preservationQuality"
      BY <1>1, <1>2, <1>6, <2>2
    <3>2. /\ "taggedPdf" \in artifacts /\ ~e.refused /\ "taggedPdf" \notin e.arts
          /\ {"qualityReport", "completionReport"} \subseteq e.arts
          /\ artifacts \ (Passing \cup {"taggedPdf"}) \subseteq e.arts
      BY <1>3, <2>2, <3>1, VerdictLeaves
    <3>3. ~refused
      BY <1>1, <2>2, <3>2 DEF RunInv, Judged
    <3>4. PICK k \in 1..(Len(p) - 1) : p[k] = "pdfWriter"
      BY <1>2, <2>2
    <3>5. k \in 1..Index
      BY <1>1, <1>2, <1>6
    <3>6. "candidatePdf" \in Sure(p[k], job)
      BY <2>2, <3>4 DEF Sure, Gives
    <3>7. "candidatePdf" \in artifacts
      BY <1>1, <3>3, <3>5, <3>6 DEF RunInv, Gathered
    <3>8. QED
      BY <1>3, <3>2, <3>3, <3>7 DEF Passing
  <2>3. Passed'
    BY <1>4, <2>2 DEF Passed
  <2>4. Judged' /\ Gathered' /\ RefusalStands'
    BY <1>4, <2>1 DEF Judged, Gathered, RefusalStands, Under
  <2>5. QED
    BY <2>3, <2>4
<1>7. QED
  BY <1>5, <1>6

LEMMA RetriedKeepsRunInv ==
  ASSUME RunsWorkloads, RunInv, AttemptRetried PROVE (Judged /\ Gathered /\ Passed /\ RefusalStands)'
<1>1. /\ job \in WorkloadJobs /\ outcome = "running" /\ Under /\ refused \in BOOLEAN
  BY DEF RunsWorkloads, RunInv, IInv, TypeOK, Prefix, AttemptRetried, Under
<1>2. PICK e \in WorkloadEndings(Stage, artifacts, job) :
        e.ends = "transient" /\ artifacts' = e.arts /\ refused' = (refused \/ e.refused)
  BY DEF RunsWorkloads, AttemptRetried, MayRetry
<1>3. /\ Index' = Index /\ job' = job /\ Plan(job)' = Plan(job) /\ outcome' = "running"
      /\ at' = "between" /\ Stage' = Stage
  BY <1>1 DEF AttemptRetried, Index, Stage
<1>4. /\ ~(refused' /\ job.production) => artifacts \ Passing \subseteq artifacts'
      /\ refused' => Stage = "preservationQuality"
      /\ refused' /\ job.production => "taggedPdf" \notin artifacts'
  <2>1. CASE Stage = "preservationQuality"
    <3>1. /\ e.refused \in BOOLEAN
          /\ ~(e.refused /\ job.production) => artifacts \ Passing \subseteq e.arts
          /\ job.production /\ (e.refused \/ "taggedPdf" \notin artifacts) => "taggedPdf" \notin e.arts
      BY <1>2, <2>1, VerdictLeaves
    <3>2. refused /\ job.production => "taggedPdf" \notin artifacts
      BY <1>1 DEF RunInv, Judged
    <3>3. QED
      BY <1>1, <1>2, <2>1, <3>1, <3>2
  <2>2. CASE Stage # "preservationQuality"
    <3>1. e.refused = FALSE /\ artifacts \ Passing \subseteq e.arts
      BY <1>2, <2>2, StageLeaves
    <3>2. ~refused
      BY <1>1, <2>2 DEF RunInv, Judged
    <3>3. QED
      BY <1>2, <3>1, <3>2
  <2>3. QED
    BY <2>1, <2>2
<1>5. Judged' /\ Passed' /\ RefusalStands'
  BY <1>3, <1>4 DEF Judged, Passed, RefusalStands
<1>6. Gathered'
  <2>1. SUFFICES ASSUME ~(refused' /\ job.production), NEW k \in 1..Index PROVE Sure(Plan(job)[k], job) \subseteq artifacts'
    BY <1>3 DEF Gathered
  <2>2. ~(refused /\ job.production)
    BY <1>1, <1>2, <2>1
  <2>3. Sure(Plan(job)[k], job) \subseteq artifacts
    BY <1>1, <2>2 DEF RunInv, Gathered
  <2>4. Plan(job)[k] \in StageKeys
    <3>1. Plan(job) = WorkloadStages(job) /\ k \in 1..Len(Plan(job))
      BY <1>1, TotalInRange DEF RunsWorkloads, RunInv, IInv, Prefix, AttemptRetried, Total, Index, TypeOK
    <3>2. QED
      BY <1>1, <3>1, VerdictIsLast
  <2>5. QED
    BY <1>4, <2>1, <2>3, <2>4, SureStays
<1>7. QED
  BY <1>5, <1>6

LEMMA RunInvNext == ASSUME RunsWorkloads PROVE RunInv /\ [Next]_vars => RunInv'
<1> SUFFICES ASSUME RunInv, [Next]_vars PROVE RunInv'
  OBVIOUS
<1>1. IInv'
  BY NextKeepsIInv DEF RunInv
<1> USE DEF RunInv
<1>2. CASE UNCHANGED vars \/ Heartbeat \/ StartAttempt
  BY <1>1, <1>2 DEF vars, Heartbeat, StartAttempt, Judged, Gathered, Passed, RefusalStands,
                    Under, Stage, Index
<1>3. CASE StageInput
  <2>1. Index' = 0 /\ refused' = FALSE /\ outcome' = "running"
    BY <1>3 DEF StageInput, Judged, IInv, Prefix, Index, TypeOK
  <2>2. at' = "finalizing" => ~job.production
    BY <1>3, VerdictIsLast DEF StageInput, Total, RunsWorkloads, IInv, TypeOK
  <2>3. job' = job
    BY <1>3 DEF StageInput
  <2>4. QED
    BY <1>1, <2>1, <2>2, <2>3 DEF Judged, Gathered, Passed, RefusalStands
<1>4. CASE StagingFails \/ StageFails
  BY <1>1, <1>4 DEF StagingFails, StageFails, Judged, Gathered, Passed, RefusalStands, Under
<1>5. CASE AttemptSucceeds
  BY <1>1, <1>5, SucceedsKeepsRunInv
<1>6. CASE AttemptRetried
  BY <1>1, <1>6, RetriedKeepsRunInv
<1>7. CASE Finalize
  BY <1>1, <1>7 DEF Finalize, Judged, Gathered, Passed, RefusalStands, Under
<1>8. QED
  BY <1>2, <1>3, <1>4, <1>5, <1>6, <1>7 DEF Next, Run

LEMMA RunInvariance == ASSUME RunsWorkloads PROVE Spec => []RunInv
<1>1. RunInv /\ [Next]_vars => RunInv'
  BY RunInvNext
<1>2. QED
  BY <1>1, RunInvInit, PTL DEF Spec

(* Whatever options a request combines and whatever failed, was retried or *)
(* was replaced by a fallback before, an attempt of a stage of             *)
(* accessibility-stage-plan.js, tag-redaction-runner.js or the other two   *)
(* workloads finds the paths it reads in the artifacts object, for any     *)
(* number of attempts.                                                     *)
THEOREM AttemptsFindTheirInputs == ASSUME RunsWorkloads PROVE Spec => []InputsReady
<1>1. RunInv => InputsReady
  <2> SUFFICES ASSUME RunInv, at = "executing", ~(Stage = "preservationQuality" /\ job.production /\ refused)
               PROVE  Needs(Stage, job) \subseteq artifacts
    BY DEF InputsReady
  <2> DEFINE p == WorkloadStages(job)
  <2>1. /\ job \in WorkloadJobs /\ Plan(job) = p /\ Stage = p[Index + 1]
        /\ Index \in Nat /\ Index + 1 \in 1..Len(p)
    <3>1. Index < Total /\ Index \in Nat /\ job \in Jobs /\ Total \in Nat
      BY TotalInRange DEF RunInv, IInv, Prefix, TypeOK, Index
    <3>2. Plan(job) = p /\ Jobs = WorkloadJobs
      BY DEF RunsWorkloads
    <3>3. QED
      BY <3>1, <3>2 DEF Stage, Total
  <2> HIDE DEF p
  <2>2. \A k \in 1..Index : Sure(p[k], job) \subseteq artifacts
    BY <2>1 DEF RunInv, Judged, Gathered, Under
  <2>3. SUFFICES ASSUME NEW a \in Needs(p[Index + 1], job) PROVE a \in artifacts
    BY <2>1
  <2>4. \E k \in 1..((Index + 1) - 1) : a \in Sure(p[k], job)
    BY <2>1, NeedsAreMade DEF p
  <2>5. QED
    BY <2>1, <2>2, <2>4
<1>2. QED
  BY <1>1, RunInvariance, PTL

(* Once an attempt of the preservation stage of a production run has       *)
(* refused the candidate and withdrawn it no retry lets the run complete,  *)
(* and a run that completed has its evidence and no second name for the    *)
(* candidate.  Not so without production checks (RefusalFailsTheStage),    *)
(* nor for a verdict that was lost before the refusal.                     *)
THEOREM RefusalsStand == ASSUME RunsWorkloads PROVE Spec => []RefusalStands
<1>1. RunInv => RefusalStands
  BY DEF RunInv
<1>2. QED
  BY <1>1, RunInvariance, PTL
=============================================================================
