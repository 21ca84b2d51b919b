------------------------- MODULE ReleaseGateProofs -------------------------
(***************************************************************************)
(* Proofs about ReleaseGate, for any bound on flawed PDFs.  Two arguments  *)
(* are independent of each other.  What leaves is vouched for: a report    *)
(* that speaks for its evidence can only be written where the evidence is  *)
(* complete, and the gate compares the body it has read with the evidence  *)
(* of the report it has read (Vouched).  What the local run vouches for    *)
(* can be had: alone in its directory the run leaves every stage's report  *)
(* about its own PDF, and the gate finds each of them (Alone).             *)
(* Traces says which events leave their writer in writers, which is what   *)
(* Alone needs to know that nothing else has happened.                     *)
(***************************************************************************)
EXTENDS ReleaseGate, TLAPS

Shapes == /\ file = [f \in Files |-> file[f]]
          /\ run = [r \in LocalRun |-> run[r]]
          /\ held = [r \in LocalRun |-> held[r]]
          /\ read = [r \in LocalRun |-> read[r]]

-----------------------------------------------------------------------------
(* Vouched bytes.                                                          *)

(* The evidence a GET has compared with the completion report it read. *)
Compared ==
    CASE get = "qualityReport" -> {"candidatePdf"}
      [] get = "validationReport" -> {"candidatePdf", "qualityReport"}
      [] get = "savedSemantics" -> {"candidatePdf", "qualityReport", "validationReport"}
      [] get \in {"flag", "hash", "withheld", "released"} -> Evidence
      [] OTHER -> {}

WellFormed(report) == report.pass <=> Complete(report.evidence)

(* Where the completion report has been read and passed. *)
Trusting == get \in Evidence \cup {"flag", "hash", "withheld", "released"}

(* The completion report in the directory. *)
FiledIsWellFormed == file["completionReport"] = Absent \/ WellFormed(file["completionReport"])

Vouched ==
    /\ FiledIsWellFormed
    /\ Trusting => Complete(completion.evidence)
    /\ "candidatePdf" \in Compared => completion.evidence["candidatePdf"] = body
    /\ quiet /\ get # "idle" => file["candidatePdf"] = body
    /\ quiet => \A f \in Compared : file[f] = completion.evidence[f]

-----------------------------------------------------------------------------
(* Candidates that can be had.                                             *)

(* The stages of a local run behind which a file of the run is there. *)
Behind(f) ==
    CASE f = "candidatePdf" ->
            {"validating", "inspecting", "comparing", "judging", "gathering", "completing", "passed"}
      [] f = "validationReport" ->
            {"inspecting", "comparing", "judging", "gathering", "completing", "passed"}
      [] f = "savedSemantics" -> {"judging", "gathering", "completing", "passed"}
      [] f = "qualityReport" -> {"gathering", "completing", "passed"}

(* What the local run writes when it goes well. *)
OwnFile(f) == IF f = "candidatePdf" THEN Local ELSE Report(Local, Local, TRUE)

OwnEvidence == [f \in Evidence |-> OwnFile(f)]

(* The reports of a run that has the directory for itself. *)
OwnReports ==
    /\ \A f \in Evidence : run[Local] \in Behind(f) => file[f] = OwnFile(f)
    /\ run[Local] \in {"comparing", "judging"} => file["qualityReport"].about = Local
    /\ run[Local] = "judging" => held[Local].about = Local
    /\ run[Local] = "completing" => read[Local] = OwnEvidence
    /\ run[Local] = "passed" => /\ file["completionReport"] = CompletionReport(Local, OwnEvidence)
                                /\ Complete(OwnEvidence)

(* How far the gate is, of a completed job. *)
OwnGate ==
    /\ get # "refused"
    /\ get # "idle" => body = Local
    /\ get \in {"completion"} \cup Evidence \cup {"flag", "hash"} => quality = OwnFile("qualityReport")
    /\ get \in Evidence \cup {"flag", "hash"} => completion = CompletionReport(Local, OwnEvidence)

(* Who has written in the directory when something has happened. *)
LaterTouches == run[Later] \notin {"idle", "writing"} => Later \in writers
UploadTouches == upload = "storing" /\ unstored # AgentFiles => Agent \in writers
CompletionIsEarned ==
    job.status = "completed" => \/ Agent \in writers
                                \/ run[Local] = "passed" /\ job.artifacts = Files
GetsFollowTheEnd == get # "idle" => Ended

Traces == LaterTouches /\ UploadTouches /\ CompletionIsEarned /\ GetsFollowTheEnd

Alone == writers \subseteq {Local} => OwnReports /\ (job.status = "completed" => OwnGate)

-----------------------------------------------------------------------------
(* Shapes.                                                                 *)

LEMMA NextKeepsShapes == ASSUME Shapes, [Next]_vars PROVE Shapes'
<1> USE DEF Shapes
<1>1. CASE UNCHANGED vars
  BY <1>1 DEF vars, fileVars, runVars
<1>2. ASSUME NEW r \in LocalRun, RunStep(r) PROVE Shapes'
  BY <1>2 DEF RunStep, WriteCandidate, Validate, Inspect, CompareSaved, Judge, Gather,
              WriteCompletion, Break, Goes, Stores, fileVars
<1>3. CASE LeaseLapses \/ LaterStarts \/ FinalizeJob \/ UploadArrives \/ StoreFile \/ UploadAnswered
  BY <1>3 DEF LeaseLapses, LaterStarts, FinalizeJob, UploadArrives, StoreFile, UploadAnswered,
              Goes, Stores, fileVars, runVars
<1>4. CASE ReadBody \/ CheckStatus \/ ReadQuality \/ ReadCompletion \/ CheckEvidence \/ CheckFlag \/ Serve
  BY <1>4 DEF ReadBody, CheckStatus, ReadQuality, ReadCompletion, CheckEvidence, CheckFlag, Serve,
              Gate, fileVars, runVars
<1>5. QED
  BY <1>1, <1>2, <1>3, <1>4 DEF Next

-----------------------------------------------------------------------------
(* Vouched.                                                                *)

(* A write of anybody: the only completion reports that are written are    *)
(* well-formed.                                                            *)
LEMMA StoreKeepsVouched ==
  ASSUME Shapes, Vouched, NEW p, NEW f \in Files, NEW content, Stores(p, f, content),
         f = "completionReport" => WellFormed(content), UNCHANGED <<verdict, getVars>>
  PROVE  Vouched'
<1>1. file' = [file EXCEPT ![f] = content] /\ quiet' = FALSE /\ UNCHANGED <<verdict, getVars>>
  BY DEF Stores
<1>2. FiledIsWellFormed'
  <2>1. file'["completionReport"] = IF f = "completionReport" THEN content ELSE file["completionReport"]
    BY <1>1 DEF Shapes, Files
  <2>2. QED
    BY <1>1, <2>1 DEF Vouched, FiledIsWellFormed, WellFormed, Complete
<1>3. (Trusting => Complete(completion.evidence))' /\ Compared' = Compared
  BY <1>1 DEF Vouched, getVars, Trusting, Compared, Complete
<1>4. QED
  BY <1>1, <1>2, <1>3 DEF Vouched, getVars

LEMMA ReportsAreWellFormed ==
  ASSUME NEW p, NEW ev PROVE WellFormed(CompletionReport(p, ev))
BY DEF WellFormed, CompletionReport

LEMMA NextKeepsVouched == ASSUME Shapes, Vouched, [Next]_vars PROVE Vouched'
<1>1. CASE \/ UNCHANGED vars \/ LeaseLapses \/ LaterStarts \/ FinalizeJob
           \/ UploadArrives \/ UploadAnswered \/ \E r \in LocalRun : Gather(r) \/ Break(r)
  <2>1. UNCHANGED <<verdict, fileVars, getVars>>
    BY <1>1 DEF vars, LeaseLapses, LaterStarts, FinalizeJob, UploadArrives, UploadAnswered, Gather, Break
  <2>2. QED
    BY <2>1 DEF fileVars, getVars, Vouched, Trusting, Compared, FiledIsWellFormed, WellFormed, Complete
<1>2. ASSUME NEW r \in LocalRun, WriteCandidate(r) \/ Validate(r) \/ Inspect(r) \/ CompareSaved(r) \/ Judge(r)
      PROVE  Vouched'
  <2>1. UNCHANGED <<verdict, getVars>>
    BY <1>2 DEF WriteCandidate, Validate, Inspect, CompareSaved, Judge
  <2>2. PICK f \in Files \ {"completionReport"} : \E content : Stores(r, f, content)
    BY <1>2 DEF WriteCandidate, Validate, Inspect, CompareSaved, Judge, Files, Evidence, Reports
  <2>3. QED
    BY <2>1, <2>2, StoreKeepsVouched
<1>3. ASSUME NEW r \in LocalRun, WriteCompletion(r) PROVE Vouched'
  <2>1. UNCHANGED <<verdict, getVars>>
    BY <1>3 DEF WriteCompletion
  <2>2. CASE Stores(r, "completionReport", CompletionReport(r, read[r]))
    BY <2>1, <2>2, StoreKeepsVouched, ReportsAreWellFormed DEF Files
  <2>3. CASE UNCHANGED fileVars
    BY <2>1, <2>3 DEF fileVars, getVars, Vouched, Trusting, Compared, FiledIsWellFormed, WellFormed, Complete
  <2>4. QED
    BY <1>3, <2>2, <2>3 DEF WriteCompletion
<1>4. CASE StoreFile
  <2>1. PICK f \in unstored : Stores(Agent, f, AgentFile(f)) /\ UNCHANGED <<verdict, getVars>>
    BY <1>4 DEF StoreFile
  <2>2. CASE f \in Files
    BY <2>1, <2>2, StoreKeepsVouched, ReportsAreWellFormed DEF AgentFile
  <2>3. CASE f \notin Files
    <3>1. file' = file /\ quiet' = FALSE
      BY <2>1, <2>3 DEF Stores, Shapes
    <3>2. QED
      BY <2>1, <3>1 DEF getVars, Vouched, Trusting, Compared, FiledIsWellFormed, WellFormed, Complete
  <2>4. QED
    BY <2>2, <2>3
<1>5. CASE ReadBody
  BY <1>5 DEF ReadBody, Vouched, Trusting, Compared, FiledIsWellFormed, WellFormed, Complete, Evidence, Reports
<1>6. ASSUME CheckStatus \/ ReadQuality \/ ReadCompletion \/ CheckEvidence \/ CheckFlag \/ Serve
      PROVE  Vouched'
  <2>1. UNCHANGED <<verdict, file, quiet, body>>
    BY <1>6 DEF CheckStatus, ReadQuality, ReadCompletion, CheckEvidence, CheckFlag, Serve, Gate, fileVars
  <2>2. FiledIsWellFormed'
    BY <2>1 DEF Vouched, FiledIsWellFormed, WellFormed, Complete
  <2>3. CASE CheckStatus \/ ReadQuality
    BY <2>1, <2>2, <2>3 DEF CheckStatus, ReadQuality, Gate, Vouched, Trusting, Compared, Evidence, Reports
  <2>4. CASE ReadCompletion
    <3>1. CASE get' = "candidatePdf"
      <4>1. Complete(completion'.evidence)
        BY <2>4, <3>1 DEF ReadCompletion, Gate, Vouched, FiledIsWellFormed, WellFormed
      <4>2. Complete(completion.evidence)'
        BY <2>1, <4>1 DEF Complete
      <4>3. QED
        BY <2>1, <2>2, <2>4, <3>1, <4>2 DEF ReadCompletion, Gate, Vouched, Compared
    <3>2. CASE get' = "refused"
      BY <2>1, <2>2, <2>4, <3>2
         DEF ReadCompletion, Gate, Vouched, Trusting, Compared, Evidence, Reports
    <3>3. QED
      BY <2>4, <3>1, <3>2 DEF ReadCompletion, Gate
  <2>5. CASE CheckEvidence
    <3>1. PICK f \in Evidence : Gate(f, Matches(f), NextEntry(f)) /\ UNCHANGED <<quality, completion>>
      BY <2>5 DEF CheckEvidence
    <3>2. CASE get' = "refused"
      BY <2>1, <2>2, <3>1, <3>2 DEF Gate, Vouched, Trusting, Compared, Evidence, Reports
    <3>3. CASE get' = NextEntry(f) /\ Matches(f)
      <4>1. get = f /\ Complete(completion.evidence)
        BY <3>1 DEF Gate, Vouched, Trusting
      <4>2. completion.evidence[f] = IF f = "candidatePdf" THEN body ELSE file[f]
        BY <3>3 DEF Matches, Hashed
      <4>3. Compared' = Compared \cup {f}
        BY <3>1, <3>3, <4>1 DEF Compared, NextEntry, Evidence, Reports
      <4>4. Complete(completion.evidence)'
        BY <2>1, <3>1, <4>1 DEF Complete
      <4>5. get # "idle"
        BY <4>1 DEF Evidence, Reports
      <4>6. completion'.evidence["candidatePdf"] = body'
        <5>1. CASE f = "candidatePdf"
          BY <2>1, <3>1, <4>2, <5>1
        <5>2. CASE f # "candidatePdf"
          BY <2>1, <3>1, <4>1, <5>2 DEF Vouched, Compared, Evidence, Reports
        <5>3. QED
          BY <5>1, <5>2
      <4>7. quiet => file["candidatePdf"] = body
        BY <4>5 DEF Vouched
      <4>8. quiet => \A g \in Compared \cup {f} : file[g] = completion.evidence[g]
        BY <4>2, <4>7 DEF Vouched
      <4>9. QED
        BY <2>1, <2>2, <3>1, <4>3, <4>4, <4>6, <4>7, <4>8 DEF Vouched
    <3>4. QED
      BY <3>1, <3>2, <3>3 DEF Gate
  <2>6. CASE CheckFlag \/ Serve
    <3>1. /\ get \in {"flag", "hash"} /\ UNCHANGED <<quality, completion>>
          /\ get' \in {"hash", "withheld", "released", "refused"}
      BY <2>6 DEF CheckFlag, Serve, Gate
    <3>2. Trusting /\ Compared = Evidence
      BY <3>1 DEF Trusting, Compared
    <3>3. Compared' \in {{}, Evidence}
      BY <3>1 DEF Compared, Evidence, Reports
    <3>4. Complete(completion.evidence)'
      BY <2>1, <3>1, <3>2 DEF Vouched, Complete
    <3>5. "candidatePdf" \in Evidence
      BY DEF Evidence
    <3>6. QED
      BY <2>1, <2>2, <3>1, <3>2, <3>3, <3>4, <3>5 DEF Vouched
  <2>7. QED
    BY <1>6, <2>3, <2>4, <2>5, <2>6
<1>7. QED
  BY <1>1, <1>2, <1>3, <1>4, <1>5, <1>6 DEF Next, RunStep

LEMMA InitIsVouched == Init => Shapes /\ Vouched
<1> SUFFICES ASSUME Init PROVE Shapes /\ Vouched
  OBVIOUS
<1>1. Shapes
  BY DEF Init, Shapes
<1>2. Vouched
  BY DEF Init, Vouched, FiledIsWellFormed, Files, Trusting, Compared, Evidence, Reports
<1>3. QED
  BY <1>1, <1>2

(* However producers and the reads of a request interleave, bytes that     *)
(* leave were found good by every check, and without a write in between    *)
(* the directory holds the evidence (artifactDownloadPolicy).              *)
THEOREM ReleasedBytesAreVouched == Spec => []OnlyVouchedBytesLeave
<1>1. Shapes /\ Vouched /\ [Next]_vars => (Shapes /\ Vouched)'
  BY NextKeepsShapes, NextKeepsVouched
<1>2. Vouched => OnlyVouchedBytesLeave
  <2> SUFFICES ASSUME Vouched, get = "released"
               PROVE  /\ verdict[body] = "good"
                      /\ quiet => \A f \in Evidence : file[f] = completion.evidence[f]
    BY DEF OnlyVouchedBytesLeave
  <2>1. Trusting /\ Compared = Evidence
    BY DEF Trusting, Compared
  <2>2. Complete(completion.evidence) /\ completion.evidence["candidatePdf"] = body
    BY <2>1 DEF Vouched, Evidence
  <2>3. QED
    BY <2>1, <2>2 DEF Vouched, Complete
<1>3. QED
  BY <1>1, <1>2, InitIsVouched, PTL DEF Spec

-----------------------------------------------------------------------------
(* Traces and Alone.                                                       *)

LEMMA NextKeepsTraces == ASSUME Shapes, Traces, [Next]_vars PROVE Traces'
<1> USE ReleaseGateAssumption
<1>1. LaterTouches'
  <2>1. CASE UNCHANGED vars \/ LeaseLapses \/ LaterStarts \/ FinalizeJob \/ UploadArrives
             \/ StoreFile \/ UploadAnswered
    BY <2>1 DEF vars, runVars, fileVars, LeaseLapses, LaterStarts, FinalizeJob, UploadArrives,
       StoreFile, UploadAnswered, Goes, Stores, Traces, LaterTouches, Shapes, LocalRun
  <2>2. CASE ReadBody \/ CheckStatus \/ ReadQuality \/ ReadCompletion \/ CheckEvidence
             \/ CheckFlag \/ Serve
    BY <2>2 DEF runVars, fileVars, ReadBody, CheckStatus, ReadQuality, ReadCompletion,
       CheckEvidence, CheckFlag, Serve, Gate, Traces, LaterTouches
  <2>3. ASSUME NEW r \in LocalRun, RunStep(r) PROVE LaterTouches'
    BY <2>3 DEF RunStep, WriteCandidate, Validate, Inspect, CompareSaved, Judge, Gather,
       WriteCompletion, Break, Goes, Stores, fileVars, Traces, LaterTouches, Shapes, LocalRun
  <2>4. QED
    BY <2>1, <2>2, <2>3 DEF Next
<1>2. UploadTouches'
  <2>1. CASE UNCHANGED vars \/ LeaseLapses \/ LaterStarts \/ FinalizeJob \/ UploadArrives
             \/ StoreFile \/ UploadAnswered
    BY <2>1 DEF vars, uploadVars, fileVars, LeaseLapses, LaterStarts, FinalizeJob, UploadArrives,
       StoreFile, UploadAnswered, Stores, Traces, UploadTouches, AgentFiles
  <2>2. CASE ReadBody \/ CheckStatus \/ ReadQuality \/ ReadCompletion \/ CheckEvidence
             \/ CheckFlag \/ Serve
    BY <2>2 DEF uploadVars, fileVars, ReadBody, CheckStatus, ReadQuality, ReadCompletion,
       CheckEvidence, CheckFlag, Serve, Gate, Traces, UploadTouches, AgentFiles
  <2>3. ASSUME NEW r \in LocalRun, RunStep(r) PROVE UploadTouches'
    BY <2>3 DEF RunStep, WriteCandidate, Validate, Inspect, CompareSaved, Judge, Gather,
       WriteCompletion, Break, Stores, uploadVars, fileVars, Traces, UploadTouches, AgentFiles
  <2>4. QED
    BY <2>1, <2>2, <2>3 DEF Next
<1>3. CompletionIsEarned'
  <2>1. CASE UNCHANGED vars \/ LeaseLapses \/ LaterStarts \/ UploadArrives \/ StoreFile
    BY <2>1 DEF vars, runVars, fileVars, LeaseLapses, LaterStarts, UploadArrives, StoreFile,
       Goes, Stores, Traces, CompletionIsEarned, Shapes, LocalRun
  <2>2. CASE FinalizeJob
    BY <2>2 DEF FinalizeJob, runVars, fileVars, CompletionIsEarned, Artifacts
  <2>3. CASE UploadAnswered
    <3>1. AgentFiles # {}
      BY DEF AgentFiles, Files, Evidence
    <3>2. Agent \in writers
      BY <2>3, <3>1 DEF UploadAnswered, Traces, UploadTouches
    <3>3. QED
      BY <2>3, <3>2 DEF UploadAnswered, fileVars, CompletionIsEarned
  <2>4. CASE ReadBody \/ CheckStatus \/ ReadQuality \/ ReadCompletion \/ CheckEvidence
             \/ CheckFlag \/ Serve
    BY <2>4 DEF runVars, fileVars, ReadBody, CheckStatus, ReadQuality, ReadCompletion,
       CheckEvidence, CheckFlag, Serve, Gate, Traces, CompletionIsEarned
  <2>5. ASSUME NEW r \in LocalRun, RunStep(r) PROVE CompletionIsEarned'
    BY <2>5 DEF RunStep, WriteCandidate, Validate, Inspect, CompareSaved, Judge, Gather,
       WriteCompletion, Break, Goes, Stores, fileVars, Traces, CompletionIsEarned, Shapes, LocalRun
  <2>6. QED
    BY <2>1, <2>2, <2>3, <2>4, <2>5 DEF Next
<1>4. GetsFollowTheEnd'
  <2>1. CASE UNCHANGED vars \/ LeaseLapses \/ LaterStarts \/ FinalizeJob \/ UploadArrives
             \/ StoreFile \/ UploadAnswered
    BY <2>1 DEF vars, getVars, LeaseLapses, LaterStarts, FinalizeJob, UploadArrives, StoreFile,
       UploadAnswered, Traces, GetsFollowTheEnd, Ended
  <2>2. CASE ReadBody \/ CheckStatus \/ ReadQuality \/ ReadCompletion \/ CheckEvidence
             \/ CheckFlag \/ Serve
    BY <2>2 DEF ReadBody, CheckStatus, ReadQuality, ReadCompletion, CheckEvidence, CheckFlag,
       Serve, Gate, Traces, GetsFollowTheEnd, Ended, Evidence, Reports
  <2>3. ASSUME NEW r \in LocalRun, RunStep(r) PROVE GetsFollowTheEnd'
    BY <2>3 DEF RunStep, WriteCandidate, Validate, Inspect, CompareSaved, Judge, Gather,
       WriteCompletion, Break, getVars, Traces, GetsFollowTheEnd, Ended
  <2>4. QED
    BY <2>1, <2>2, <2>3 DEF Next
<1>5. QED
  BY <1>1, <1>2, <1>3, <1>4 DEF Traces

(* Nothing of the local run's files, nor of the gate, is touched. *)
LEMMA UntouchedStaysAlone ==
  ASSUME Alone, UNCHANGED <<verdict, file, writers>>, UNCHANGED <<run[Local], held[Local], read[Local]>>,
         UNCHANGED getVars, job'.status = "completed" => job.status = "completed" \/ get = "idle"
  PROVE  Alone'
<1> SUFFICES ASSUME writers \subseteq {Local}
             PROVE  OwnReports' /\ (job'.status = "completed" => OwnGate')
  BY DEF Alone
<1>1. OwnReports
  BY DEF Alone
<1>2. OwnReports'
  BY <1>1 DEF OwnReports, OwnEvidence, OwnFile, Report, Behind, CompletionReport, Complete
<1>3. ASSUME job'.status = "completed" PROVE OwnGate'
  <2>1. OwnGate \/ get = "idle"
    BY <1>3 DEF Alone
  <2>2. OwnGate
    BY <2>1 DEF OwnGate, Evidence, Reports
  <2>3. get' = get /\ body' = body /\ quality' = quality /\ completion' = completion
    BY DEF getVars
  <2>4. Complete(OwnEvidence)' = Complete(OwnEvidence)
    BY DEF Complete, OwnEvidence, OwnFile, Report, Evidence, Reports
  <2>5. CompletionReport(Local, OwnEvidence)' = CompletionReport(Local, OwnEvidence)
    BY <2>4 DEF CompletionReport, OwnEvidence, OwnFile, Report
  <2>6. OwnFile("qualityReport")' = OwnFile("qualityReport")
    BY DEF OwnFile, Report
  <2>7. QED
    BY ONLY <2>2, <2>3, <2>5, <2>6 DEF OwnGate, Evidence, Reports
<1>4. QED
  BY <1>2, <1>3

(* A file of another producer. *)
LEMMA OthersAreNoticed ==
  ASSUME NEW p, p # Local, NEW f, NEW content, Stores(p, f, content) PROVE Alone'
BY DEF Stores, Alone

(* The local run, step by step: its job is not over yet. *)
LEMMA LocalRunKeepsAlone == ASSUME Shapes, Traces, Alone, RunStep(Local) PROVE Alone'
<1> SUFFICES ASSUME writers' \subseteq {Local}
             PROVE  OwnReports' /\ (job'.status = "completed" => OwnGate')
  BY DEF Alone
<1> USE ReleaseGateAssumption
<1>1. writers \subseteq writers' /\ UNCHANGED <<verdict, job>>
  BY DEF RunStep, WriteCandidate, Validate, Inspect, CompareSaved, Judge, Gather, WriteCompletion,
         Break, Stores, fileVars
<1>2. OwnReports /\ Agent \notin writers
  BY <1>1 DEF Alone
<1>3. run[Local] # "passed"
  BY DEF RunStep, WriteCandidate, Validate, Inspect, CompareSaved, Judge, Gather, WriteCompletion,
         Break, Goes
<1>4. job'.status # "completed"
  BY <1>1, <1>2, <1>3 DEF Traces, CompletionIsEarned
<1>5. OwnReports'
  <2>1. CASE WriteCandidate(Local)
    <3>1. run'[Local] = "validating" /\ file'["candidatePdf"] = Local
      BY <2>1 DEF WriteCandidate, Goes, Stores, Shapes, LocalRun, Files, Evidence
    <3>2. QED
      BY <3>1 DEF OwnReports, Behind, OwnFile, Evidence, Reports
  <2>2. CASE Validate(Local)
    <3>1. file["candidatePdf"] = Local
      BY <1>2, <2>2 DEF Validate, Goes, OwnReports, Behind, OwnFile, Evidence
    <3>2. /\ run'[Local] = "inspecting" /\ file'["candidatePdf"] = Local
          /\ file'["validationReport"] = Report(Local, Local, TRUE)
      BY <2>2, <3>1 DEF Validate, Goes, Stores, Shapes, LocalRun, Files, Evidence, Reports
    <3>3. QED
      BY <3>2 DEF OwnReports, Behind, OwnFile, Evidence, Reports
  <2>3. CASE Inspect(Local)
    <3>1. file["candidatePdf"] = Local /\ file["validationReport"] = Report(Local, Local, TRUE)
      BY <1>2, <2>3 DEF Inspect, Goes, OwnReports, Behind, OwnFile, Evidence, Reports
    <3>2. /\ run'[Local] = "comparing" /\ file'["candidatePdf"] = Local
          /\ file'["validationReport"] = Report(Local, Local, TRUE)
          /\ file'["qualityReport"].about = Local
      BY <2>3, <3>1 DEF Inspect, Goes, Stores, Shapes, LocalRun, Files, Evidence, Reports, Report
    <3>3. QED
      BY <3>2 DEF OwnReports, Behind, OwnFile, Evidence, Reports
  <2>4. CASE CompareSaved(Local)
    <3>1. /\ file["candidatePdf"] = Local /\ file["validationReport"] = Report(Local, Local, TRUE)
          /\ file["qualityReport"].about = Local
      BY <1>2, <2>4 DEF CompareSaved, Goes, OwnReports, Behind, OwnFile, Evidence, Reports
    <3>2. /\ run'[Local] = "judging" /\ held'[Local].about = Local
          /\ file'["candidatePdf"] = Local
          /\ file'["validationReport"] = Report(Local, Local, TRUE)
          /\ file'["savedSemantics"] = Report(Local, Local, TRUE)
          /\ file'["qualityReport"].about = Local
      BY <2>4, <3>1 DEF CompareSaved, Goes, Stores, Shapes, LocalRun, Files, Evidence, Reports
    <3>3. QED
      BY <3>2 DEF OwnReports, Behind, OwnFile, Evidence, Reports
  <2>5. CASE Judge(Local)
    <3>1. /\ file["candidatePdf"] = Local /\ file["validationReport"] = Report(Local, Local, TRUE)
          /\ file["savedSemantics"] = Report(Local, Local, TRUE) /\ held[Local].about = Local
      BY <1>2, <2>5 DEF Judge, Goes, OwnReports, Behind, OwnFile, Evidence, Reports
    <3>2. JudgedReport(Local).pass => JudgedReport(Local) = Report(Local, Local, TRUE)
      BY <3>1 DEF JudgedReport, Report
    <3>3. /\ run'[Local] = IF JudgedReport(Local).pass THEN "gathering" ELSE "refused"
          /\ file'["candidatePdf"] = Local
          /\ file'["validationReport"] = Report(Local, Local, TRUE)
          /\ file'["savedSemantics"] = Report(Local, Local, TRUE)
          /\ file'["qualityReport"] = JudgedReport(Local)
      BY <2>5, <3>1 DEF Judge, Goes, Stores, Shapes, LocalRun, Files, Evidence, Reports
    <3>4. CASE JudgedReport(Local).pass
      BY <3>2, <3>3, <3>4 DEF OwnReports, Behind, OwnFile, Evidence, Reports
    <3>5. CASE ~JudgedReport(Local).pass
      BY <3>3, <3>5 DEF OwnReports, Behind, Evidence, Reports
    <3>6. QED
      BY <3>4, <3>5
  <2>6. CASE Gather(Local)
    <3>1. \A f \in Evidence : file[f] = OwnFile(f)
      BY <1>2, <2>6 DEF Gather, Goes, OwnReports, Behind, Evidence, Reports
    <3>2. [f \in Evidence |-> file[f]] = OwnEvidence
      BY <3>1 DEF OwnEvidence
    <3>3. run'[Local] = "completing" /\ read'[Local] = OwnEvidence /\ file' = file
      BY <2>6, <3>2 DEF Gather, Goes, Shapes, LocalRun, fileVars
    <3>4. QED
      BY <3>1, <3>3 DEF OwnReports, OwnEvidence, OwnFile, Report
  <2>7. CASE WriteCompletion(Local)
    <3>1. read[Local] = OwnEvidence /\ \A f \in Evidence : file[f] = OwnFile(f)
      BY <1>2, <2>7 DEF WriteCompletion, Goes, OwnReports, Behind, Evidence, Reports
    <3>2. CASE run'[Local] = "passed"
      <4>1. /\ file' = [file EXCEPT !["completionReport"] = CompletionReport(Local, OwnEvidence)]
            /\ CompletionReport(Local, OwnEvidence).pass
        BY <2>7, <3>1, <3>2 DEF WriteCompletion, Goes, Stores, Shapes, LocalRun
      <4>2. /\ file'["completionReport"] = CompletionReport(Local, OwnEvidence)
            /\ \A f \in Evidence : file'[f] = OwnFile(f)
        BY <3>1, <4>1 DEF Shapes, Files, Evidence, Reports
      <4>3. Complete(OwnEvidence)
        BY <4>1 DEF CompletionReport
      <4>4. QED
        BY <1>1, <3>2, <4>2, <4>3
           DEF OwnReports, OwnEvidence, OwnFile, Report, CompletionReport, Complete
    <3>3. CASE run'[Local] \in {"refused", "broken"}
      BY <3>3 DEF OwnReports, Behind, Evidence, Reports
    <3>4. QED
      BY <2>7, <3>2, <3>3 DEF WriteCompletion, Goes, Shapes, LocalRun
  <2>8. CASE Break(Local)
    <3>1. run'[Local] = "broken"
      BY <2>8 DEF Break, Shapes, LocalRun
    <3>2. QED
      BY <3>1 DEF OwnReports, Behind, Evidence, Reports
  <2>9. QED
    BY <2>1, <2>2, <2>3, <2>4, <2>5, <2>6, <2>7, <2>8 DEF RunStep
<1>6. QED
  BY <1>4, <1>5

(* A read of the gate: of a completed job of a run that is alone, it finds *)
(* what the run left.                                                      *)
LEMMA GateKeepsAlone ==
  ASSUME Shapes, Traces, Alone,
         ReadBody \/ CheckStatus \/ ReadQuality \/ ReadCompletion \/ CheckEvidence \/ CheckFlag \/ Serve
  PROVE  Alone'
<1> SUFFICES ASSUME writers' \subseteq {Local}
             PROVE  OwnReports' /\ (job'.status = "completed" => OwnGate')
  BY DEF Alone
<1> USE ReleaseGateAssumption
<1>1. UNCHANGED <<verdict, file, writers, job, run, held, read>>
  BY DEF ReadBody, CheckStatus, ReadQuality, ReadCompletion, CheckEvidence, CheckFlag, Serve, Gate,
         fileVars, runVars
<1>2. OwnReports
  BY <1>1 DEF Alone
<1>3. OwnReports'
  BY <1>1, <1>2 DEF OwnReports, OwnEvidence, OwnFile, Report, CompletionReport, Complete
<1>4. ASSUME job.status = "completed" PROVE OwnGate'
  <2>1. OwnGate /\ run[Local] = "passed" /\ job.artifacts = Files
    BY <1>1, <1>4 DEF Alone, Traces, CompletionIsEarned
  <2>2. /\ \A f \in Evidence : file[f] = OwnFile(f)
        /\ file["completionReport"] = CompletionReport(Local, OwnEvidence)
        /\ Complete(OwnEvidence)
    BY <1>2, <2>1 DEF OwnReports, Behind, Evidence, Reports
  <2>3. /\ (OwnFile("qualityReport"))' = OwnFile("qualityReport")
        /\ (CompletionReport(Local, OwnEvidence))' = CompletionReport(Local, OwnEvidence)
    BY <1>1 DEF OwnEvidence, OwnFile, Report, CompletionReport, Complete
  <2>4. OwnFile("candidatePdf") = Local /\ OwnFile("qualityReport") = Report(Local, Local, TRUE)
    BY DEF OwnFile
  <2>5. CASE ReadBody
    <3>1. body' = Local /\ get' = "status"
      BY <2>2, <2>4, <2>5 DEF ReadBody, Evidence
    <3>2. QED
      BY <3>1 DEF OwnGate, Evidence, Reports
  <2>6. CASE CheckStatus
    <3>1. get' = "quality" /\ body' = Local
      BY <1>4, <2>1, <2>6 DEF CheckStatus, Gate, OwnGate, Files, Evidence, Reports
    <3>2. QED
      BY <3>1 DEF OwnGate, Evidence, Reports
  <2>7. CASE ReadQuality
    <3>1. file["qualityReport"] = Report(Local, Local, TRUE)
      BY <2>2, <2>4 DEF Evidence, Reports
    <3>2. file["qualityReport"] # Absent
      <4>1. Report(Local, Local, TRUE) \in ReportFiles
        BY DEF Report, ReportFiles, Producer, LocalRun
      <4>2. QED
        BY <3>1, <4>1, AbsentAssumption
    <3>3. file["qualityReport"].pass
      BY <3>1 DEF Report
    <3>4. get' = "completion" /\ body' = Local /\ quality' = OwnFile("qualityReport")
      BY <2>1, <2>4, <2>7, <3>1, <3>2, <3>3 DEF ReadQuality, Gate, OwnGate
    <3>5. QED
      BY <2>3, <3>4 DEF OwnGate, Evidence, Reports
  <2>8. CASE ReadCompletion
    <3>1. /\ file["completionReport"].pass
          /\ file["completionReport"].candidate = Local
      BY <2>2, <2>4 DEF CompletionReport, OwnEvidence, Evidence
    <3>2. file["completionReport"] # Absent
      <4>1. OwnEvidence \in [Evidence -> Producer \cup ReportFiles]
        BY DEF OwnEvidence, OwnFile, Report, ReportFiles, Producer, LocalRun
      <4>2. CompletionReport(Local, OwnEvidence)
              = [root |-> "here", candidate |-> Local, evidence |-> OwnEvidence,
                 pass |-> Complete(OwnEvidence)]
        BY DEF CompletionReport, OwnEvidence, OwnFile, Evidence
      <4>3. Complete(OwnEvidence) \in BOOLEAN
        BY DEF Complete
      <4>4. CompletionReport(Local, OwnEvidence) \in CompletionFiles
        BY <4>1, <4>2, <4>3 DEF CompletionFiles, Producer, LocalRun
      <4>5. QED
        BY <2>2, <4>4, AbsentAssumption
    <3>3. quality = Report(Local, Local, TRUE) /\ body = Local
      BY <2>1, <2>4, <2>8 DEF ReadCompletion, Gate, OwnGate
    <3>4. get' = "candidatePdf" /\ body' = Local /\ quality' = quality
          /\ completion' = CompletionReport(Local, OwnEvidence)
      BY <2>1, <2>2, <2>8, <3>1, <3>2, <3>3 DEF ReadCompletion, Gate, Files, Report
    <3>5. QED
      BY <2>3, <2>4, <3>3, <3>4 DEF OwnGate
  <2>9. CASE CheckEvidence
    <3>1. PICK f \in Evidence : Gate(f, Matches(f), NextEntry(f)) /\ UNCHANGED <<quality, completion>>
      BY <2>9 DEF CheckEvidence
    <3>2. /\ get = f /\ get # "idle"
          /\ quality = OwnFile("qualityReport") /\ body = Local
          /\ completion = CompletionReport(Local, OwnEvidence)
      BY <2>1, <3>1 DEF Gate, OwnGate, Evidence, Reports
    <3>3. Matches(f)
      <4>1. completion.root = "here" /\ completion.evidence[f] = OwnFile(f)
        BY <3>2 DEF CompletionReport, OwnEvidence
      <4>2. QED
        BY <2>2, <2>4, <3>2, <4>1 DEF Matches, Hashed
    <3>4. get' = NextEntry(f) /\ body' = body
      BY <3>1, <3>3 DEF Gate
    <3>5. NextEntry(f) \in Evidence \cup {"flag"}
      BY DEF NextEntry, Evidence, Reports
    <3>6. get' # "refused"
      BY <3>4, <3>5 DEF Evidence, Reports
    <3>7. QED
      BY <2>3, <3>1, <3>2, <3>4, <3>6 DEF OwnGate
  <2>10. CASE CheckFlag
    <3>1. get' \in {"hash", "withheld"} /\ get = "flag" /\ UNCHANGED <<body, quality, completion>>
      BY <2>10 DEF CheckFlag, Gate
    <3>2. QED
      BY <2>1, <2>3, <3>1 DEF OwnGate
  <2>11. CASE Serve
    <3>1. body = Local /\ quality.about = Local
      BY <2>1, <2>4, <2>11 DEF Serve, Gate, OwnGate, Report
    <3>2. get' = "released" /\ body' = Local
      BY <2>11, <3>1 DEF Serve, Gate, Hashed
    <3>3. QED
      BY <3>2 DEF OwnGate, Evidence, Reports
  <2>12. QED
    BY <2>5, <2>6, <2>7, <2>8, <2>9, <2>10, <2>11
<1>5. QED
  BY <1>1, <1>3, <1>4

LEMMA NextKeepsAlone == ASSUME Shapes, Traces, Alone, [Next]_vars PROVE Alone'
<1> USE ReleaseGateAssumption
<1>1. CASE UNCHANGED vars \/ UploadArrives
  BY <1>1, UntouchedStaysAlone DEF vars, fileVars, runVars, UploadArrives
<1>2. CASE LeaseLapses
  <2> SUFFICES ASSUME writers \subseteq {Local} PROVE OwnReports'
    BY <1>2 DEF LeaseLapses, fileVars, Alone
  <2>1. run'[Local] = "writing"
    BY <1>2 DEF LeaseLapses, Goes, Shapes, LocalRun
  <2>2. QED
    BY <2>1 DEF OwnReports, Behind, Evidence, Reports
<1>3. CASE LaterStarts
  <2>1. run'[Local] = run[Local]
    BY <1>3 DEF LaterStarts, Goes, Shapes, LocalRun
  <2>2. QED
    BY <1>3, <2>1, UntouchedStaysAlone DEF LaterStarts, fileVars
<1>4. CASE FinalizeJob
  <2>1. get = "idle"
    BY <1>4 DEF FinalizeJob, Traces, GetsFollowTheEnd, Ended
  <2>2. QED
    BY <1>4, <2>1, UntouchedStaysAlone DEF FinalizeJob, fileVars, runVars
<1>5. CASE StoreFile
  BY <1>5, OthersAreNoticed DEF StoreFile
<1>6. CASE UploadAnswered
  <2>1. AgentFiles # {}
    BY DEF AgentFiles, Files, Evidence
  <2>2. Agent \in writers'
    BY <1>6, <2>1 DEF UploadAnswered, fileVars, Traces, UploadTouches
  <2>3. QED
    BY <2>2 DEF Alone
<1>7. ASSUME RunStep(Later) PROVE Alone'
  <2>1. Later \in writers'
    BY <1>7 DEF RunStep, WriteCandidate, Validate, Inspect, CompareSaved, Judge, Gather,
                WriteCompletion, Break, Goes, Stores, fileVars, Traces, LaterTouches
  <2>2. QED
    BY <2>1 DEF Alone
<1>8. QED
  BY <1>1, <1>2, <1>3, <1>4, <1>5, <1>6, <1>7, LocalRunKeepsAlone, GateKeepsAlone
     DEF Next, LocalRun

LEMMA InitIsAlone == Init => Traces /\ Alone
<1> SUFFICES ASSUME Init PROVE Traces /\ Alone
  OBVIOUS
<1> USE ReleaseGateAssumption
<1>1. run[Local] = "idle" /\ run[Later] = "idle" /\ get = "idle" /\ upload = "none"
      /\ job.status = "leased"
  BY DEF Init, LocalRun
<1>2. Traces
  BY <1>1 DEF Traces, LaterTouches, UploadTouches, CompletionIsEarned, GetsFollowTheEnd
<1>3. OwnReports
  BY <1>1 DEF OwnReports, Behind, Evidence, Reports
<1>4. QED
  BY <1>1, <1>2, <1>3 DEF Alone

(* A passing review candidate of the local run is never refused to a       *)
(* request when nobody else wrote in its directory (docs/profiles.md,      *)
(* artifactDownloadPolicy).                                                *)
THEOREM LonelyCandidatesAreHad == Spec => []LocalCandidateRetrievable
<1>1. Shapes /\ Traces /\ Alone /\ [Next]_vars => (Shapes /\ Traces /\ Alone)'
  BY NextKeepsShapes, NextKeepsTraces, NextKeepsAlone
<1>2. Alone => LocalCandidateRetrievable
  BY DEF Alone, OwnGate, LocalCandidateRetrievable
<1>3. QED
  BY <1>1, <1>2, InitIsVouched, InitIsAlone, PTL DEF Spec
=============================================================================
