---------------------------- MODULE ReleaseGate ----------------------------
(***************************************************************************)
(* When a client may have a candidate PDF (artifact-policy.js), over an    *)
(* output directory that more than one producer writes: the local run of   *)
(* the job, an agent whose upload is stored before the queue decides       *)
(* whether it still counts (server.js, POST /agents/jobs/:id/complete),    *)
(* and a later run that was given the same directory.  The job is one with *)
(* production checks that is leased to the agent at first.                 *)
(*                                                                         *)
(* A producer's PDF is named after the producer.  A report is who wrote it,*)
(* the PDF it is about and whether it speaks for it: two files have the    *)
(* same hash when they are equal.                                          *)
(***************************************************************************)
EXTENDS Naturals, FiniteSets

CONSTANTS Agent,   \* the remote agent that had the job first
          Local,   \* the job's run in the primary server
          Later,   \* a later local run with the same output directory
          Absent,  \* a file that does not exist, what was not read yet
          MaxFlawed  \* bound: how many producers' PDFs are not good

ASSUME ReleaseGateAssumption ==
  /\ Agent # Local /\ Agent # Later /\ Local # Later
  /\ MaxFlawed \in 0..3

LocalRun == {Local, Later}
Producer == LocalRun \cup {Agent}

Reports == {"validationReport", "savedSemantics", "qualityReport"}
Evidence == Reports \cup {"candidatePdf"}
Files == Evidence \cup {"completionReport"}

(* A file that does not exist is not one that holds a report. *)
ReportFiles == [by : Producer, about : Producer, pass : BOOLEAN]
CompletionFiles == [root : {"agent", "here"}, candidate : Producer,
                    evidence : [Evidence -> Producer \cup ReportFiles], pass : BOOLEAN]

ASSUME AbsentAssumption == Absent \notin ReportFiles \cup CompletionFiles

VARIABLES
  verdict,   \* verdict[p]: what complete checks of producer p's PDF would find
  file,      \* file[f]: the content of f in the output directory
  job,       \* [status, by, artifacts]: the job as the queue answers it
  run,       \* run[r]: where local run r stands
  held,      \* held[r]: the quality report r's last stage has in memory
  read,      \* read[r]: the evidence r's completion check has read
  upload,    \* the agent's upload: "none", "storing" or "answered"
  unstored,  \* the files of the upload not yet stored
  get,       \* where a GET of the candidate stands
  body,      \* the bytes it will serve
  quality, completion,  \* the reports its gate has read
  writers,   \* every producer that ever wrote in the directory
  quiet      \* nothing was written since the GET read its bytes

fileVars == <<file, writers, quiet>>
runVars == <<run, held, read>>
uploadVars == <<upload, unstored>>
getVars == <<get, body, quality, completion>>
vars == <<verdict, fileVars, job, runVars, uploadVars, getVars>>

Report(by, about, pass) == [by |-> by, about |-> about, pass |-> pass]

Init ==
    /\ verdict \in [Producer -> {"good", "lossy", "incomplete"}]
    /\ Cardinality({p \in Producer : verdict[p] # "good"}) <= MaxFlawed
    /\ file = [f \in Files |-> Absent]
    /\ job = [status |-> "leased", by |-> Agent, artifacts |-> {}]
    /\ run = [r \in LocalRun |-> "idle"]
    /\ held = [r \in LocalRun |-> Absent]
    /\ read = [r \in LocalRun |-> Absent]
    /\ upload = "none" /\ unstored = {}
    /\ get = "idle" /\ body = Absent
    /\ quality = Absent /\ completion = Absent
    /\ writers = {} /\ quiet = TRUE

Stores(p, f, content) == /\ file' = [file EXCEPT ![f] = content]
                         /\ writers' = writers \cup {p}
                         /\ quiet' = FALSE

-----------------------------------------------------------------------------
(* A local production run: it starts, and each of its stages reads the     *)
(* candidate that is in the directory then.                                *)

Goes(r, from, to) == run[r] = from /\ run' = [run EXCEPT ![r] = to]

(* The agent's lease lapses and the primary starts the job itself.         *)
LeaseLapses ==
    /\ job.status = "leased"
    /\ job' = [status |-> "running", by |-> Local, artifacts |-> job.artifacts]
    /\ Goes(Local, "idle", "writing")
    /\ UNCHANGED <<verdict, fileVars, held, read, uploadVars, getVars>>

(* The primary runs one job at a time; the later one starts behind this.   *)
LaterStarts ==
    /\ job.status \in {"completed", "failed"}
    /\ Goes(Later, "idle", "writing")
    /\ UNCHANGED <<verdict, fileVars, job, held, read, uploadVars, getVars>>

WriteCandidate(r) ==
    /\ Goes(r, "writing", "validating")
    /\ Stores(r, "candidatePdf", r)
    /\ UNCHANGED <<verdict, job, held, read, uploadVars, getVars>>

(* The validator reports the hash of the PDF it was given.                 *)
Validate(r) ==
    /\ Goes(r, "validating", "inspecting")
    /\ Stores(r, "validationReport", Report(r, file["candidatePdf"], TRUE))
    /\ UNCHANGED <<verdict, job, held, read, uploadVars, getVars>>

(* check-pdf-preservation.js: a PDF that changes while it is inspected is  *)
(* an error, so the inspection is one step; the validation report must be  *)
(* about the same bytes.                                                   *)
Inspect(r) ==
    /\ Goes(r, "inspecting", "comparing")
    /\ LET pdf == file["candidatePdf"]
       IN  Stores(r, "qualityReport",
                  Report(r, pdf, /\ verdict[pdf] # "lossy"
                                 /\ file["validationReport"].about = pdf))
    /\ UNCHANGED <<verdict, job, held, read, uploadVars, getVars>>

(* The stage reads the report it got; check-saved-semantics.js reads the   *)
(* candidate and writes its own.                                           *)
CompareSaved(r) ==
    /\ Goes(r, "comparing", "judging")
    /\ held' = [held EXCEPT ![r] = file["qualityReport"]]
    /\ Stores(r, "savedSemantics", Report(r, file["candidatePdf"], TRUE))
    /\ UNCHANGED <<verdict, job, read, uploadVars, getVars>>

(* The stage adds the comparison to the quality report it holds and writes *)
(* the report again; a run whose report does not speak for the candidate   *)
(* is over.                                                                *)
JudgedReport(r) ==
    Report(r, held[r].about,
           held[r].pass /\ file["savedSemantics"].about = held[r].about)

Judge(r) ==
    /\ run[r] = "judging"
    /\ Stores(r, "qualityReport", JudgedReport(r))
    /\ Goes(r, "judging", IF JudgedReport(r).pass THEN "gathering" ELSE "refused")
    /\ held' = [held EXCEPT ![r] = Absent]
    /\ UNCHANGED <<verdict, job, read, uploadVars, getVars>>

(* check-candidate-completion.js reads every input ...                     *)
Gather(r) ==
    /\ Goes(r, "gathering", "completing")
    /\ read' = [read EXCEPT ![r] = [f \in Evidence |-> file[f]]]
    /\ UNCHANGED <<verdict, fileVars, job, held, uploadVars, getVars>>

(* ... and evaluates what it read: all of it is about the same bytes.      *)
Complete(ev) ==
    /\ verdict[ev["candidatePdf"]] = "good"
    /\ \A f \in Reports : ev[f].about = ev["candidatePdf"] /\ ev[f].pass

CompletionReport(p, ev) ==
    [root |-> IF p = Agent THEN "agent" ELSE "here",
     candidate |-> ev["candidatePdf"], evidence |-> ev, pass |-> Complete(ev)]

(* It hashes every input again before it writes its report.                *)
WriteCompletion(r) ==
    /\ run[r] = "completing"
    /\ IF \A f \in Evidence : file[f] = read[r][f]
       THEN /\ Stores(r, "completionReport", CompletionReport(r, read[r]))
            /\ Goes(r, "completing",
                    IF CompletionReport(r, read[r]).pass THEN "passed" ELSE "refused")
       ELSE /\ Goes(r, "completing", "broken")
            /\ UNCHANGED fileVars
    /\ read' = [read EXCEPT ![r] = Absent]
    /\ UNCHANGED <<verdict, job, held, uploadVars, getVars>>

(* Any stage before may fail as well.                                      *)
Break(r) ==
    /\ run[r] \in {"validating", "gathering"}
    /\ run' = [run EXCEPT ![r] = "broken"]
    /\ UNCHANGED <<verdict, fileVars, job, held, read, uploadVars, getVars>>

(* Mutant: the old completion evidence is invalidated after the new one is *)
(* there.                                                                  *)
ArtifactsInvalidated(ran) == IF ran = "broken" THEN {"candidatePdf"}
                             ELSE Files \ {"completionReport"}

Artifacts(ran) == IF ran = "passed" THEN Files
                  ELSE IF ran = "refused" THEN Files \ {"completionReport"}
                  ELSE {"candidatePdf"}

(* finalizeJob of the local run.                                           *)
FinalizeJob ==
    /\ job.status = "running"
    /\ run[Local] \in {"passed", "refused", "broken"}
    /\ job' = [status |-> IF run[Local] = "passed" THEN "completed" ELSE "failed",
               by |-> Local, artifacts |-> Artifacts(run[Local])]
    /\ UNCHANGED <<verdict, fileVars, runVars, uploadVars, getVars>>

-----------------------------------------------------------------------------
(* The agent's upload.  Its run did the same in its own workspace, alone.  *)

AgentReport(f) == Report(Agent, Agent, f # "qualityReport" \/ verdict[Agent] # "lossy")

AgentEvidence == [f \in Evidence |-> IF f = "candidatePdf" THEN Agent ELSE AgentReport(f)]

AgentFile(f) == IF f = "completionReport" THEN CompletionReport(Agent, AgentEvidence)
                ELSE AgentEvidence[f]

AgentFiles == IF verdict[Agent] = "lossy" THEN Evidence ELSE Files

(* The assignment is checked once, before the files are stored.            *)
UploadArrives ==
    /\ upload = "none"
    /\ job.status = "leased"
    /\ upload' = "storing"
    /\ unstored' = AgentFiles
    /\ UNCHANGED <<verdict, fileVars, job, runVars, getVars>>

(* persistAgentWorkspaceUploads writes all of them at once, in any order.  *)
StoreFile ==
    /\ \E f \in unstored : Stores(Agent, f, AgentFile(f)) /\ unstored' = unstored \ {f}
    /\ UNCHANGED <<verdict, job, runVars, upload, getVars>>

(* completeRemoteJob takes the snapshot, whose paths were rewritten, if    *)
(* the lease still stands.  The uploaded reports keep the agent's paths.   *)
UploadAnswered ==
    /\ upload = "storing" /\ unstored = {}
    /\ upload' = "answered"
    /\ job' = IF job.status # "leased" THEN job
              ELSE [status |-> IF verdict[Agent] = "good" THEN "completed" ELSE "failed",
                    by |-> Agent, artifacts |-> AgentFiles]
    /\ UNCHANGED <<verdict, fileVars, runVars, unstored, getVars>>

-----------------------------------------------------------------------------
(* GET /jobs/:id/artifacts/candidatePdf.                                   *)

Ended == job.status \in {"completed", "failed"}

(* The bytes are read first.                                               *)
ReadBody ==
    /\ get = "idle"
    /\ Ended /\ file["candidatePdf"] # Absent
    /\ body' = file["candidatePdf"]
    /\ get' = "status"
    /\ quiet' = TRUE
    /\ UNCHANGED <<verdict, file, writers, job, runVars, uploadVars, quality, completion>>

Gate(from, passes, to) ==
    /\ get = from
    /\ get' = IF passes THEN to ELSE "refused"
    /\ UNCHANGED <<verdict, fileVars, job, runVars, uploadVars, body>>

CheckStatus ==
    /\ Gate("status", job.status = "completed" /\ "qualityReport" \in job.artifacts, "quality")
    /\ UNCHANGED <<quality, completion>>

ReadQuality ==
    /\ quality' = file["qualityReport"]
    /\ Gate("quality", file["qualityReport"] # Absent /\ file["qualityReport"].pass, "completion")
    /\ UNCHANGED completion

ReadCompletion ==
    /\ completion' = file["completionReport"]
    /\ Gate("completion",
            /\ "completionReport" \in job.artifacts
            /\ file["completionReport"] # Absent
            /\ file["completionReport"].pass
            /\ file["completionReport"].candidate = quality.about, "candidatePdf")
    /\ UNCHANGED quality

(* Mutant: the gate hashes the candidate's file, which may have changed.   *)
HashedFile == file["candidatePdf"]

(* servedBytes: the candidate that is hashed is the one that is served.    *)
Hashed == body

Matches(f) == /\ completion.root = "here"
              /\ completion.evidence[f] = IF f = "candidatePdf" THEN Hashed ELSE file[f]

(* The entries are read one after another, in the report's order.          *)
NextEntry(f) == CASE f = "candidatePdf" -> "qualityReport"
                  [] f = "qualityReport" -> "validationReport"
                  [] f = "validationReport" -> "savedSemantics"
                  [] f = "savedSemantics" -> "flag"

CheckEvidence ==
    /\ \E f \in Evidence : Gate(f, Matches(f), NextEntry(f))
    /\ UNCHANGED <<quality, completion>>

(* A request without candidate=1 ends here.                                *)
CheckFlag ==
    /\ \E candidate \in BOOLEAN : Gate("flag", TRUE, IF candidate THEN "hash" ELSE "withheld")
    /\ UNCHANGED <<quality, completion>>

(* The served bytes once more, against the quality report.                 *)
Serve ==
    /\ Gate("hash", Hashed = quality.about, "released")
    /\ UNCHANGED <<quality, completion>>

-----------------------------------------------------------------------------
RunStep(r) == \/ WriteCandidate(r) \/ Validate(r) \/ Inspect(r) \/ CompareSaved(r)
              \/ Judge(r) \/ Gather(r) \/ WriteCompletion(r) \/ Break(r)

Next ==
    \/ LeaseLapses \/ LaterStarts \/ FinalizeJob
    \/ \E r \in LocalRun : RunStep(r)
    \/ UploadArrives \/ StoreFile \/ UploadAnswered
    \/ ReadBody \/ CheckStatus \/ ReadQuality \/ ReadCompletion \/ CheckEvidence \/ CheckFlag \/ Serve

Spec == Init /\ [][Next]_vars

-----------------------------------------------------------------------------
(* artifactDownloadPolicy: however runs, uploads and the reads of the gate *)
(* fall between each other, the bytes that leave are ones that every check *)
(* would pass; and when nothing was written meanwhile, the evidence in the *)
(* directory is exactly what the completion check saw.                     *)
OnlyVouchedBytesLeave ==
    get = "released" =>
        /\ verdict[body] = "good"
        /\ quiet => \A f \in Evidence : file[f] = completion.evidence[f]

(* docs/profiles.md: a passing review candidate of the local run is given  *)
(* to a request with candidate=1, unless another producer wrote in its     *)
(* directory.                                                              *)
LocalCandidateRetrievable ==
    get = "refused" /\ writers = {Local} => job.status # "completed"

(* The same of a job that an agent processed (docs/profiles.md,            *)
(* options.productionChecks; README.md, Remote Agents).                    *)
AgentCandidateRetrievable ==
    get = "refused" /\ writers = {Agent} => job.status # "completed"
=============================================================================
