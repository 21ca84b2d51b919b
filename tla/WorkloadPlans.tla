--------------------------- MODULE WorkloadPlans ---------------------------
(***************************************************************************)
(* The stage plans of the four workloads (workloads/index.js): which stages*)
(* a job has, which artifacts each reads and adds, and how an attempt of   *)
(* each may end.  Two workloads share the stages of                        *)
(* accessibility-stage-plan.js.  The artifacts are one object that every   *)
(* stage closes over: most stages add to it only through what they return, *)
(* the preservation stage also changes it in place, whatever happens to it *)
(* afterwards.  Here an artifact is a key of that object.                  *)
(***************************************************************************)
EXTENDS Naturals, Sequences

(* What a run depends on: options of the request, and facts about the      *)
(* document and the path of the output directory that no stage changes.    *)
(* Only accessibility tagging reads the options.                           *)
WorkloadJobs ==
    [workload: {"accessibility-tagging"},
     ml: BOOLEAN,            \* options.mlClassifier.enabled
     preservation: BOOLEAN,  \* options.preservationCheck
     production: BOOLEAN,    \* options.productionChecks
     merging: BOOLEAN,       \* paragraphMerger.enabled in the profile
     pathMatches: BOOLEAN,   \* the output path has a word like "timeout"
     writer: {"native", "passthrough", "unqualified"}]
    \cup
    [workload: {"tag-and-ssn-redact", "ssn-redaction", "corruption-repair"},
     ml: {FALSE}, preservation: {FALSE}, production: {FALSE},
     merging: BOOLEAN, pathMatches: {FALSE}, writer: {"native"}]

Redacts(job) == job.workload = "tag-and-ssn-redact"

Checked(job) == job.preservation \/ job.production

(* Mutant: the output stages always read the tuned semantics.              *)
SemanticKeyTuned(job) == IF Redacts(job) THEN "semanticRedacted" ELSE "semanticMlTuned"

SemanticKey(job) == IF Redacts(job) THEN "semanticRedacted"
                    ELSE IF job.ml THEN "semanticMlTuned" ELSE "semanticOrdered"

PreparationStages(job) ==
    <<"layout", "sourceTextMap", "tableStructureMap", "layoutEnriched",
      "semantic", "paragraphMerger", "readingOrder">>
    \o (IF job.ml THEN <<"mlClassifier">> ELSE << >>)

(* The writer and its report; a redaction has its own stages behind them.  *)
OutputStages(job) ==
    <<"tagBuilder", "pdfWriter", "tagDeltaReport">>
    \o (IF Redacts(job) THEN <<"redactionFinalize">> ELSE << >>)
    \o <<"validator">>
    \o (IF Checked(job) THEN <<"preservationQuality">> ELSE << >>)

WorkloadStages(job) ==
    CASE job.workload = "ssn-redaction" -> <<"layout", "redactor">>
      [] job.workload = "corruption-repair" -> <<"repair", "fontRepair">>
      [] Redacts(job) -> PreparationStages(job) \o <<"semanticRedaction">> \o OutputStages(job)
      [] OTHER -> PreparationStages(job) \o OutputStages(job)

(* What an attempt must find for its output to be what it is named.  The   *)
(* writer of a redaction takes the redactions only if they are there, and  *)
(* would write the pages as they are; the font check takes the repaired    *)
(* PDF from its usual place otherwise.                                     *)
Needs(stage, job) ==
    CASE stage \in {"layout", "repair"} -> {}
      [] stage \in {"sourceTextMap", "tableStructureMap"} -> {"layout"}
      [] stage = "layoutEnriched" -> {"layout", "tableStructureMap"}
      [] stage = "semantic" -> {"layoutEnriched"}
      [] stage = "redactor" -> {"layout"}
      [] stage = "fontRepair" -> {"repairedPdf"}
      [] stage = "paragraphMerger" -> {"semantic"}
      [] stage = "readingOrder" -> {"semanticMerged"}
      [] stage = "mlClassifier" -> {"semanticOrdered", "layoutEnriched"}
      [] stage = "semanticRedaction" -> {"semanticOrdered", "layout"}
      [] stage = "tagBuilder" -> {SemanticKey(job)}
      [] stage = "pdfWriter" ->
            {"tagging", SemanticKey(job)} \cup IF Redacts(job) THEN {"redactionPlan"} ELSE {}
      [] stage = "redactionFinalize" -> {"taggedPdf", "redactionPlan"}
      [] stage = "tagDeltaReport" -> {"taggedPdf"}
      [] stage = "validator" -> {"taggedPdf", "tagManifest"}
      [] stage = "preservationQuality" ->
            {"taggedPdf", "validationReport", SemanticKey(job)}
            \cup IF job.production THEN {"writerReport", "tagging", "tagManifest"}
                 ELSE {}

(* What a stage that succeeds without a fallback returns.                  *)
Gives(stage, job) ==
    CASE stage = "paragraphMerger" ->
            {"semanticMerged"} \cup IF job.merging THEN {"paragraphMergeReport"} ELSE {}
      [] stage = "readingOrder" -> {"semanticOrdered"}
      [] stage = "mlClassifier" -> {"semanticMlTuned", "mlPredictions"}
      [] stage = "semanticRedaction" -> {"semanticRedacted", "redactionPlan"}
      [] stage = "redactionFinalize" -> {"redactionReport"}
      [] stage = "redactor" -> {"redactedPdf", "redactionReport"}
      [] stage = "repair" -> {"repairedPdf", "repairReport"}
      [] stage = "fontRepair" -> {"fontReport"}
      [] stage = "tagBuilder" -> {"tagging"}
      [] stage = "pdfWriter" ->
            {"taggedPdf", "writerReport", "tagManifest"}
            \cup IF job.production THEN {"candidatePdf"} ELSE {}
      [] stage = "validator" -> {"validationReport"}
      [] OTHER -> {stage}

-----------------------------------------------------------------------------
(* How an attempt ends: the artifacts it leaves in the shared object, "ok",*)
(* "transient" (an error isRetryableStageError accepts) or "final", and    *)
(* whether the stage refused the candidate.  An attempt that breaks off    *)
(* may have seen a verdict against it: nothing is left of that.            *)

Ending(arts, ends, refused) == [arts |-> arts, ends |-> ends, refused |-> refused]

Breaks(arts) == {Ending(arts, e, FALSE) : e \in {"transient", "final"}}

(* The errors marked retryable = false name the output path: the mark is   *)
(* not read, so such an error is transient when the path matches.          *)
Refusal(job) == IF job.pathMatches THEN "transient" ELSE "final"

Refused(arts, job) == Ending(arts, Refusal(job), TRUE)

(* A failed merge falls back to a copy, without a report.  The maps fall   *)
(* back to a diagnostic and the reading order, unless the document has     *)
(* authored constraints, to geometry: under the same key.  A fallback that *)
(* cannot be made is an error like any other.                              *)
StageEndings(stage, arts, job) ==
    Breaks(arts)
    \cup {Ending(arts \cup Gives(stage, job), "ok", FALSE)}
    \cup IF stage = "paragraphMerger"
         THEN {Ending(arts \cup {"semanticMerged"}, "ok", FALSE)} ELSE {}

(* check-pdf-preservation.js reports what it could not inspect as "error": *)
(* the only answer when the candidate was withdrawn and the path is        *)
(* "undefined".                                                            *)
Inspections(arts) ==
    IF "taggedPdf" \in arts THEN {"review_required", "rejected", "error"} ELSE {"error"}

(* Preservation without production checks judges the report alone.         *)
PreservationEndings(arts, job) ==
    Breaks(arts)
    \cup {IF d = "review_required"
          THEN Ending(arts \cup {"qualityReport"}, "ok", FALSE)
          ELSE Refused(arts \cup {"qualityReport"}, job) : d \in Inspections(arts)}

(* The saved semantics were compared: what is known about their ownership  *)
(* is replaced.                                                            *)
WithSaved(arts, job) ==
    IF job.writer = "native" THEN arts \cup {"savedSemantics", "sourceOwnership"}
    ELSE (arts \cup {"savedSemantics"}) \ {"sourceOwnership"}

(* The report's disposition after the comparison of the saved structure,   *)
(* with the artifacts then: an error inside it becomes the disposition.    *)
Comparisons(arts, job) ==
    {<<arts, "error">>}
    \cup IF job.writer = "unqualified" THEN {}
         ELSE {<<WithSaved(arts, job), d>> : d \in Inspections(arts) \cup {"rejected", "error"}}

(* Mutant: a refused candidate stays an artifact.                          *)
NotWithdrawn(arts) == arts

Withdrawn(arts) == arts \ {"taggedPdf"}

(* The completion check of a candidate every earlier check would let pass: *)
(* it may crash, speak for the candidate, or against it.  Its report is an *)
(* artifact before it is read.                                             *)
CompletionEndings(arts, job) ==
    LET checked == arts \cup {"completionReport"}
    IN  Breaks(arts) \cup Breaks(checked)
        \cup {Ending(Withdrawn(checked), "ok", FALSE), Refused(Withdrawn(checked), job)}

(* The report with the disposition is written back before it becomes an    *)
(* artifact and before a candidate is withdrawn: when the writing fails,   *)
(* whatever the disposition is, the candidate is still there.              *)
Unwritten(compared) == UNION {Breaks(p[1]) : p \in compared}

ProductionEndings(arts, job) ==
    LET Judged(p) == p[1] \cup {"qualityReport"}
        compared == Comparisons(arts, job)
        passed == {p \in compared : p[2] = "review_required"}
    IN  Breaks(arts)
        \cup Unwritten(compared)
        \cup {Refused(Withdrawn(Judged(p)), job) : p \in compared \ passed}
        \cup UNION {CompletionEndings(Judged(p), job) : p \in passed}

(* Earlier completion evidence is dropped before anything else is done.    *)
Fresh(stage, arts, job) ==
    IF job.production /\ stage \in {"pdfWriter", "preservationQuality"}
    THEN arts \ {"completionReport"} ELSE arts

WorkloadEndings(stage, arts, job) ==
    LET fresh == Fresh(stage, arts, job)
    IN  IF stage # "preservationQuality" THEN StageEndings(stage, fresh, job)
        ELSE IF job.production THEN ProductionEndings(fresh, job)
        ELSE PreservationEndings(fresh, job)
=============================================================================
