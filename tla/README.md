# OpenAutoTag: TLA+ models and proofs

OpenAutoTag turns PDFs into tagged, accessible ones. A **primary server** (Node.js)
accepts jobs, keeps them in an in-memory queue and runs one at a time itself; any
number of **remote agents** poll it for work, run a leased job and upload the result;
on an agent machine a **supervisor** keeps several agent processes alive. This
directory holds TLA+ models of that distributed core, of the run of one job from its
input to the release of a candidate, and of how a page's reading order is
found and its nodes are tagged in that order; the TLC runs that check them on small
instances; and TLAPS proofs for every value of the constants. Paths below are relative
to the repository root; line numbers are in `PROJECT.json`.

## 1. Inventory

### The core

| component | state it keeps | operations | interacts with |
|---|---|---|---|
| job queue, `orchestrator/job-queue.js` | jobs, waiting list, leases (`remoteAssignments`), `localRunning` | `enqueue`, `drain` (local worker), `claimNextRemoteJob`, `heartbeatRemoteJob`, `completeRemoteJob`, `failRemoteJob`, the sweep `recoverExpiredRemoteClaims` every one of them begins with | calls the processor, asks the registry for the remote capacity; called by the routes |
| agent registry, `orchestrator/agent-registry.js` | per agent: status, last seen, totals | `checkIn`, `noteClaim`, `noteHeartbeat`, `noteCompletion`, `noteLeaseExpiry`, `countIdle` | written by the routes, read by `drain` |
| `/agents` routes, `orchestrator/server.js` | none of their own | check-in, input, heartbeat, complete (which awaits file writes between its two checks) | queue, registry, agents |
| agent service, `orchestrator/agent-service.js` | the assignment in hand | poll loop, download, run, upload, second upload | HTTP to the primary |
| agent supervisor, `orchestrator/agent-supervisor.js`, `agent-worker.js` | per slot: child, backoff, restart timer, last sign of life; `shuttingDown` | spawn, exit, restart, watchdog, close | child processes by fork, IPC and signals |
| workload runner, `orchestrator/workload-runner.js` | stage at hand, attempt, stage records, heartbeat timers | attempts with retries, progress reports, the snapshot | the stage plan's closures; its caller's `onProgress` |
| stage plans, `accessibility-stage-plan.js` and the four runners | the artifacts object all stages share | one closure per stage, fallbacks, verdicts | child processes through the runner |
| release gate, `artifact-policy.js` and three `scripts/check-*.js` | files of the output directory | inspections, completion evidence, the gate of a download | routes of `server.js`, the queue's job snapshot |
| managed keys, `auth-controller.js` | registry in memory, chain of writes, one file | load, create, revoke, note a use | routes of `server.js` |
| reading order: `layout-analyzer`, `semantic-engine`, `paragraph-merger`, `reading-order` under `modules/` | the document, from stage to stage | columns, regions and relations, merging, constrained sort, outline | one JSON file per stage |
| tag builder, `modules/tag-builder` | open sections, lists, table, diagram; begun paragraphs; rank of each heading level | one loop over the ordered nodes | reads the ordered document, writes the tags for the writer |

What is hard here: everything that an agent says may come late, twice or not at all,
and is matched by an agent id alone; the sweep runs inside every operation, so any
call may move any job; `drain` is wakeup-driven, so what it decided on old data stays
decided until something wakes it; `/complete` is not atomic, and stores the files of
an upload before it knows whether the upload counts; the supervisor learns of a death
only by an event that comes later; stages are retried after they changed what they
share; evidence about a PDF is spread over files that several producers write; a key
registry is answered from memory and kept by writes that may fail or be cut short;
the relations between lines of a page are made by one module, rebound by another that
joins lines, and obeyed by a third; the tag builder carries half a dozen variables from
one node to the next, and what interrupts what decides where a node ends up.

What makes each correct:

- queue: no job lost, doubled, reopened or overtaken; a lease alone decides who may
  end a job; the local worker never sleeps beside work nobody else will take;
- registry and routes: what the registry counts and lists agrees with the queue;
- agent service: one assignment at a time; a lost answer costs a lease, not a job;
- supervisor: one process per agent id, none unreachable, none left after `close()`;
- workload runner and plans: every run ends, progress only advances, a stage finds
  what it reads, a candidate that was refused and withdrawn is not passed by a retry;
- release gate: bytes that leave are bytes every check passed; a good candidate can be
  had;
- managed keys: what was answered after a write is never forgotten or undone;
- reading order: one geometric order, the least one that obeys the relations; joined
  paragraphs never make the relations unsatisfiable;
- tag builder: the tags are read in the reading order, sections follow the outline,
  tables and their rows are never confused, and every finished table is a full
  rectangle of the cells that were declared.

### Not modelled, and why

- **PDF content** (`modules/` except reading order and tag builder, the scripts that
  inspect PDFs, role classifier): parsing, fonts, writing and validation
  are functions of large numerical and textual inputs without behaviour over time.
  Their outcome is a choice in `WorkloadPlans`. They are by far the largest part of the
  repository's lines.
- **Profiles, tuning, diff engine, read-only gateway, CI runner, runtime
  configuration**: functions of a configuration, or sequential drivers.
- **Batch registry** (in `server.js`), **human review store**, **desktop shell**,
  **servlet gateway**: small state beside the system, without behaviour that would gain
  from a model. What can go wrong with a batch is listed in `PROJECT.json` as a hazard
  that no property covers.
- **Browser UI, install and benchmark scripts**: presentation and glue.

`PROJECT.json` lists every component with its status and reason.

## 2. Modules

| module | models |
|---|---|
| `JobLifecycle` | abstract: what a client is promised about a job (waits, runs on one worker, is given up only if remote, ends once; one local slot) |
| `JobQueue` | `job-queue.js`, one action per operation |
| `AgentFleet` | queue (it extends `JobQueue`), registry, routes, agents and network together |
| `AgentFleetProofs` | theorems about `JobQueue` and, on top of them, `AgentFleet` |
| `AgentSupervisor` | `agent-supervisor.js` with its workers |
| `AgentSupervisorProofs` | theorems about `AgentSupervisor` |
| `StagedRun` | abstract: what a caller is promised about a run (stages complete in order; it ends completed, failed at one stage with the rest skipped, or refused) |
| `WorkloadRunner` | `workload-runner.js` over any plan |
| `WorkloadPlans` | the plans of the four workloads: stages, artifacts, endings |
| `WorkloadRun` | the two together |
| `WorkloadRunProofs` | theorems about `WorkloadRunner` and `WorkloadRun` |
| `ReleaseGate` | the gate, the checks whose evidence it reads, and all who write that evidence |
| `ReleaseGateProofs` | theorems about `ReleaseGate` |
| `KeyRegistry` | the managed keys of `auth-controller.js` |
| `KeyRegistryProofs` | theorems about `KeyRegistry` |
| `ReadingOrder` | `modules/reading-order`: lines, comparator, constrained sort, outline |
| `PageOrder` | a page through layout, relations, merging, and `ReadingOrder` |
| `TagTree` | `modules/tag-builder`: the ordered nodes are nested into tags |
| `TableGrid` | the same module's passes over finished tables: cells, sections, grid |
| `ReadingOrderProofs` | theorems about `ReadingOrder` and `PageOrder` |
| `TagTreeProofs` | theorems about `TagTree`, on top of `ReadingOrderProofs` |
| `TableGridProofs` | theorems about `TableGrid`, on top of `TagTreeProofs` |
| `MC...` | instances for TLC: symmetry sets, documents and pages |

`AgentFleet` runs a job as one step (`ProcessLocally`, `StartWork` to `RunReturns`);
`WorkloadRunner` is the inside of that step and promises what it assumes: a run ends,
with a snapshot, and reports meanwhile (`RunSpec`). `ReleaseGate` is the inside of the
last stage of `WorkloadPlans` and of `/complete`, with the lease of `JobQueue`
reduced to who holds it. `PageOrder` is the inside of the stages layout to
readingOrder, and `TagTree` with `TableGrid` that of the tag stage after them.

**JobQueue.** `status`, `worker`, `detail` are the fields of `jobs.get(j)`; `queue` is
the array; `holder` and `lease` are `remoteAssignments`, the latter as ticks left
before `expiresAt`; `local` is the job whose processor call is awaited
(`localRunning`). Node runs one callback at a time, so an operation is one action;
`queueMicrotask(drain)` sets `drainPending`, and while it is set only `Drain`, or the
clock, moves, since microtasks run first. `drain` is split where it awaits: `Drain`,
`LocalProgress`, `LocalFinish`, `LocalThrow`. Primed values are built on `StatusR`,
`WorkerR`, ... , the state the initial sweep leaves. Callers are arbitrary: any agent
may call anything for any job at any time, so nothing that is shown relies on
well-behaved clients. `detail` distinguishes only waiting, claimed, "whatever the run
reported last" and ended. The order in which one sweep requeues several leases (the
Map's insertion order) is left open.

**AgentFleet** uses every `JobQueue` action (`Init`, `Next`, `vars` are the queue's;
names of the whole begin with `Fleet`), adds the registry entry each route writes, and
restricts the callers to what agents do: `phase` is where an agent's poll loop stands, `task` its assignment, `result` and `retries` the upload
in progress. `/complete` is `UploadArrives` (check, start writing), then
`UploadCompletes` (check again, complete or refuse) or `PersistFails`. `uploads` holds
the handlers in between, which run on when the agent has gone. `late` holds stage
heartbeats nobody awaits. `CheckInForWork` with `Fault` is a lost answer. `InTime`
says how often a healthy agent renews: three heartbeats fit a lease
(`computeLeaseDurationMs`), three check-ins a stale window (`computeStaleWindowMs`);
a clock tick that outruns an agent costs a fault.

**AgentSupervisor.** Per slot: `alive` (processes that really run), `health` (what the
last one is like), `child`, `silent`, `ran`, `backoff`, `timer`; `awaited` and `killIn`
are the promises and timers of `close()`. Process end, "exit" event and late messages
are separate steps. A fork that fails is a child that emits "error" and no "exit".

**WorkloadRunner.** `at` is where the loop of `runManagedWorkload` stands, `attempt`
that of `executeStageWithRetries`; `stages` are the records, `artifacts` the keys of
the shared object, `reported` what `onProgress` last got, `timers` the intervals that
are set. An attempt is `StartAttempt`, any number of `Heartbeat`s, then one of
`AttemptSucceeds`, `AttemptRetried`, `StageFails`. `Plan` and `Endings` are operator
constants, so the theorems hold for every plan. **WorkloadPlans** gives them their
values: for each stage what it reads (`Needs`), what it adds (`Gives`) and how it may
end, where an ending is the artifacts left behind, whether the error is one that
`isRetryableStageError` accepts, and whether the candidate was refused. The preservation
stage is spelt out (`ProductionEndings`), because it alone changes the object in place.
`refused` and `pathMatches` are there for the properties: `retryable = false` is not
read, so a refusal is retried when the output path contains a word of the transient
pattern. In a production run `RefusalStands` holds all the same, because the refusing
stage has withdrawn `taggedPdf`, without which its repetition cannot pass; without
production checks nothing is withdrawn and the repetition may pass (`workload_run_refusal`,
below). A verdict is not yet a refusal: the disposition is written back (line 467 of
accessibility-stage-plan.js) and the completion report read (line 480) before the
candidate is withdrawn, and when that fails the attempt ends with an ordinary error, the
candidate still there and `savedSemantics`, `sourceOwnership` and perhaps
`completionReport` changed (`Unwritten`, `CompletionEndings`). With EMFILE or EBUSY it is
retried and the candidate judged anew; `refused` does not count such attempts.

**ReleaseGate.** A PDF is named after its producer and a report is (author, PDF it is
about, verdict); equal hashes are equal values. `run[r]` goes through the stages whose
reads and writes matter; `StoreFile` stores an upload's files in any order;
`ReadBody` to `Serve` are the reads of `GET /jobs/:id/artifacts/candidatePdf` and
`artifactDownloadPolicy`, one step each. A half-written file is left out: what cannot
be parsed or hashed to the expected value only refuses. A second local run starts only
after the job ended, since the primary runs one job at a time.

**KeyRegistry.** A call is cut at its awaits (loading, mkdir, its own write); a write
is `Truncate`, then `WriteDone` or `WriteFails`; `Crash` forgets everything but the
file. `durable` and `promised` only remember, for the properties.

**ReadingOrder** and **PageOrder.** A node is a line, a one-line heading or a table;
columns, gutter, spans, bands, heading and continuation relations, protected
boundaries and the merger's rows are computed as the code does, in units of 36 points
across and 3 points down. `Recover` is the catch of the readingOrder stage. The
topological sort is stepped node by node, and its heap is the code's array: `Pushed` and
`Popped` move a hole through it as `push` and `pop` do. The outline names headings by
their places in the order. Each unit is a single node, and
the column bands of `buildPageUnits`, used where the layout gives no column, are left
out, as are footnotes, captions, lists, forms, detached footers, rotated text, prose
columns, the other merge strategy, the merger's default of 20 for a page on which no line
gap can be measured, and relations between pages.

**TagTree** continues either from the order `PageOrder` found or its fallback
(`BeginTagging`), or from a document of `Texts` that was ordered otherwise. `text` is
`orderedNodes`, `next` the loop's index, `levels` the map `detectedToNormalized`, and
`sections`, `lists`, `table`, `diagram` are `sectionStack`, `listStack`, `activeTable`
and `activeDiagram`; each branch of the loop is an action, and an error that asks for a
review ends the run (`Refuse`). `tags` lists the tags as they are created with their
parents, so that the order of a tag's children is that of the list; `name` is the
identity of a table or the index of a row. The maps of begun items and paragraphs are
read off `tags`. Left out: Title, Caption, section promotion and Layout attributes (off
by default), the configurable clamp of heading levels (1 to 6 unless the environment says
otherwise), and what goes into one tag (spans, markers, labels).

**TableGrid** goes on when the loop has ended and some table was tagged. `tables` holds
for each Table tag its rows with their sections and cells, which from here on replace
the tags below it. The passes run in the order of the code, each over all tables:
`MergeFragments` (`mergeDeclaredCellFragments`; which fragments are aligned is a choice,
as it depends on their boxes), `AssignSections` (`normalizeTableSections`),
`NormalizeRegularity` (`planTableGrid` and `normalizeTableNode`: declared rectangles
first, the others in the first gap, then placeholders and rows for spans that reach
below the table), and `FinishTables` (`normalizeTableSections` again, and
`flattenRedundantTableBodySections`). A table whose declarations contradict each other
gets `review` and is left as it is. Columns are counted from 1. The grid puts the cells
of a row in the order of their columns whatever the reading order was, so
`TagsFollowReading` is about the tags before these passes. Left out: the bounds of a
grid (rows, columns, slots, work), a first row in capitals that counts as a header, the
splitting of cells whose texts ran together, and the later passes: repeated headers,
Headers attributes, demotion of spurious tables, captions, OCR segments and widgets.

## 3. Runs

| run | instance | question | distinct states |
|---|---|---|---|
| `job_queue` | 4 jobs, 2 agents, leases of 2 ticks, capacity 0..2 | safety of the queue under arbitrary callers; implements `JobLifecycle` | 26,738 |
| `agent_fleet` | 2 jobs, 2 agents, 2 faults | agreement of queue, registry and agents | 1,003,847 |
| `agent_fleet_live` | 2 jobs, 1 agent, 1 fault | every job ends | 16,687 |
| `agent_fleet_fallback` | 1 job, 1 agent, 1 fault, no restarts | the README's local fallback: **violated** | - |
| `agent_supervisor` | 2 slots, 2 restarts each | one process per id, none unreachable or left behind; slots come back; `close()` resolves | 305,783 |
| `workload_run` | all four workloads, all options, 3 attempts | stages find their inputs, refusals of production runs stand, progress is monotone; implements `StagedRun` | 16,049 |
| `workload_run_refusal` | the same | a refused candidate fails the stage without retry: **violated** | - |
| `release_gate` | 2 local runs, 1 upload, 1 request, 1 flawed PDF | only vouched bytes leave, and good ones can be had | 2,104,300 |
| `release_gate_agent` | the same | the candidate of an agent's job: **violated** | - |
| `key_registry` | 2 keys, 3 concurrent requests, crashes | answers survive; file and memory agree at rest | 107,953 |
| `page_order` | pages of 4 rows with 4-5 nodes; documents of 3-6 units; texts of 3-5 nodes, tables of up to 4 cells | the order is the least that obeys the relations; pages can be ordered; the outline nests; tags are read in that order; finished tables are full rectangles | 1,666,502 |
| `page_order_merge` | pages of 3 rows | paragraphs are not joined through headings: **violated** | - |

**Bounds, and why they suffice.** Four jobs allow the queue a local run, a lease on
each of two agents, and a job waiting behind a requeued one; two leases may lapse in
one sweep. Leases of two ticks separate "just renewed", "last tick" and "lapsed".
`MaxFaults` 2 allows a fault during the recovery from another, for instance an upload
whose connection breaks and whose retry's files cannot be written. In `AgentFleet` no two handlers with
the same agent, job and outcome run at once (`u \notin uploads`). `MaxRestarts` bounds
how often the environment may harm a worker; with two the delay starts at 2 and its
doubling is cut to the cap of 3. Jobs and agents are interchangeable: symmetry is used
for safety runs only, and not for the supervisor's, which checks liveness as well. `agent_fleet_live` has a single agent because
liveness checking without symmetry is slow beyond that.

`MaxStages` 13 is the longest plan (a tagging job with ML tuning and checks has 13
stages, a redaction too); `MaxAttempts` 3 is `DEFAULT_STAGE_ATTEMPTS`. `MaxFlawed` 1:
one producer's PDF is not good, which suffices to mix good and bad evidence in every
way; with more the run exceeds its time. Three requests on two keys let a create and a
revocation of one key overlap with a third call whose payload was made before, between
or after. Pages of four rows have room for a line above, a heading, a line below and a
continuation in either column, with `Epsilon` 2 of the units of `Documents`; relations
are enumerated up to three among four nodes and two among six, so that the heap gets
three levels and cycles, repetitions, self-loops and unknown ids occur. `MCTexts` mixes all
kinds of nodes in texts of four (any interruption of anything, and what comes after
it), and goes to five where a kind needs it: lists three levels deep with
continuations, tables of which one has the name of another's fragment. Tables of three
and four cells in up to three rows declare columns 1 and 2 or none, and spans of one or
two rows and columns: this lets a span reach into the next row, over a missing row or
below the last one, overlap a declared cell, or stand where a cell without a column
looks for its place. Other such tables mix headers, data and sections. In a text the
cells of a page come by rows and an item is continued before the next begins, as in the
documents the semantic stage writes; the code does not check either (`TextOK`, section 5).

Deadlock is checked for the queue, the fleet and the keys. The supervisor stops when
`close()` resolved; a run, a request and a page come to their end.

## 4. Properties

`JobQueue`: `ExactlyOneOwner` (queued iff listed once, running iff held by exactly one
of local worker and lease), `WorkerIsOwner`, `DetailFollowsStatus`, `NoLostWakeup`,
`TerminalIsFinal`, `LeaseDecides` (a lease in force keeps its job; a lapsed one cannot
end it), `FirstComeFirstServed`, `LifecycleSpec`. `AgentFleet`: `CountersAgree` (the
registry's totals count each ended job once, although uploads are sent twice, raced
and refused), `UndisturbedFleetAgrees` and `HeldWorkIsCovered` (before the first fault,
the three parties agree who works, and jobs left to the agents have one that polls),
`RedundantRunsAreBounded`
(k faults cost at most k extra concurrent executions), `EveryJobEnds`.
`AgentSupervisor`: `OneProcessPerSlot`, `NoSlotForgotten`, `NoOrphans`,
`SlotsComeBack`, `CloseFinishes`.

`WorkloadRun`: `InputsReady` (every attempt finds the paths it reads, under all options
and after all fallbacks and retries; in particular a redaction never writes without its
plan), `RefusalStands` (no retry completes a production run whose preservation stage
refused and withdrew its candidate, and what completes has its evidence), `ProgressNeverGoesBack`, `RunSpec`. `ReleaseGate`: `OnlyVouchedBytesLeave`,
`LocalCandidateRetrievable`. `KeyRegistry`: `AnswersSurvive`, `DiskNeverGoesBack`,
`QuietFileAgrees`. `PageOrder`: `ComparatorIsAnOrder` (a strict total order on every
page), `LeastExtension` (the result obeys the relations, geometry decides whatever they leave
open, and only a cycle is refused),
`OutlineNests`, `TwoColumnsAreOrderable` (on a page with text in both columns, merging
never makes the relations contradict each other), `RelationsAreObeyed` (whatever was
merged and whichever way the order was found). `TagTree`: `TagsFollowReading` (whoever
walks the tags reads every node once, in order, a paragraph in parts where it begins),
`SectionsFollowOutline` (renumbering levels never puts a heading under another that the
outline does not have above it, and keeps all ancestors when no two levels share a
rank), `TablesKeepTheirNames` (names of tables and fragments differ and lead back to
their group; rows count upwards over pages). `TableGrid`: `TablesAreTiled` (each place
of a finished table is covered by exactly one cell, cells stay where they were declared,
none is lost, a head has a body below it, and a table is left for a review only if its
declarations do contradict each other). Each has at least one mutant of the
code, listed in `PROJECT.json`, that makes it fail.

**Fairness.** The event loop serves every callback that becomes due and requests keep
arriving: strong fairness for operations that wait for the microtasks
(`MicrotasksDone`), because microtasks disable them again and again; weak fairness for
`Drain` and the clock. The processor settles and agents' runs return (their child
processes end). A living agent keeps polling (`pollLoop` never leaves its loop). That
a crashed agent is restarted (`RestartFairness`) is what `SlotsComeBack` shows of the
supervisor, up to a fork that failed. In the supervisor: the parent's timers and
events, and a healthy worker's one-second report. Nothing is assumed of a hung or draining
worker: the watchdog, or `close()`, kills it. In the workload runner: weak fairness of
its own steps; that the child process of a stage ends is an assumption, since
`execNodeToFile` sets no time limit. The other specifications claim no liveness.

**Findings.** `agent_fleet_fallback` checks README.md:138, "If no idle agents are
checked in, the primary server keeps processing queued work locally." It does not
hold in one case: an agent checks in and is idle; a job is enqueued and `drain` leaves
it to that agent (job-queue.js:286); the agent crashes and becomes stale. Nothing wakes
`drain`: `requestDrain` is called only by a check-in (server.js:1843), and a sweep
queues a drain only if a lease lapsed. The job waits, the local worker idle, until
some other job or agent turns up. `NoLostWakeup` states what does hold: the capacity
drain *last saw* covers the queue. With restarts, `EveryJobEnds` holds.

`workload_run_refusal` checks docs/profiles.md:154-156, where an inspection that ends as
"error" and a regression that is "rejected" are said to fail: "Either fails the pipeline
stage without retry." The stage throws an error with `retryable = false`
(accessibility-stage-plan.js:492), but `isRetryableStageError` (workload-runner.js:103)
reads only `true` and matches the message otherwise, and the message ends with the output
path. Under a directory whose name contains, say, "timeout" the stage is retried; and
without production checks, where the candidate is not withdrawn, a retry whose inspection
succeeds completes the run. `RefusalStands` states what holds with production checks.

`release_gate_agent` checks docs/production-tagging-engine-plan.md:431 ("retrieval uses
`/jobs/<jobId>/artifacts/candidatePdf?candidate=1`") for a job processed by an agent.
`rewriteRemoteJobSnapshot` (server.js:720) maps the paths of the snapshot to the
primary's directory, but the uploaded `10-candidate-completion.json` still names the
agent's, and the gate compares them (artifact-policy.js:52): every such candidate is
refused. `LocalCandidateRetrievable` shows that a local one is not.

`page_order_merge` checks docs/tagging-accuracy-delivery-20261021.md:24 ("Protected
boundaries prevent merging through unrelated forms, columns, regions, tables, headings
...") and the test named "paragraphs cannot merge through headings or list items"
(form-boundaries.test.js:18). The merger counts as barrier only an element with the
column hint of the following line (text-structure-merge.js:151), and a heading cuts the
page into regions only when there is text in both columns (document-inference.js:44).
With all lines in one column, a centred heading with the other hint is no barrier. When
nodes of both columns lie below it, the relations "above, heading, below" become a cycle
through one paragraph and the job fails. `TwoColumnsAreOrderable` states where this
cannot happen.

Met on the way, and excepted in the properties because the repository promises
nothing about it: a fork that fails emits no "exit", so its slot stays dead and
`close()` waits for it for ever (`SlotsComeBack`, `CloseFinishes`). Where the tag builder gives two heading levels one rank, the tags are
flatter than the outline: after H2 and H1, a second H2 lies under the H1 in the outline
and beside it in the tags; and H1, H2, H3, H1, H3 keeps its skipped level.

## 5. Proofs

All theorems hold for any finite sets of jobs, any agents, slots, keys or requests, any
lease length and timing, any number of attempts, faults and flawed PDFs, any documents,
pages and texts. They rest on the named assumptions of the modules, which TLC evaluates
on every run: constants are distinct and have their types (`JobQueueAssumption`,
`AgentSupervisorAssumption`, `WorkloadRunnerAssumption`, `KeyRegistryAssumption`,
`ReleaseGateAssumption`, `AbsentAssumption`); there are finitely many agents and every
number of them may be told to `drain` (`AgentFleetAssumption`); boxes are numbers, a
document has finitely many nodes and a list of relations, which may be wrong
(`ReadingOrderAssumption`, with `DocumentOK`; `PageOrderAssumption`, with `PageOK`).

A text that comes to the tag builder from elsewhere (`TagTreeAssumption`, with `TextOK`)
is one the stages before it could have written: levels and rows are numbers and pages
begin at 1 (`pageNumber` in contracts/tagging.schema.json); a table's cells on one page
come by rows, because `makeTableUnit` sorts them before it emits them (`ByRows`); and
an item is continued before the next one begins, because `makeListUnit` sorts the parts
of a list by item (`ContinuedAtOnce`). Without the last two the tag builder would still
run, but a cell or a part would be put into a row or an item that was left already, and
the walk of the tags would not be the reading. The code checks neither
again: `applyPrecedence`, which may move single cells or parts of an item, and
`fallbackReadingOrder`, which goes by geometry alone, do not sort tables and lists a second
time, and a document they bring out of this order is outside the theorems. What `PageOrder` orders needs no such
assumption: that it is a text is proved (`OrderedText`).

**AgentFleetProofs, the queue.** The inductive invariant `IInv` is `TypeOK`, `ExactlyOneOwner` and
`WorkerIsOwner`. None is inductive alone: that a requeued job is not in the queue
already needs `ExactlyOneOwner`, and that a lapsed lease's job is always requeued
(the sweep requires `worker.kind = "agent"`) needs `WorkerIsOwner`. As each operation
works on the state its own sweep leaves, `Owned` states the invariant of an arbitrary
state; `SweepKeepsOwned` shows it of the swept one, and `AppendKeepsOwned`,
`TakeKeepsOwned`, `EndKeepsOwned` of each elementary move from there. `Move(i)` then
lists what any step may do to job i (`EveryStepMoves`), and from it follow
`EndedStaysEnded`, `LeasesDecide`, `DetailCorrect` and the refinement `Implements`.
`Wakeups` needs in addition that a sweep which requeues nothing changes nothing
(`QuietSweep`). `NobodyOvertakes` compares whole queues: each step leaves one that
`Follows` the one before.

**AgentFleetProofs, the fleet.** `FleetRunsTheQueue` shows that every step of the fleet is a step
of the queue or leaves it alone, so all of the above, and `IInv`, hold in the fleet; the
fleet's own types and pairings are `FleetOK`. `CountersCorrect` needs no more: a total
is written in the step that ends a job. The next two hold until the first fault, under
invariants of that quiet time: `Peaceful` (no lease lapses, every upload in progress is
awaited by its agent, nothing is late, nobody is dead, and the three parties agree),
which needs the numbers of `InTime` because only they keep a lease from lapsing; and
`Covered` (between drains, the queue is no longer than the set of those who poll).
`RedundancyBounded` splits what runs a job beside the one entitled to it into strays
(agents that lost their lease and work on) and ghosts (uploads nobody awaits): `Debt`
counts both, and no step increases it without using up a fault (`DebtMoves`).

**AgentSupervisorProofs.** `IInv` says of each slot: at most one process; a process is
a child; until `close()` exactly one of child and timer; afterwards no timer, and every
child is awaited. `OneProcess` holds because `child` is cleared only by the exit of its
process; `CloseLeavesNoOrphans` because `close()` forbids forks, clears the timers and
starts to await every child in one step.

**WorkloadRunProofs**, of the runner. `IInv` relates where the run stands to its records, its timer
and its last report: while a stage runs exactly its own timer is set, and nothing
reported is ahead of it. `TypeOK` alone does not bound `attempt`, nor forbid a late
heartbeat. From it follow `ProgressIsMonotone` and, with the records so far all
completed, `RunImplementsStages`; that a run ends (the fairness in `RunSpec`) is TLC's.

**WorkloadRunProofs**, of the workloads. The runner's constants `Plan` and `Endings` are left open there
and given their values in the `.cfg`; the two theorems state these values as their
hypothesis `RunsWorkloads`. The plans are sequences put together from optional parts, so
first each stage's place in its plan is found (`Joined`). `NeedsAreMade` then says that
whatever a stage reads is given by a stage before it, under the same options, and
`StageLeaves` that no attempt, failed or not, takes it away again. `RunInv` keeps along a
run what the completed stages gave (`Gathered`), what passed so far and who has judged.
`RefusalsStand` is the hard one: a refusal whose text matches the transient pattern *is*
retried, and what keeps the retry from passing is that the refusing stage of a production
run took the candidate out of the artifacts; every other failure leaves what the stages
before it gave (`VerdictLeaves`). The attempt to prove this showed that
`WorkloadEndings` once had a `CASE` with overlapping arms, for which TLC takes the first
and a prover may not; it is an `IF` now.

**ReleaseGateProofs.** Two independent invariants. `Vouched`: a completion report that
passes has complete evidence about one PDF; what the gate has compared so far is equal
to that evidence; and as long as nothing is written during the request (`quiet`) the
files still are what was read. `Alone`: while only the local run has written into the
directory, each report it left is about its own PDF; `Traces` ties every later writer
and every upload to the set `writers`, so that "nobody else came" can be concluded from
it.

**KeyRegistryProofs.** `IInv` orders the registries by `Rank`: durable, then every
payload of the chain in turn, then memory, and each waiting call's change is in memory
and in its own payload. `AnswersAlwaysSurvive` follows since `promised` stays below
`durable`, and what is loaded is `durable` or refused; `DiskIsMonotone` since the next
write's payload is above `durable`. `QuietRegistryIsOnDisk` adds `Settled`: as long as
no write failed and no call waits for its directory, the last payload, or the file if
none waits, equals the memory.

**ReadingOrderProofs.** What the sort, the heap, the lines and the merger compute is
given by recursive functions over data of any size, for which no induction rule can be
instantiated here. The proofs use sets instead of predicates: `Recursion` gives a
function that satisfies a well-founded definition, and `Growing` shows a property of all
its values by a least counterexample.

- `ComparatorOrders`: within a column a unit on a higher line has the smaller top,
  because the anchors of lines never cross (`AnchorsAreOrdered`); therefore lines, then
  places in a line, compare lexicographically. It is here that `Epsilon > 0` and
  `LineIsRtl` being one value for a line are needed.
- `OrderIsLeastExtension`: `HoleRises` and `HoleFalls` say what the array is while the
  hole of `push` or `pop` moves, `PushedIsHeap` and `PoppedIsHeap` that it is a heap of
  one node more or less after. `PlacedOK` is the invariant of the topological sort: the
  heap holds exactly the nodes that wait for nothing and are not placed, `waiting` counts
  what each still waits for, and when a node was placed every node of a smaller rank that
  was left did wait. At the end (`Finished`) a full order is the least extension, and in
  another one the nodes that are left all wait for each other.
- `PageIsObeyed`: what a page yields is a document (`MergedIsADocument`), and each of its
  relations is in it or has become one node with both ends (`Rebinds`); the fallback is
  taken only without relations.
- `ColumnsAreOrderable`: on a page with text in both columns the relations of the merged
  page have no cycle (`NoCycle`). Every relation has been read as "above a span", "below
  a span", "follows its heading" or "continues a line" (`RelationsAreRead`); the lines of
  one node are in one band between spans (`LinesOfANode`), so a cycle would have a node
  in the topmost band it touches; that one comes after another node over a span, and
  each span it comes after has one further up (`SpansOverGrow`), which finitely many
  spans forbid. `ColumnInv` ties the document to the page it was merged from.
- `OutlineIsNested`: the open headings are an increasing sequence and every heading that
  was read is covered by an open one of no lower rank (`StackOK`), so the nearest higher
  heading is where the stack is cut. It does not depend on the order.

**TagTreeProofs.** A refusal ends the run, so the invariants are about steps that go on.
What such a step adds hangs from a tag that is there already: one to three tags, each in
the one before, the last for the node that was read (`Hangs`, shown of each branch of
the loop). Three invariants build on each other:

- `TagInv`: a tag's parent is before it, nodes are tagged in the order of the text and
  each but an artifact is (`TagsOK`); the stacks of the loop point at tags of their kind
  (`PointersOK`); names of tables differ and belong to their group or to none
  (`TablesOK`); and the rows the open table remembers are the rows it has (`RowsOK`).
  `NamesAreKept` follows. It needs that `FreshName` finds a number that is not taken,
  which the pigeonhole principle gives, as it looks at more numbers than there are names.
- `HeadInv`: every section tag was opened by the heading below it, in the section of the
  nearest heading before it that has a lesser rank, and the open sections are those of
  such headings. Ranks only need to rise with levels (`RanksRise`), which `Inferred` sees
  to whenever a level is met that lies between others. The walk up the sections and the
  walk up the outline then are the same kind of recursion (`Enclosing`), whose values are
  all headings nobody of lower rank hides (`Around`, `NestedIn`); with the outline as
  `OutlineIsNested` has it, `SectionsFollowTheOutline` compares the two.
- `ReadInv`: the tags, but for the later parts of paragraphs, are in preorder; a part
  lies in the paragraph it continues; and whatever the loop may still add to (the open
  sections, the lists and their last items, the table and its last row, the diagram) is
  *open*, that is, all that was tagged after it is inside it. It is here that `ByRows`
  and `ContinuedAtOnce` are used, and that a label, a heading, a table and a paragraph
  must close what they interrupt. The walk exists as a function (`WalkExists`); on such
  a tree it rises in the reading order (`WalkRises`) and leaves no tag out
  (`WalkReadsAll`); and only one sequence lists a set in its order (`ListedOnce`). So
  `TagsFollowTheReading`: it *is* the sorted reading.

The attempt to prove the last one showed what the assumptions on a text have to be: the
first versions allowed an item to be continued after the next had begun.

**TableGridProofs.** `TablesTile` shows `TablesAreTiled` of every text and every table. Its
invariant `TablesInv` says of each pass what it leaves to the next:

- while tags are made, a `TR` and nothing else is put into a `Table`, and a `TD` and
  nothing else into a `TR` (`FillsIn`), so the pass that reads a table misses none of it;
- what was read, and whatever fragments were joined, is `Gathered`: no node is in two
  cells, and each that was tagged `TD` is in a cell of its row that declares its column.
  Giving rows to sections moves no cell (`SamePlaces`);
- a table after the grid is `Gridded`: it `Tiles` a rectangle and is `Settled` (nothing of
  what was gathered got lost, and no declared column was changed), or it was left for a
  review and two declared cells do `Clash` or a span crosses a gap between rows;
- a finished one that has a head has a body (`Headed`).

The step from the second to the third is most of the proof. `Laid` is what a grid under
way keeps: the taken places are those of the cells that have their column, and no place
is taken twice. `Reserved` lays the cells with a declared column and reports one that
cannot be laid (`ReservedTo`, `ConflictIs`); `PlanGrid` then gives the others the first
free place from the cursor of their row, and there is one, at the latest to the right of
all that is taken (`FirstFree`). Both are folds, and are followed by induction over the
beginnings of the sequence they run along (`ReservedIs`, `PlanIs`). In a grid that is
`Planned` every cell has its column; `Completed` adds one filler for each place that is
not taken (`RowIsFilled`, `TableIsComplete`), so that each cell of the new table came from
a cell or from a gap (`OriginsAre`), which gives `CompleteTiles` and `CompleteSettles`.

For this proof two definitions of `TableGrid` were put differently, with the same
meaning: `CellOf` and the columns of `Reserved` are written as a record and a function
and no longer with `@@`, which the provers do not expand.

## 6. What is only model-checked

- Liveness under fairness (`EveryJobEnds`, `SlotsComeBack`, `CloseFinishes`, the end of
  `RunSpec`) and the violated properties: outside the prover's reach.
- That the model has no deadlock.

Abstracted everywhere: messages and labels, timestamps other than lease and staleness,
the content of PDFs and reports beyond what they are about, the authentication of
requests, malformed requests. A restart of the primary itself loses its in-memory jobs by design and is
not modelled.

## 7. Plan

1. Done: queue, fleet, supervisor; workload runner and plans; release gate; managed
   keys; reading order of a page, its tags and their tables; theorems for every safety
   and action property that the passing runs check.
2. Possible extensions: captions and footnotes in `PageOrder`; header attributes,
   demotion and captions after `TableGrid`; the join of `AgentFleet` and `ReleaseGate`
   over several jobs; batches as a client of the queue.
