# Formal models of personal-job-agent

TLA+ modules, TLC configurations and TLAPS proofs kept beside the code. They cover the
parts of the system whose state outlives a request: the **Agent Runs** (a workflow of
Steps executed by queue workers), **`POST /api/analyze`** (its ledger, its deadline, its
steps, and how a model's answer becomes a result), the **owner's records**, the
**telemetry, knowledge and backups** beside them, **sessions** and **AI budget**, the
**store of the Java service**, and the **gate of a release**. Paths below are relative to
the repository root.

## 1. The system

A FastAPI monolith (`backend/`) over PostgreSQL, Dramatiq workers behind Redis, a React
frontend and a Java service that normalizes and stores job descriptions. Each HTTP request
and each worker transaction is one database session under READ COMMITTED; components meet
in the database, on the disk, and in one queue of messages that carry identifiers only.

| Part | State | Operations | What is hard |
|---|---|---|---|
| Agent Run state machine `agent_runs/state_machine.py` | two transition tables | `require_run_transition`, `require_step_transition` | an illegal transition aborts the transaction that tried it |
| Agent Run service `agent_runs/service.py` | `agent_runs`, `agent_steps`, `approval_requests` | create, cancel, retry, resume, decide, claim, complete, fail | owner, workers and recovery write the same rows |
| Workflow execution `agent_runs/workflow.py` | a claimed token between transactions | `execute_delivery`, `_execute_step` | three transactions with gaps between them |
| Outbox and dispatcher `agent_runs/outbox.py` | `agent_outbox_events` | publish, fail, back off, recover | send and commit are not atomic |
| Workers `agent_runs/{worker,tasks}.py` | leases | deliver, `recover_expired_steps` | crashes, repeated and lost messages, slow executions |
| AI budget (in `service.py`) | `user_ai_budgets`, `ai_usage_ledger` | `ensure_budget`, `record_usage` | check before, book after, midnight between |
| Analyze ledger `app/analyze/idempotency.py` | `analyze_idempotency_records`, History | claim, bind, start, finalize, fail, clean up | a provider call cannot be rolled back |
| Analyze handler `legacy_application.py`, `agent_workflow.py`, `provider_deadline.py` | local variables of a request, an absolute deadline | some twenty steps, primary call, retry, repair, fallback | each failure is settled at another place; boundary values |
| Output contract and refinement `analysis_contract.py`, `app/analyze/result_refinement.py`, `analysis_fallback.py`, `recommendation_engine.py` | an answer on its way to a result | parse, salvage, reconcile, ground, score, narrate | nine stages, each may repair, cut or drop |
| Normalization client, shadow `app/analyze/normalization*.py` | none of their own | call, check, choose, compare | the Java service fails or disagrees |
| Project Knowledge `project_knowledge_runtime.py`, `database.py` | a file, a document, its chunks | upload, rebuild, search | statements of one transaction see different rows |
| History, monitoring, evaluation `database.py`, `monitoring_service.py`, `evaluation_service.py`, `data_management_service.py` | records, metrics, runs, results without foreign keys | record, finish, delete by filter | several transactions, deletions in between |
| Jobs and import `app/jobs` | Jobs, Sources, Requirements, candidates | create, merge, archive, CSV import | duplicates, unique indexes, a savepoint per row |
| Applications `app/applications` | stage, history, Notes, Tasks | transition, reopen, archive, restore | two open pages |
| Resumes and storage `app/resumes`, `app/storage` | Resumes, Versions, files | upload, import, primary, delete | files against rows, crashes |
| Profile and facts `app/profile` | profile, items, snapshots | change, restore, confirm an import | snapshots against what is current, half an import |
| Matching `app/matching` | Analyses | analyze, reuse, rank | what nobody confirmed must not count |
| Materials `app/materials` | Packages, Materials, Versions, links | generate, edit, validate, review, finalize, approve | decisions on what another request changes |
| Authentication `app/auth` | sessions, a failure counter | login, touch, logout, change the password | requests that overlap a logout, shared counters |
| Backup and restore `scripts/v2_backup_restore.py` | an archive, a manifest, a target | back up, verify, restore | no transaction spans database and files |
| Java create and update `services/jd-normalization-service` | ledger, Job Descriptions, versions | create once, replace under an ETag | races for a key, a posting or a version |
| Release gate `ops/release_gate` | a file of evidence | probe, request, observe, judge | what was not observed must not count |
| SSE, dashboard, feature retirement, readiness, migration, frontend, deployment, Java reads, normalization and web | none that others rely on | reads, filters, tools | - |

What makes each correct:

* *Agent Runs*: Steps happen in order; nothing behind an approval happens without it; Run
  and Steps never disagree; work that waits can always be delivered; a Step is
  claimed beyond its limit, or executed again, only where a fault, a restart or an approval
  explains it; every Run comes to rest.
* *AI budget*: a limit is passed only by what was already let through.
* *Analyze*: one attempt pays for a request; what may be retried was not paid for; every
  answer for a key is the one stored result; the request is answered in time; the client,
  the ledger and, where it was written, the audit trail are told the same; a result that
  calls itself complete hides nothing but what its lists have no room for.
* *Owner's records*: no number, place or Application is given twice; what was approved had
  its basis; histories are paths; rows have their files, but those a
  refused import left; a restored revision is the one
  it names; Analyses rest on confirmed facts.
* *Knowledge, telemetry, backups*: nothing is half: no index, no metric, no run, no backup
  and no restore; a restore destroys nothing it did not create.
* *Sessions*: what was signed out stays out; every refused password counts.
* *Release gate*: a release is allowed for five requests that were sound and all observed,
  but for two gaps of the evaluator (section 4).
* *Java store*: one Job Description per row of the ledger and per posting; no replacement
  overwrites a version its author never read.

`PROJECT.json` lists every part with its status under `components`, and under `hazards`
what is hard to test, at its line, with the properties that would catch it.

## 2. Modules

| Module | Models |
|---|---|
| `AgentStates` | the two transition tables |
| `AgentRuns` | one Run: Steps, approvals, Outbox, queue, workers, dispatcher, recovery, owner |
| `RunContract` | what a Run promises its owner, without any of the machinery |
| `AiBudget` | what the Steps of several Runs may spend on a day |
| `AnalyzeIdempotency` | all requests of one user with one `Idempotency-Key` |
| `AnalyzeAttempt` | one request from its arrival to its answer, with its clock |
| `OutputContract` | what is taken from the JSON of a model |
| `AnalyzeResult` | from that content, or the local fallback, to the result |
| `Materials`, `JobLibrary`, `ApplicationTracking`, `ResumeFiles`, `CareerProfile`, `Matching` | the owner's records, one module each |
| `KnowledgeIndex`, `Telemetry`, `BackupRestore`, `Sessions` | the parts of these names |
| `JobDescriptions` | the store of the Java service |
| `ReleaseGate` | the collector of a release's evidence, and its evaluator |
| `MCAgentRuns`, `MCAnalyzeIdempotency`, `MCAnalyzeResult`, `MCProgress`, `MCOwnerRecords`, `MCOperations` | instances for TLC; the last three put several components side by side |
| `AgentRunsProofs` | theorems about Agent Runs |
| `AnalyzeIdempotencyProofs`, `AnalyzeAttemptProofs` | theorems about the analyze ledger and its handler |
| `MaterialsProofs`, `OwnerRecordsProofs`, `RecordTypesProofs` | theorems about the owner's records |
| `OperationsProofs` | theorems about sessions, AI budget, Job Descriptions, and answers on their way to a result |
| `StoredDataProofs` | theorems about telemetry, knowledge, backups and the release gate |

How they are connected: `AgentRuns` implements `RunContract` and takes its tables from
`AgentStates`; `AnalyzeAttempt` implements `AnalyzeIdempotency` for the one request it
follows (`ImplementsLedger`), which is where several requests meet; `AnalyzeResult`
extends `OutputContract`; `Materials` has the effect that a decision of an Agent Run's
approval has on its rows; `JobLibrary` has the rules that span Jobs and Applications, and
`ApplicationTracking` what happens to one Application.

The modules share a way of modelling transactions. A request that locks what it changes
before it reads it is one action. One that reads without a lock, or works in several
statements, has a read step, which keeps what it saw in a record of the request, and a
commit step, which uses it; where only a unique index forbids a row, the commit fails and
is rolled back. The ORM writes the columns that differ from what was loaded, at the commit
(`autoflush` is off), and so do the models. The middleware commits every answer below 500;
a refused request therefore keeps what it had changed, wherever the code has changed
something by then.

### AgentRuns

*State.* `run`, `steps`, `approvals`, `outbox` and `deadLetters` are the rows of the
tables, `queue` what Redis may still deliver, `workers` what a worker remembers between
its transactions (Step and token), `versions` a count of committed Material Versions,
`faults` a bound.

*Actions.* One per transaction: `Claim` and its other outcomes (`DeliveryCancels`,
`DeliveryRequeuesDeadRun`, `DeliveryIgnored`) are `claim_step`; `CompleteStep`,
`CompleteRequestStep`, `CompletionCancels`, `CompletionRefused`,
`RequestHighCostApproval` are the second transaction of `execute_delivery`, which holds
the locks of the Run and the Step from its first read; `ExecutionRaises` its rollback,
and `FailStep...`, `FailureDropped` the third. `Cancel`, `RestartFailed`, `Resume...`,
`Approve...`, `DecisionFails` are the owner's requests, `MarkPublishing` ...
`RecoverOrphan` the dispatcher's, `RecoverExpired` and `RecoveryCancels` the worker's
maintenance loop.

*Abstractions.* Times are flags: a lease is live or expired, a retry delay lies ahead or
not, an event is available or not. An approval may be decided in time or too late
whenever it is pending. The revision a request of the owner carries is not represented: an
outdated one changes nothing. The workflow is a constant; the code's
has twenty Steps of the four kinds that the models mix. `PublicRestart` says whether retry and resume
are served: this version retires them with 410, but the service and its tests keep them.

### RunContract

N pieces of work in order, gates that only the owner opens, and the ends a Run can come
to. `AgentRuns` implements it (`ImplementsContract`) with `done` the completed prefix of
the Steps and `phase` the class of the Run's status. It contains one oddity of the code,
`Straggle`: work under way when a publication failure moved the Run to dead letter is
still recorded.

### AiBudget

*State.* `budget` is the row of each day in `user_ai_budgets`, `ledger` the booked calls,
`total` what the Runs carry, `work` the Steps between their check and the end of their
transaction, `today` the date. A Step holds its Run and the day's row locked through the
call; a failed call is undone with its transaction and booked by another one, on the day
that is then. Tokens stand for tokens and cost, which are limited and booked alike; the
approval of a high cost is in `AgentRuns`.

### AnalyzeIdempotency

*State.* `record` is the row of the key, `request` the local state of each handler
(where it is, which row it claimed, the binding it computed, the row its clean-up chose,
what it answered), `calls` and `history` what cannot be undone: provider calls and
History rows. `print` is the fingerprint of each request.

*Actions.* `Cleanup...`, `Insert...`, `Replay`, `OutcomeUnknown`, `ClaimRefused` and
`TakeOver` are `claim`; `Bind`, `StartProvider`, `Finalize` and `FailUnfinalized` the other
transactions; `CallProvider` a primary call, its retry or a repair; `ResultReady` the
choice of a result or of the deterministic fallback, which may come before any call when
the client is gone; `Die` a process that ends, which it may do wherever it holds something,
`LeaseExpires` and `RetentionExpires` time. The clean-up's SELECT and DELETE are two actions
because READ COMMITTED lets other transactions commit between them; its locked part is one.

*Abstractions.* Requests for other keys only clean up, and a request that dies after its
clean-up does the same. Row ids are numbers drawn in order. A fingerprint, a normalization
and a response are members of small sets: which request produced a result is the
response.

### AnalyzeAttempt

*State.* `req` is what was asked for (a key, a History row, retrieval, a real or mock
provider), `pc` where the handler is, `steps` the workflow steps of the audit trail, `row`
the ledger row, `calls` the provider calls made, and the clock: `now`, the start of the
`phase`, what the handler worked since, and when a back-off ends.

*Actions.* One per step of `analyze()` and per way it can end: done, failed, blocked,
skipped, replaced by a fallback, an error of the ledger, the client gone, the process
gone. The provider phase has its primary call, its retry after a back-off and its repair;
`call_timeout` decides with the remaining time, less the reserve of the fallback - which
it keeps twice, once in the phase's deadline and once in the budget of the call - and the
own reserve of retry or repair. `AnswerError` is the middleware around the handler.

*Abstractions.* The row of the audit trail is written best-effort
(`persist_analysis_metrics_best_effort` swallows every exception), so every answer may be
without one (`Observes`); what becomes of a row that is written is in `Telemetry`. Time is
counted in units. `LocalWork + Overrun <= Reserve`, which the code
states as the purpose of the reserve (`provider_deadline.py:21-23`), is an assumption: the code
does not enforce how long its own work takes. The outcomes of the Java call, and what the
shadow may record of them, are choices.

### OutputContract and AnalyzeResult

*State.* `ask` is the request (the skills the job asks for, and where each is stated), `stage`
the step that is next, `content` what was salvaged of the answer or made up locally, `draft`
the result so far, `status` and `warnings` what the result says of itself.

*Abstractions.* A text is a token with a length in units of twenty characters, so that the
limits are those of the code. The lists of matched and of missing skills have a limit of
their own, `MaxListed`, where `keyword_skill_states` (`analysis_fallback.py:124-128`) cuts both
to their first twelve; `Rank` is the order of its table of skills. A salvaged list loses its duplicates and is a set. One or
two aliases of a field stand for all, those that two fields share among them. Counts of
rejected items and other metadata are left out; the backend's own sentences are taken to
be supported. The choice of the next action is modelled as the decision table it is.

### The owner's records

`Materials`: a Version is validated claim by claim, reviewed and finalized; the content of a
Version is one claim and how it is supported. `JobLibrary`: Jobs, Sources, Requirements,
candidates, Applications and Tasks, with merge and an import of two steps a row; texts are
near or not. `ApplicationTracking`: `page` is what each user was shown; every request
carries it. `ResumeFiles`: `upload` walks through the write of the file, which may fail or be
cut at any step, and the rows that follow it; a Job import whose text has no UTF-8
  (`Unencodable`) is refused, its file removed and its row committed. `CareerProfile`: `shown` is each page's
revision, `getting` a GET that writes the completeness it computed without a lock.
`Matching`: scores in hundredths; contributions are cut off as `int()` does; terms are
compared by a relation that stands for `term_relation`. Profiles have no preference facts.
A list whose order only decides between equal facts is a set of indices (`Best` takes the
first of the best), and a ranking is the set of its rows, each with the place it was given.

### KnowledgeIndex, Telemetry, BackupRestore, Sessions

`KnowledgeIndex`: an upload runs on the event loop, so there is one at a time; a rebuild and
a search run on threads, statement by statement. `Telemetry`: the recording of an analysis
and of an evaluation, each of several transactions, and deletions whose statements each see
what was committed before them; `overlapped` remembers what a deletion overlapped.
`BackupRestore`: the application writes rows and files between the steps of a backup; the
restore checks its target, restores, compares and copies, and cleans up after a failure.
Another client of the target may create an object of a kind the inventory reads, or of one
it does not (`Unlisted`: views and foreign tables, composite types, objects of another schema);
`InventoryMatches` compares what was read. One
file stands for each upload; damage to parts other than the dump does not happen while a
restore relies on them, and other clients of a target stop when its rows are compared.
`Sessions`: one user; a request reads its session without a lock, compares a password
without one, and writes at its commit. `refused`, `ended` and the fields `late` and `knew`
are history. CSRF tokens and audit rows are left out.

### JobDescriptions

*State.* `described` are the Job Descriptions with their versions, `keyRow` the ledger rows by
key, `sender` the create each client waits for, `claims` numbers drawn. `told` (who was
answered what from which row), `by` (the row a Job Description was created for) and `read` (the
version an author gave in `If-Match`) are history.

*Actions.* `Claim`, `KeyConflict`, `ClaimRefused`, `Replay` and `TakeOver` are the claim, a
transaction of two statements; `Finalize...`, `Classify...` and `OwnershipLost` the second
one, whose row lock is `Locked` between its statements; `Cleanup` the third; `Replace` the
conditional update, one transaction that locks its row first. `LeaseExpires` and
`RetentionExpires` are time. A posting is its canonical URL and its text.

### ReleaseGate

*State.* `probes` and `runs` are the evidence collected so far, `file` what the output file
holds, `stage` where the collector is, `exit` its exit status. A request is the set of
its *defects*: what is wrong with its answer, or with what can be observed of it. The
collector sees their traces (a status, a line of a log, a record), never the defects, which
the evidence carries for the property alone.

*Actions.* `ProbeDirect`, `SetUp`, `Collect` and `Judge` are the parts of `collect` that end in a
write of the file; `Raise` is an exception anywhere, which adds its code to whatever the file
holds, `Killed` the end of the process. `Verdict` is `evaluate`, applied at the end or later.

*Abstractions.* The operator's file of hard gates is true in all or not. A log line is
there, is missing, repeated, or tells another status. Latencies, sizes and runtime snapshots
decide nothing.

## 3. Runs

`tlc -config <cfg> <module>`; a passing run takes three minutes at most with two workers.

| Run | Instance | Question |
|---|---|---|
| `approvals` | 4 Steps: high-cost model Step, request, wait, last; restarts; no fault | order, gates, decisions, contract |
| `recovery` | 2 Steps, 2 workers, 2 attempts, one fault; resume served, a failed Run not restarted | fencing, lost work, dead letters, bounded repetition, claims beyond the limit |
| `artifacts` | as `recovery`, no restart routes | *violation*: a Material Version is committed twice |
| `expired` | 1 high-cost Step, restarts | *violation*: a Run with an expired approval is restarted |
| `analyze` | 3 requests, 2 fingerprints, 2 normalizations | everything about the ledger |
| `cleanup` | 3 requests, 1 fingerprint, 1 normalization | *violation*: a live row is deleted |
| `progress` | one request through the handler, or one Run of one Step with one fault; fair | deadlines, that client, ledger and what there is of the audit trail agree, the ledger's refinement; every request is answered, every Run settles |
| `records` | the owner's records, two clients, one part at a time | basis of approvals, uniqueness, histories, files, snapshots, grounded Analyses |
| `unreviewed` | 1 client, 1 Package, 2 Materials | *violation*: a Version nobody reviewed is finalized |
| `operations` | an answer, the telemetry, the knowledge, backups, sessions, spending, Job Descriptions, a release gate, one part at a time | nothing is hidden, half, doubled or back again; a release is earned |
| `torn` | as `operations` | *violation*: archive and manifest disagree about a sequence |
| `fileless` | `ResumeFiles`: 2 clients, 2 files, 3 requests | *violation*: the row of a refused Job import is committed without its file |

*Several parts in one run.* `records`, `operations` and `progress` hold components that change no
row in common. Their initial states pick one part, the others stay as they began, and every
invariant is stated for its own part: side by side, the parts could only multiply each
other's states. Of the telemetry a behaviour has the analyses or the evaluations; of the
sessions those of right passwords from one address (what is signed out), or the lockouts, where
no session is used after the login.

*Bounds of the Agent Runs and the ledger.* The interesting cases need few participants. A stale
worker needs one fault and a second worker; a repeated delivery needs one fault and two
attempts; a gate needs a Step in front of it, itself, its `wait_*` Step and a Step behind; a
takeover needs two requests, a takeover that meets a slow attempt and a clean-up three.
`MaxFaults`, `MaxRestarts`, `MaxAttempts` and `PublishLimit` are the only bounds of
`AgentRuns`; `AnalyzeIdempotency` needs none beyond its requests, each of which claims once (a
client that retries is a further request). Workers and requests are symmetric in the safety
runs; `progress` uses no symmetry.

*Bounds of `progress`.* The code's 175 s (safety deadline), 130 s (phase), 30 s (reserve),
0.25 s (retry), 5 s (repair), 1 s (least budget) and 0.2 s (overrun) become 7, 4, 2, 0, 1, 1 and
1 units, with a call limit of 2, a back-off of 1 and a `Horizon` of 8: every comparison of the
deadline is reached with equality and from both sides, and there is time for a call, a retry
and a repair in some orders only. The Run has one Step and one worker; its `TypeOK` is
checked by `approvals`.

*Bounds of `records`.* `MCOwnerRecords` has its bounds and contents as CONSTANTS, so that the
theorems hold for all of them; the cfg gives them these values. Two clients, because every
race here is one of two transactions. Materials: one Package and one Material with three Versions, revision 2, four requests.
Library: three postings of which two share their text and two their URL, three Jobs, two
Applications, files of two rows (one duplicated, one with an invalid row), three requests.
Tracking: two pages, revision 5. Resumes: three, with two Versions and files, two
contents of which one cannot be encoded, five requests. Profile: three items, revision 4, two imports of which one has an
invalid row in its middle. Matching: two Jobs, two Requirements (one hard filter with five
years), two snapshots, two Analyses.

*Bounds of `operations`.* `MCOperations` has the sets and bounds of its parts as CONSTANTS too, the
requests and answers of `MCAnalyzeResult` among them; the cfg gives them these values. Answers: some 1,700 shapes over a plain request, and a few answers over
every other request, with at most one reference per skill; six skills over lists of four
(`MaxListed`) instead of the code's fifty over twelve, so that both lists are cut. Telemetry: one analysis, or one
evaluation of two cases, and two administrators. Knowledge: two threads and two contents,
of one and two chunks. Backups: one upload, one backup and two restores into five targets under
three policies. Sessions: two overlapping requests, two addresses, two refused passwords to a
lockout, two sessions, one change of the password; a lockout and an idle session last 1,
an absolute end is at 2 (3 when remembered), the clock runs to 2. Spending: three Steps of two
Runs, a projection of 2, calls that use 0 or 3, limits of 2, 4 and 4, two attempts, two days.
Job Descriptions: two clients, two keys, three versions (a replacement under the ETag of one that was replaced
needs the third), three postings - two of one page, one
too long to be answered -, and three creates, the third only where all use one key. Release
gate: two defects in a collection; all kinds on the candidate's path, a proxied socket on
the direct one.

A model may stop where the system may: a Run that is settled, a key that nobody uses again, a
bound that is used up; so deadlock is not checked.

*Fairness* (`progress` only). Of the Run: worker threads finish what they hold, the
maintenance loop recovers expired leases at every heartbeat, the dispatcher loop serves every
event, Redis delivers what it holds to a free worker, delays pass, a lease whose worker is
gone expires. Nothing is assumed of the owner, and no fault has to happen. Each is a loop of
the code (`worker.py` `_maintenance`, `outbox.py` `run_dispatcher`, Dramatiq's consumers)
or time, and weak fairness of each Step, message and worker is enough. Of the request: the
handler takes its next step and time passes. Nothing is assumed of the provider: it may
answer, fail, or keep a call alive until the transport is cut.

*Mutants.* Each property of each passing run has a variant of a definition, marked `Mutant`
above it, that breaks it the way a plausible change of the code would: a check that is dropped, an
attempt that is not counted, a key that forgets a component.

## 4. What the violations show

* `artifacts`: the lease of a worker expires, and is recovered, between its claim and its
  execution transaction. The execution does its work before `complete_step` looks at the
  token and commits whatever the answer; the re-delivered attempt does it again. The
  model bounds the damage: one Version more per fault (`ArtifactsBoundedByFaults`).
* `expired`: an approval decided after `expires_at` fails the Run without the mark that a
  rejection leaves, so the guard of retry and resume does not see it.
* `cleanup`: the clean-up deletes by id what an earlier, unlocked statement selected; a row
  that was taken over in between is deleted while its attempt runs.
* `unreviewed`: a review names a Version and sets the status of the Material; finalize asks
  for that status and for the active Version. After an approval of an older Version, the
  active one is finalized though nobody reviewed it. What does hold is `ApprovalHasBasis`.
* `torn`: a sequence belongs to no snapshot; a key drawn between the inventory and `pg_dump`
  puts different values into manifest and archive. The comparison that ends a restore then
  refuses the backup. Rows and files are not affected (`BackupsAreWhole`).
* `fileless`: a Job import flushes the row of its file before it creates the Job. A text
  that cannot be encoded raises a `ValueError` then (`description_hash`): the import removes the
  file, the router answers 400, and the middleware commits the row, although
  `docs/V2_JOB_IMPORT_SECURITY.md:19` promises a rollback. What does hold is `RowsHaveFiles`: no
  other row is without its file, and no imported Version has such a row for its source.

Smaller observations of the modelling, which no run states:

* `docs/DEEPSEEK_PROVIDER_ACCEPTANCE.md:96` counts a blocked output among what the fallback
  covers; the code answers 502 `OUTPUT_SECURITY_BLOCKED`.
* The refinement builds `resume_suggestions` from the recommendations alone, so the
  improvements the model was asked for reach no field of a result that says `complete`.
  Summary and recommendations do survive (`AnswerHidesNothing`).
* `keyword_skill_states` cuts the matched and the missing skills to twelve each. The
  thirteenth of a list is in no list of the result and no part of its score, and neither
  status nor warnings say so: `AnswerHidesNothing` speaks of the skills that are `Considered`.
* The row of the audit trail of an analysis is written best-effort: an answered request may
  have none. `AnswerIsRecorded` says that there is at most one, and that it tells what the
  client and the ledger are told.
* `docs/V2_0_3_DATA_MODEL.md:17` says that ordinary History notes stay compatible with the
  analysis status kept in the same column; a PATCH of a note replaces that status, and the
  record then reads as complete (`database.py:751`).
  `docs/MONITORING_DATA_MANAGEMENT.md:32` describes `BEGIN IMMEDIATE`, which becomes `BEGIN`
  on PostgreSQL; a deletion that overlaps a recording leaves steps without their metric.
* Materials: a validation that reads "invalid" and finds "invalid" again writes no status,
  so a confirmation committed between keeps its status without its links.
* Jobs: a merge moves the active Application and the Tasks, not archived Applications; rows
  inserted meanwhile stay with the merged Job. A reused Analysis may be one of earlier
  Requirements, which its fingerprint omits (`matching/service.py:80-86`).
* Matching: too few years are "related" and end as a warning; the years branch of a failed
  hard filter is never reached.
* Resumes: files without a row remain after a crash; archive and import lock in different
  orders. Profile: the first revision has no snapshot to go back to.
* Backup: `docs/V2_BACKUP_AND_RESTORE.md:48` speaks of a complete inventory, but
  `_database_inventory` looks for tables, sequences, indexes, functions and the types of four
  kinds in `public` only: a view, a foreign table, a composite type or another schema that
  somebody creates while a restore runs passes its comparison (`RestoredWhole` names them).
  A file that vanishes between listing and archiving fails the backup; a restore
  that fails after `pg_restore` leaves the database restored, and a retry is refused because
  the target is not empty.
* Knowledge: a rebuild that read the file before an upload may commit after it; the older
  index is then reported as indexed.
* Sessions: a login that verified the old password may commit its session after the
  change; two overlapping changes leave two sessions; an older touch committed later ends a
  session early. The property excepts exactly what overlapped.
* AI budget: a Step waits, with the Run and the day's row locked, for the provider; a call
  whose worker died is never booked; two first Steps of a day make one Run fail.
* Release gate: a collector killed after its fifth run and before it marks repeated errors of
  the logs leaves a file that a later evaluation passes; one that raises before its first
  write adds `collection_failure` to the file of an earlier collection, and the
  evaluator, which does not look at that field, still passes it. In both cases the exit
  status of the collector is not 0. The candidate collector counts and deletes
  `analysis_metrics` by `owner_user_id` (`collector.py:832`), which `record_analysis_metric`
  never writes: its `zero_synthetic_rows` does not see them.
* Output contract: answers in the older form hide an invalid list of the active form;
  a match reason is cut to 320 characters under `complete`; 85.5 is reported as clamped; a
  field given under two of its names keeps `complete` beside a warning of the second
  (`GivenTwice`, which the proof of `AnswerHidesNothing` needed).
* Java: a create whose duplicate is replaced before it is looked for fails with 500 and
  leaves its row processing until its lease ends; a claim whose row is deleted between
  its statements fails with 500.

## 5. Proofs

`tlapm <module>` checks them, for every value of the constants that the named
assumptions allow. TLC evaluates each assumption in a run.

| Assumption | Says |
|---|---|
| `WorkflowAssumption`, `LimitAssumption` (`AgentRuns`) | the shape of a workflow, natural limits |
| `RequestAssumption` (`AnalyzeIdempotency`) | a fresh "no request" value, some fingerprint |
| `TimeAssumption` (`AnalyzeAttempt`) | times are natural; local work and the overrun of a call fit into the reserve, as 30 s are meant to |
| `MaterialsAssumption` (`Materials`) | natural bounds; no Package requires an application answer |
| `TargetsAssumption`, `ChunksAssumption`, `SuiteAssumption` (`MCOperations`) | targets of a restore are what an inventory can show; a text has at least one chunk; an evaluation suite is finite |
| `AccessAssumption`, `BudgetAssumption` (`MCOperations`) | finitely many overlapping requests, natural times and limits, a lockout that needs a failure and lasts; a call uses one of finitely many numbers of tokens |
| `DescriptionsAssumption`, `MissingAssumption` (`MCOperations`) | "no row" is no row, "no status" no status |
| `AskedAssumption`, `RepliesAssumption` (`MCOperations`) | a job asks for finitely many skills, "no skill" not among them; texts of an answer have a length, its lists are sequences |
| `RecordsAssumption` (`MCOwnerRecords`) | natural bounds; a library begins with active Jobs of different keys, as its unique index has them; files and imports hold Jobs and items |
| `MatchingAssumption` (`MCOwnerRecords`) | weights total 100, as `matching/schemas.py:34-42` demands; finitely many Jobs are matched; years are none or counted; a term is related to a fact in one of four ways |
| `EncodingAssumption` (`MCOwnerRecords`) | a text without UTF-8 is refused as the content of a Resume Version, as pydantic refuses it |
| `OperationBoundsAssumption` (`MCOperations`) | natural bounds; a Job Description may have a version |
| `BoundsAssumption` (`MCOwnerRecords`) | natural bounds; a stored library fits in them; an import can make a Version and a profile a revision |

| Theorem | States |
|---|---|
| `AgentRunsProofs`: `TypeCorrect`, `OrderKept`, `GateKept`, `PendingDecidable` | `TypeOK`, `PrefixOrder`, `ApprovalGate`, `PendingIsDecidable` |
| `AgentRunsProofs`: `RunAgreesWithSteps`, `DeliveriesAreFenced` | `RunMatchesSteps`, `FencedDeliveries` |
| `AgentRunsProofs`: `WorkStaysDeliverable`, `DeadLetterHasReason`, `RunImplementsContract` | `WorkIsNeverLost`, `DeadLetterExplained`, `ImplementsContract` |
| `AgentRunsProofs`: `ArtifactsArePaidFor`, `ClaimsArePaidFor` | `ArtifactsBoundedByFaults`, `AttemptsArePaidFor` |
| `AnalyzeIdempotencyProofs`: six theorems | all properties of the `analyze` run |
| `AnalyzeAttemptProofs`: `AttemptTypeCorrect`, `RequestKeepsDeadline`, `AnswersAreRecorded`, `HandlerImplementsLedger` | `TypeOK`, `DeadlineKept`, `AnswerIsRecorded`, `ImplementsLedger` |
| `MaterialsProofs`: `MaterialsTypeCorrect`, `ActiveVersionIsLatest`, `ApprovalsHaveBasis` | `TypeOK`, `ActiveIsLatest`, `ApprovalHasBasis` |
| `OwnerRecordsProofs`: `ApplicationHistoryIsAPath`, `SnapshotsAreTheRevisions`, `RowsAlwaysHaveFiles`, `LibraryIsAccounted` | `HistoryIsAPath`, `ProfileHistory`, `RowsHaveFiles`, `LibraryAccounted` |
| `OwnerRecordsProofs`: `AnalysesRestOnFacts` | `AnalysesAreGrounded` |
| `RecordTypesProofs`: `RecordsTypeCorrect` | `RecordsTypeOK` |
| `OperationsProofs`: `SignedOutIsForGood`, `SpendingStaysBounded` | `SignedOutForGood`, `SpendingBounded` |
| `OperationsProofs`: `DescriptionsAreDescribedOnce`, `CompleteAnswersHideNothing` | `DescribedOnce`, `AnswerHidesNothing` |
| `StoredDataProofs`: `TelemetryStaysWhole`, `IndexStaysWhole`, `BackupsStayWhole` | `TelemetryWhole`, `IndexWhole`, `BackupsAreWhole` |
| `StoredDataProofs`: `TargetIsKept`, `ReleasesAreEarned` | `TargetKept` (an action property), `ReleaseIsEarned` |
| `StoredDataProofs`: `OperationsTypeCorrect` | `OperationsTypeOK` |

**AgentRunsProofs.** A first group of lemmas shows that the updates of each transaction keep
the rows well-formed. Then every transaction is reduced to one of ten *effects* on Run,
Steps and approvals (`TransactionEffect`), and the invariants are proved once per effect.
`PrefixOrder` needs, besides its own statement, only that the transitions of a Step are
those of the table. `ApprovalGate` is not inductive: that a `wait_*` Step is never queued or
run (`WaitStepsOnlyWait`) and that a completed one was approved (`GatesWereApproved`)
strengthen it to `GateInv`. `PendingIsDecidable` needs that a pending request belongs to a
waiting Step, and order makes that Step unique.

`RunMatchesSteps` is inductive with order, because order leaves
one Step in progress, and with `NoneSkipped`: no transaction uses the table's `skipped`. The
theorems about messages reduce every transaction to one of five further effects, on
attempts, revisions, events and messages (`MessageEffect`: nothing, a delivered start, a
Step enqueued, an event sent again or given up). `FencedDeliveries` follows for each, since an
event is written with the attempt its Step has then. `WorkIsNeverLost` needs that no event is
ahead of its Step (`RevisionsBehind`): else the key of `_enqueue`, which has the revision,
might exist already and the new event be left out. `DeadLetterExplained` needs that a failed
Step of a dead-letter Run is left alone. `ImplementsContract` maps a Run to its number of
completed Steps, so they must be an initial segment (`Progress`); each of the ten effects is
then a step of `RunContract` or invisible to it.

For `ArtifactsBoundedByFaults` the Versions of a Step alone are not inductive. `BillsPaid`
bills a Step for its Versions, for each worker that holds a claim of it and may still commit
one, and for the claim that may come next; the bill never exceeds one plus the faults,
because only a fault lets a Step be claimed while a worker still holds it. It needs that every
claim draws a token of its own (`TokensDiffer`). Every transaction charges a Step nothing, a
fault, the end of a claim, or a claim of a Step that had none (`Charge`).

`AttemptsArePaidFor` counts the claims themselves, which only `fail_step` compares with the
limit. Its strengthening `ClaimsPaid` adds the claim a Step is *due for*: one that waits to be
claimed, or one that runs under a live lease nobody holds, and which recovery will therefore
hand out again. Every transaction rests, pays (a fault, a restart, an approval), makes a claim
due within the limit, or makes the claim that was due (`Toll`).

**AnalyzeIdempotencyProofs.** `OnlyOnePays` and
`RetriesAreUnpaid` follow from `BoundaryInv`: a request has *crossed* for a row when it
has called the provider on its behalf or is about to; at most one request crosses for a
row (`OneBoundary`); and as long as the row exists, it knows: it is settled for good, or it
is processing, started, and carries the token of the one who crossed (`CrossedRow`). The
knowledge of the row is what the two theorems lack: a takeover reads the row, not the
calls. Only three steps need an argument (insert, takeover, start); all others neither
cross nor forget (`NoCrossing`). `ReplaysAgree` and `StoredIsOwned` follow from
`AnswerInv`: the row's owner asked for what the row is about (`Owner`), a completed row
holds its owner's result under the binding both remember (`Stored`), History has one entry
per completed row and none for others (`HistoryOnce`), and whoever was answered got
that entry (`Answered`). `SettledKept` is an action property from the type invariant.

**AnalyzeAttemptProofs.** `AttemptInv` says, for each place the handler can be at, how far the
audit trail is (`Audit`: a prefix of the workflow's steps is settled, at an error exactly one
failed or none), what the clock shows (`Timing`), what was paid for (`Paying`), and what the
row of the key holds (`Booking`). `Timing` is where `TimeAssumption` is needed: a call is
cut, a wait ends, and what comes after has its share of the reserve. For
`ImplementsLedger` the handler is the one request of a ledger, and each of its steps is shown
to be one of the ledger's actions or unseen by it; the error paths, which settle the row in several places, are the
cases that need `Booking`.

**MaterialsProofs.** `ActiveIsLatest` counts; `Latest` says it without counting, and is
inductive with what a transaction has read or inserted (`Seen`): the number of a Version
that is inserted and not committed is at most one above the last, so the unique key admits
it only behind the last. `ApprovalHasBasis` needs that a Material's status `approved` and a
finalized Version come from a review of one of its Versions (`Reviewed`, `Finals`), and that
what an approval listed under the lock of its Package belongs to it (`Seen`, `Held`,
`Locks`). Finalized Versions and reviews never go, so what was read before a commit still
holds at it; that is why the unlocked reads of the code are harmless here.

**OwnerRecordsProofs.** One step of the records is one of a part and leaves the others alone
(`TrackingStandsAlone` and its likes), so each part is proved for itself.

* `HistoryIsAPath`: a page that shows the current revision shows the current stage
  (`Tracked`), because every change of the stage raises the revision.
* `ProfileHistory`: with a profile that no change reached having no snapshot, and a restored
  revision being one that has one (`Profiled`). A request may flush several revisions; one
  lemma covers them all (`RecordKeepsHistory`).
* `RowsHaveFiles`: with who holds a file that no row has yet (`FilesInv`): one transaction,
  which will add a row only once the file is whole. Crashes and failures end the holder. A
  removed file has a row only if its data cannot be encoded (`Backed`), and Versions come from
  rows of encodable data (`Sources`): an upload remembers the data of the row it takes for its
  duplicate, and `ResumeContent` refuses what cannot be encoded (`EncodingAssumption`).
* `LibraryAccounted`: with what is pending (`LibraryInv`). `KeysInv`: an import has inserted
  no key that an active Job or another import has. `CsvLegal`: its counters are the rows it
  has worked on, and `seen = 0` means that nothing it inserted has the text or URL of the row
  at hand. `ApplicationsInv`: an Application without a Job competes with none. `RunsInv`: no
  Source carries the number of a later run. That `update`, `restore` and `merge` do not look
  for duplicates is covered by the index alone (`ChangeKeepsKeys`).
* `AnalysesAreGrounded`: an Analysis never changes, and `score_match` is a function of what is
  kept with it; so it is enough that every stored one was `Made` of its own snapshot, weights
  and Requirements (`MatchingInv`). That a score needs no cutting is arithmetic on sums over
  finite sets, whose bounds are shown by a least counterexample (`LeastPart`, `Terms`). The
  ranks of a run count who comes before; `Precedes` is a strict order, hence they differ.

**RecordTypesProofs.** The guards that cap the tables do not alone keep `RecordsTypeOK`: a
request commits what it read when the tables were smaller. Each part's invariant is
strengthened by what is still in hand.

* Job Library (`LibraryTyped`): what a transaction has read is a Job or an Application of the
  tables (`Within`); an import numbers the Jobs it has inserted from `MaxJobs` on, and its
  pairs and Sources refer to stored Jobs or to these (`Known`), until the commit places them.
* Resumes (`ResumesTyped`): every row of a file has its own file (`FilesInv`), so there are at most
  as many rows as files; the guards of the model bound the files only.
* Profile (`CareerTyped`): what a snapshot holds is `Written`, so what a restore copies back is.
* Matching (`EngineTyped`): the scores of a ranking run are scores, after the run's factors too.
* Tracking and Materials: `TrackedInv` and `MaterialsTypeCorrect` say it already.

TLC has checked each strengthened invariant on the run `records` before it was proved.

**OperationsProofs and StoredDataProofs.** As with the records, one step is a step of one part,
and each part has an invariant of its own. That of the sessions is `AccessInv`, and so on.

* `SignedOutForGood`: a request that was let in before a logout writes only the times of its
  session; a change of the password that has read which sessions there are will end them, or
  the session is one whose making overlapped it (`Ending`). What a lockout has counted plus
  the comparisons that do not hold the row of their address stay below the limit plus the
  requests (`Counting`): one that holds the row has read it, and counts at once.
* `SpendingBounded`: who is between check and booking holds the row of the day and its Run, so
  what was checked is still true of the ledger (`Holding`, `Checked`). The sums are folds over
  sets of rows; that adding a row adds its tokens is proved for every finite set by a least
  counterexample (`LeastSubset`), since the library's induction takes an operator.
* `DescribedOnce`: rows of the ledger are numbered as they are claimed (`Numbered`); a token
  belongs to one try of one create, so a row that a create finds under its token is still the
  row it claimed (`Working`, `Owned`), and what it commits is the answer that the row keeps
  (`Answering`, `Truthful`). Versions and numbers of a Job Description go together (`Versioned`).
* `AnswerHidesNothing`: the skills of a draft are those of the keywords until their evidence is
  looked at (`Begun`), then a match has a source or is set aside (`Looked`), and the refinement
  leaves them `Accounted`; a skill behind `MaxListed` others of its list is excepted all along
  (`Considered`). A status `complete` was given when nothing was noted of any field;
  then each field is what was given under its own name, and no later stage touches summary and
  recommendations without lowering the status (`Honest`).
* `TelemetryWhole`: a deletion that holds children to delete will delete their parents, and the
  reverse (`StepsFollow`, `ResultsFollow`), except of what `overlapped` names. A finished run
  counts the results of one list of verdicts (`Summed`), whose cardinalities are its numbers.
* `IndexWhole`: a rebuild saw of each document it will remove all the chunks that are there or
  none (`Sees`); two rebuilds that write have no document in common (`Apart`), because the
  second waited for the first and found its documents gone.
* `BackupsAreWhole`: whatever the archive and the manifest hold was read under one snapshot, and
  a file of that snapshot was whole when it was listed, or is in the archive (`Sound`); files of
  rows stay whole. A restore that was verified relies on a directory nobody changes in a way
  that matters (`Restoring`). `TargetKept` follows from what each step of the restore may do.
* `OperationsTypeOK`: the guards that cap the counters look at the tables, and the next
  statement of a transaction writes; each part's invariant is strengthened by what
  transactions in hand still hold (`BackupBounds`, `KnowledgeBounds` and their likes).
* `ReleaseIsEarned`: the file names the requests made so far, five at most (`Limited`), and a
  verdict has marked the errors of two runs in both (`Marking`); then what `evaluate` asks of
  a file is turned, request by request, into the absence of defects; the two gaps that section 4
  names are excepted by the property itself.

*Only model-checked.*

* `RunSettles` and `EveryRequestAnswered`: liveness under fairness and ENABLED are out of the
  prover's reach.

No module declares a RECURSIVE operator.

## 6. Not modelled

* Text: prompts, evidence extraction, term normalization, the wording of fallbacks, the
  normalization of the Java service. A model here says of a text what the code decides
  about it, never what is in it.
* `create()` of an Agent Run with an idempotency key of its own, heartbeats and signals of a
  worker, several dispatchers, and the content of a Step's output.
* SSE: the stream reads events and status in separate statements and may close before the
  last event; the limiter's counter expires. The stream changes no state, and the code
  promises no completeness.
* Administration of users, CSRF tokens, audit rows; `GET /api/auth/session` rotates the token
  of other tabs.
* Java reads and cursors, web and security: read-only or stateless.
* Feature retirement, dashboard, readiness checks: stateless or read-only. The retirement is the
  constant `PublicRestart`; the routes of Jobs, Materials and Matching that it
  retires are modelled as the services and their tests keep them, and the Agent workflow
  calls them.
* The offline migration, the collector of the candidate evidence (`ops/candidate`), deployment
  and frontend: sequential tools and rendering.
* Redis, the provider, PostgreSQL's `pg_dump` and `pg_restore` are external and modelled by
  what the code can observe of them. The order of row locks is not represented, so
  deadlocks (hazard at `service.py:287`), which PostgreSQL ends by aborting one side, are not
  visible.

## 7. What could come next

The model is as wide as the code allows, and every safety property of the passing
runs is proved. Worth adding if the code changes there: the acquisition
order of row locks (deadlocks between `decide_approval` and `_cancel_now`), and what makes a
reused Analysis stale (its fingerprint omits the Requirements).
