----------------------------- MODULE JobLibrary ------------------------------
(***************************************************************************)
(* The Job Library of one owner (app/jobs/service.py, import_service.py)   *)
(* and the rows that hang on its Jobs: Sources, Requirements, duplicate    *)
(* candidates, Applications and Tasks.                                     *)
(*                                                                         *)
(* A request is a transaction under READ COMMITTED.  One that only changes *)
(* rows it locked first is one step; one that reads without a lock and     *)
(* inserts or moves rows later has a read step and a commit step, and a    *)
(* CSV import has two steps a row.  Where no check but a unique index      *)
(* forbids a row, the commit fails and the transaction is rolled back.     *)
(* The text of a Job stands for company, title, location and description.  *)
(***************************************************************************)
EXTENDS Integers, Sequences, FiniteSets, SequencesExt

CONSTANTS
  Clients,          \* requests under way at once
  Contents,         \* [text, url]: what a Job says and where it was found
  NoUrl,            \* the url of a Job without one
  Requiring,        \* the texts deterministic_requirements finds something in
  NearTexts,        \* the pairs of texts assess_duplicate finds near
  Files,            \* what CSV files contain
  Stored,           \* the Jobs a library may begin with
  Analyses,         \* the owner's saved Analyses
  None,             \* no Analysis, no text
  MaxJobs,          \* bound: Jobs in all
  MaxApplications,  \* bound: Applications in all
  MaxRows,          \* bound: rows in each of the other tables
  MaxRequests       \* bound: transactions

VARIABLES
  job,          \* rows of jobs, the id is the index
  source,       \* rows of job_sources
  requirement,  \* rows of job_requirements: the Job of each, 0 when deleted
  candidate,    \* rows of job_duplicate_candidates, by pair
  application,  \* rows of applications as far as their Job is concerned
  task,         \* rows of application_tasks
  run,          \* rows of job_import_runs
  tx,           \* what the transaction of a client has read or inserted
  requests      \* how many transactions have begun

libraryVars == <<job, source, requirement, candidate, application, task, run, tx, requests>>

Texts == {content.text : content \in Contents}
Urls == {content.url : content \in Contents}

Jobs == 1..MaxJobs
\* Job
JobRow == [text : Texts, url : Urls, archived : BOOLEAN]
\* JobSource, with the import run that added it (0: none)
SourceRow == [job : Jobs, run : 0..MaxRows]
\* JobDuplicateCandidate
CandidateStatus == {"pending", "confirmed_duplicate", "not_duplicate", "dismissed"}
\* Application
ApplicationRow == [job : 0..MaxJobs, archived : BOOLEAN, deleted : BOOLEAN,
                   analysis : Analyses \cup {None}]
\* ApplicationTask
TaskRow == [application : 0..MaxApplications, job : 0..MaxJobs, archived : BOOLEAN]
\* JobImportRun
RunRow == [type : {"one", "csv", "csv_validate"},
           count : Nat, created : Nat, duplicate : Nat, failed : Nat,
           status : {"completed", "validated", "completed_with_errors"}]

Idle == [op |-> "idle"]

TypeOK ==
  /\ job \in Seq(JobRow) /\ Len(job) <= MaxJobs
  /\ source \in Seq(SourceRow)
  /\ requirement \in Seq(0..MaxJobs)
  /\ DOMAIN candidate \subseteq {{i, j} : i, j \in Jobs}
  /\ \A pair \in DOMAIN candidate : candidate[pair] \in CandidateStatus
  /\ application \in Seq(ApplicationRow) /\ Len(application) <= MaxApplications
  /\ task \in Seq(TaskRow)
  /\ run \in Seq(RunRow)
  /\ DOMAIN tx = Clients
  /\ requests \in 0..MaxRequests

Init ==
  /\ job \in Stored
  /\ source = << >> /\ requirement = << >>
  /\ candidate = << >> /\ application = << >> /\ task = << >> /\ run = << >>
  /\ tx = [c \in Clients |-> Idle]
  /\ requests = 0

-----------------------------------------------------------------------------
(* What a transaction sees. *)

Key(content) == <<content.text, content.url>>

Active(j) == j \in DOMAIN job /\ ~job[j].archived
ActiveJobs == {j \in DOMAIN job : ~job[j].archived}

\* JobRepository.exact: one active Job with the text or the URL, among `rows`.
SameAs(content, row) ==
  \/ row.text = content.text
  \/ content.url # NoUrl /\ row.url = content.url

Exact(content) == {j \in ActiveJobs : SameAs(content, job[j])}

\* Mutant: the unique index does not exist.
KeyUnchecked(content, own) == TRUE

\* uq_jobs_owner_deduplication_key_active, seen by a writer of the rows `own`
KeyFree(content, own) ==
  \A j \in ActiveJobs \ own : Key(job[j]) # Key(content)

\* The Application JobService.merge and ApplicationService.create look for.
ActiveFor(j) ==
  {a \in DOMAIN application :
     application[a].job = j /\ ~application[a].archived /\ ~application[a].deleted}

\* Merge holds FOR UPDATE on both Jobs until it commits; every step that locks
\* a Job, or inserts a row that refers to it, waits.
JobFree(j) == \A c \in Clients : tx[c].op = "merge" => j \notin {tx[c].target, tx[c].origin}

\* A key an import has inserted and not committed: whoever inserts it too waits.
Pending(d) == IF tx[d].op = "csv" THEN {Key(tx[d].inserted[i]) : i \in DOMAIN tx[d].inserted} ELSE {}
KeyPending(c, content) == \E d \in Clients \ {c} : Key(content) \in Pending(d)

Begin(c, seen) ==
  /\ tx[c] = Idle /\ requests < MaxRequests
  /\ tx' = [tx EXCEPT ![c] = seen]
  /\ requests' = requests + 1
  /\ UNCHANGED <<job, source, requirement, candidate, application, task, run>>

End(c) == tx' = [tx EXCEPT ![c] = Idle] /\ UNCHANGED requests

\* A transaction that works on rows it locked.
Request == requests < MaxRequests /\ requests' = requests + 1 /\ UNCHANGED tx

-----------------------------------------------------------------------------
(* Creating Jobs. *)

\* JobService.create looks for an existing Job, for a request or for one of the
\* imports that add a run of one row (manual, url, file).
CreateRead(c, content, imports) ==
  \E existing \in IF Exact(content) = {} THEN {0} ELSE Exact(content) :
    Begin(c, [op |-> "create", content |-> content, existing |-> existing,
              imports |-> imports])

\* deterministic_requirements
Found(text) == IF text \in Requiring THEN 1 ELSE 0

\* _record_near_duplicate: the best of the Jobs that are near, as a pair.
Near(text) == {k \in ActiveJobs : {job[k].text, text} \in NearTexts}

Pairs(j, near) == IF near = {} THEN {{}} ELSE {{{j, k}} : k \in near}

Record(pairs) ==
  candidate' = [pair \in pairs \cup DOMAIN candidate |->
                  IF pair \in pairs THEN "pending" ELSE candidate[pair]]

\* JobImportService._run
OneRowRun(created) ==
  [type |-> "one", count |-> 1, created |-> IF created THEN 1 ELSE 0,
   duplicate |-> IF created THEN 0 ELSE 1, failed |-> 0, status |-> "completed"]

CreateCommit(c) ==
  /\ tx[c].op = "create"
  /\ Len(source) < MaxRows /\ Len(run) < MaxRows
  /\ LET content == tx[c].content
         isNew == tx[c].existing = 0
         id == IF isNew THEN Len(job) + 1 ELSE tx[c].existing
     IN /\ source' = Append(source, [job |-> id,
                                     run |-> IF tx[c].imports THEN Len(run) + 1 ELSE 0])
        /\ IF isNew
           THEN /\ Len(job) < MaxJobs
                /\ KeyFree(content, {}) /\ ~KeyPending(c, content)
                /\ job' = Append(job, [text |-> content.text, url |-> content.url,
                                       archived |-> FALSE])
                /\ requirement' = requirement \o [i \in 1..Found(content.text) |-> id]
                /\ \E pairs \in Pairs(id, Near(content.text)) : Record(pairs)
           ELSE JobFree(id) /\ UNCHANGED <<job, requirement, candidate>>
        /\ run' = IF tx[c].imports THEN Append(run, OneRowRun(isNew)) ELSE run
  /\ End(c)
  /\ UNCHANGED <<application, task>>

\* A broken unique index, or a refusal: nothing is written.
GiveUp(c) ==
  /\ tx[c].op \in {"create", "apply", "task", "merge"}
  /\ End(c)
  /\ UNCHANGED <<job, source, requirement, candidate, application, task, run>>

-----------------------------------------------------------------------------
(* JobImportService.csv: one transaction, a savepoint for every row. *)

\* A row is a Job, or _csv_row refuses it.
Refused == [text |-> None, url |-> NoUrl]

CsvBegin(c, rows, validateOnly) ==
  Begin(c, [op |-> "csv", rows |-> rows, at |-> 1, seen |-> -1, validate |-> validateOnly,
            inserted |-> << >>, touched |-> << >>, pairs |-> {}, duplicate |-> 0, failed |-> 0])

CsvNext(t) == [t EXCEPT !.at = @ + 1, !.seen = -1]

\* A row that is not valid, or is only validated.
CsvCheck(c) ==
  /\ tx[c].op = "csv" /\ tx[c].at <= Len(tx[c].rows)
  /\ LET t == tx[c]
         row == t.rows[t.at]
     IN /\ t.validate \/ row = Refused
        /\ tx' = [tx EXCEPT ![c] =
             CsvNext([t EXCEPT !.failed = @ + IF row = Refused THEN 1 ELSE 0])]
  /\ UNCHANGED <<job, source, requirement, candidate, application, task, run, requests>>

\* exact() sees the committed Jobs and those this import inserted, which are
\* numbered after MaxJobs here.
CsvRead(c) ==
  /\ tx[c].op = "csv" /\ tx[c].at <= Len(tx[c].rows) /\ tx[c].seen = -1
  /\ LET t == tx[c]
         row == t.rows[t.at]
     IN /\ ~t.validate /\ row # Refused
        /\ \E existing \in
             LET own == {MaxJobs + i : i \in {k \in DOMAIN t.inserted : SameAs(row, t.inserted[k])}}
             IN IF Exact(row) \cup own = {} THEN {0} ELSE Exact(row) \cup own :
             tx' = [tx EXCEPT ![c].seen = existing]
  /\ UNCHANGED <<job, source, requirement, candidate, application, task, run, requests>>

\* Two imports that wait for a key of each other: the database ends one of the
\* statements, and the savepoint of that row is rolled back.
Waits(c, d) ==
  /\ tx[c].op = "csv" /\ tx[c].seen = 0
  /\ Key(tx[c].rows[tx[c].at]) \in Pending(d)

\* csv, the except branch
RowFails(t) == CsvNext([t EXCEPT !.failed = @ + 1])

CsvInsert(c) ==
  /\ tx[c].op = "csv" /\ tx[c].seen # -1
  /\ LET t == tx[c]
         row == t.rows[t.at]
     IN \/ /\ t.seen # 0
           /\ t.seen <= MaxJobs => JobFree(t.seen)
           /\ tx' = [tx EXCEPT ![c] =
                CsvNext([t EXCEPT !.duplicate = @ + 1, !.touched = Append(@, t.seen)])]
        \/ /\ t.seen = 0 /\ KeyFree(row, {}) /\ ~KeyPending(c, row)
           /\ LET id == MaxJobs + Len(t.inserted) + 1
                  own == {MaxJobs + i : i \in {k \in DOMAIN t.inserted :
                                                 {t.inserted[k].text, row.text} \in NearTexts}}
              IN \E pairs \in Pairs(id, Near(row.text) \cup own) :
                   tx' = [tx EXCEPT ![c] =
                     CsvNext([t EXCEPT !.inserted = Append(@, row), !.pairs = @ \cup pairs,
                                       !.touched = Append(@, id)])]
        \/ /\ t.seen = 0
           /\ \/ ~KeyFree(row, {})
              \/ \E d \in Clients \ {c} : Waits(c, d) /\ Waits(d, c)
           /\ tx' = [tx EXCEPT ![c] = RowFails(t)]
  /\ UNCHANGED <<job, source, requirement, candidate, application, task, run, requests>>

\* Mutant: a run whose rows fail stays as it was inserted.
CsvStatusLeft(t) ==
  CASE t.failed > 0 -> "running"
    [] t.validate /\ t.failed = 0 -> "validated"
    [] OTHER -> "completed"

CsvStatus(t) ==
  CASE t.failed > 0 -> "completed_with_errors"
    [] t.validate /\ t.failed = 0 -> "validated"
    [] OTHER -> "completed"

CsvCommit(c) ==
  /\ tx[c].op = "csv" /\ tx[c].at > Len(tx[c].rows)
  /\ Len(job) + Len(tx[c].inserted) <= MaxJobs
  /\ Len(source) + Len(tx[c].touched) <= MaxRows /\ Len(run) < MaxRows
  /\ LET t == tx[c]
         found == {Len(job) + i : i \in {k \in DOMAIN t.inserted : t.inserted[k].text \in Requiring}}
         Id(seen) == IF seen > MaxJobs THEN Len(job) + seen - MaxJobs ELSE seen
     IN /\ job' = job \o [i \in DOMAIN t.inserted |->
                            [text |-> t.inserted[i].text, url |-> t.inserted[i].url,
                             archived |-> FALSE]]
        /\ source' = source \o [i \in DOMAIN t.touched |->
                                  [job |-> Id(t.touched[i]), run |-> Len(run) + 1]]
        /\ \E ids \in [1..Cardinality(found) -> found] :
             /\ \A i, k \in DOMAIN ids : i < k => ids[i] < ids[k]
             /\ requirement' = requirement \o ids
        /\ Record({{Id(k) : k \in pair} : pair \in t.pairs})
        /\ run' = Append(run, [type |-> IF t.validate THEN "csv_validate" ELSE "csv",
                               count |-> Len(t.rows), created |-> Len(t.inserted),
                               duplicate |-> t.duplicate, failed |-> t.failed,
                               status |-> CsvStatus(t)])
  /\ End(c)
  /\ UNCHANGED <<application, task>>

-----------------------------------------------------------------------------
(* Changing Jobs. *)

\* update does not look for duplicates: the index alone may refuse it.
UpdateJob(j, content) ==
  /\ Active(j) /\ JobFree(j) /\ Request
  /\ KeyFree(content, {j}) /\ \A d \in Clients : Key(content) \notin Pending(d)
  /\ job' = [job EXCEPT ![j].text = content.text, ![j].url = content.url]
  /\ UNCHANGED <<source, requirement, candidate, application, task, run>>

ArchiveJob(j) ==
  /\ Active(j) /\ JobFree(j) /\ Request
  /\ job' = [job EXCEPT ![j].archived = TRUE]
  /\ UNCHANGED <<source, requirement, candidate, application, task, run>>

RestoreJob(j) ==
  /\ ~Active(j) /\ JobFree(j) /\ Request
  /\ KeyFree(job[j], {j}) /\ \A d \in Clients : Key(job[j]) \notin Pending(d)
  /\ job' = [job EXCEPT ![j].archived = FALSE]
  /\ UNCHANGED <<source, requirement, candidate, application, task, run>>

\* add_requirement, extract_requirements
AddRequirement(j) ==
  /\ Active(j) /\ JobFree(j) /\ Len(requirement) < MaxRows /\ Request
  /\ requirement' = Append(requirement, j)
  /\ UNCHANGED <<job, source, candidate, application, task, run>>

DeleteRequirement(r) ==
  /\ Active(requirement[r]) /\ JobFree(requirement[r]) /\ Request
  /\ requirement' = [requirement EXCEPT ![r] = 0]
  /\ UNCHANGED <<job, source, candidate, application, task, run>>

\* resolve_duplicate: both Jobs active, the pair may be resolved again.
ResolveDuplicate(pair) ==
  /\ pair \subseteq ActiveJobs /\ Request
  /\ \E status \in CandidateStatus \ {"pending"} :
       candidate' = [candidate EXCEPT ![pair] = status]
  /\ UNCHANGED <<job, source, requirement, application, task, run>>

\* merge locks both Jobs; the Applications it reads are not locked.
MergeRead(c, t, s) ==
  /\ t # s /\ Active(t) /\ Active(s) /\ JobFree(t) /\ JobFree(s)
  /\ ActiveFor(t) = {} \/ ActiveFor(s) = {}
  /\ \E a \in IF ActiveFor(s) = {} THEN {0} ELSE ActiveFor(s) :
       Begin(c, [op |-> "merge", target |-> t, origin |-> s, application |-> a])

Moved(rows, s, t) == [i \in DOMAIN rows |-> IF rows[i].job = s THEN [rows[i] EXCEPT !.job = t]
                                            ELSE rows[i]]

\* The two Jobs are written in the order of their ids: when the target comes
\* first its new key is compared with the source, which is not archived yet.
MergeCommit(c, content, targetFirst) ==
  /\ tx[c].op = "merge"
  /\ LET t == tx[c].target
         s == tx[c].origin
         a == tx[c].application
     IN /\ content.text \in {job[t].text, job[s].text}
        /\ content.url \in {job[t].url, job[s].url}
        /\ KeyFree(content, IF targetFirst THEN {t} ELSE {t, s})
        /\ \A d \in Clients : Key(content) \notin Pending(d)
        /\ job' = [job EXCEPT ![t].text = content.text, ![t].url = content.url,
                              ![s].archived = TRUE]
        /\ source' = Moved(source, s, t)
        /\ requirement' = [r \in DOMAIN requirement |->
                             IF requirement[r] = s THEN t ELSE requirement[r]]
        /\ task' = Moved(task, s, t)
        /\ IF a = 0 \/ application[a].deleted THEN UNCHANGED application
           ELSE /\ application[a].archived \/ ActiveFor(t) = {}
                /\ application' = [application EXCEPT ![a].job = t]
  /\ End(c)
  /\ UNCHANGED <<candidate, run>>

-----------------------------------------------------------------------------
(* Applications and Tasks, as far as their Job is concerned. *)

\* ApplicationService.create: an active Job, no active Application of it.
ApplyRead(c, j) ==
  /\ Active(j) /\ ActiveFor(j) = {}
  /\ Begin(c, [op |-> "apply", job |-> j, analysis |-> None])

\* create_submitted: no Job; an Analysis not marked yet.
SubmitRead(c, analysis) ==
  /\ analysis # None => \A a \in DOMAIN application :
       application[a].deleted \/ application[a].analysis # analysis
  /\ Begin(c, [op |-> "apply", job |-> 0, analysis |-> analysis])

\* uq_applications_owner_job_active, uq_applications_owner_source_analysis
ApplicationAllowed(j, analysis) ==
  /\ j # 0 => ActiveFor(j) = {}
  /\ analysis # None => \A a \in DOMAIN application :
       application[a].deleted \/ application[a].analysis # analysis

ApplyCommit(c) ==
  /\ tx[c].op = "apply" /\ Len(application) < MaxApplications
  /\ JobFree(tx[c].job)
  /\ ApplicationAllowed(tx[c].job, tx[c].analysis)
  /\ application' = Append(application,
       [job |-> tx[c].job, archived |-> FALSE, deleted |-> FALSE, analysis |-> tx[c].analysis])
  /\ End(c)
  /\ UNCHANGED <<job, source, requirement, candidate, task, run>>

ArchiveApplication(a) ==
  /\ ~application[a].archived /\ ~application[a].deleted /\ Request
  /\ application' = [application EXCEPT ![a].archived = TRUE]
  /\ UNCHANGED <<job, source, requirement, candidate, task, run>>

\* restore looks for another active Application of the Job; for one without a
\* Job that is any other active Application without a Job.
RestoreApplication(a) ==
  /\ application[a].archived /\ ~application[a].deleted /\ Request
  /\ ActiveFor(application[a].job) = {}
  /\ application' = [application EXCEPT ![a].archived = FALSE]
  /\ UNCHANGED <<job, source, requirement, candidate, task, run>>

\* delete: the stage history of an Application of a Job, and a Task, restrict it.
DeleteApplication(a) ==
  /\ ~application[a].archived /\ ~application[a].deleted /\ Request
  /\ application[a].job = 0
  /\ \A i \in DOMAIN task : task[i].application # a
  /\ application' = [application EXCEPT ![a].deleted = TRUE]
  /\ UNCHANGED <<job, source, requirement, candidate, task, run>>

\* TaskService._relationships: the Job of a Task is that of its Application,
\* and is active when it is read.
TaskRead(c, a, j) ==
  /\ a # 0 => /\ ~application[a].archived /\ ~application[a].deleted
              /\ j = application[a].job
  /\ j # 0 => Active(j)
  /\ Begin(c, [op |-> "task", application |-> a, job |-> j])

TaskCommit(c) ==
  /\ tx[c].op = "task" /\ Len(task) < MaxRows
  /\ tx[c].application # 0 => ~application[tx[c].application].deleted
  /\ JobFree(tx[c].job)
  /\ task' = Append(task, [application |-> tx[c].application, job |-> tx[c].job,
                           archived |-> FALSE])
  /\ End(c)
  /\ UNCHANGED <<job, source, requirement, candidate, application, run>>

ArchiveTask(i) ==
  /\ ~task[i].archived /\ Request
  /\ task' = [task EXCEPT ![i].archived = TRUE]
  /\ UNCHANGED <<job, source, requirement, candidate, application, run>>

-----------------------------------------------------------------------------
ClientStep(c) ==
  \/ \E content \in Contents, imports \in BOOLEAN : CreateRead(c, content, imports)
  \/ \E rows \in Files, validateOnly \in BOOLEAN : CsvBegin(c, rows, validateOnly)
  \/ \E t, s \in DOMAIN job : MergeRead(c, t, s)
  \/ \E j \in DOMAIN job : ApplyRead(c, j)
  \/ \E analysis \in Analyses \cup {None} : SubmitRead(c, analysis)
  \/ \E a \in {0} \cup DOMAIN application, j \in {0} \cup DOMAIN job : TaskRead(c, a, j)
  \/ CreateCommit(c) \/ GiveUp(c)
  \/ CsvCheck(c) \/ CsvRead(c) \/ CsvInsert(c) \/ CsvCommit(c)
  \/ \E content \in Contents, targetFirst \in BOOLEAN : MergeCommit(c, content, targetFirst)
  \/ ApplyCommit(c) \/ TaskCommit(c)

LockedStep ==
  \/ \E j \in DOMAIN job, content \in Contents : UpdateJob(j, content)
  \/ \E j \in DOMAIN job : ArchiveJob(j) \/ RestoreJob(j) \/ AddRequirement(j)
  \/ \E r \in DOMAIN requirement : DeleteRequirement(r)
  \/ \E pair \in DOMAIN candidate : ResolveDuplicate(pair)
  \/ \E a \in DOMAIN application :
       ArchiveApplication(a) \/ RestoreApplication(a) \/ DeleteApplication(a)
  \/ \E i \in DOMAIN task : ArchiveTask(i)

Next == LockedStep \/ \E c \in Clients : ClientStep(c)

Spec == Init /\ [][Next]_libraryVars

-----------------------------------------------------------------------------
\* Whatever reads, inserts, merges and restores interleave: no two active Jobs
\* have one deduplication key, a Job has one active Application, and an
\* Analysis is marked as applied once.
UniqueWhereItCounts ==
  /\ \A i, j \in ActiveJobs : Key(job[i]) = Key(job[j]) => i = j
  /\ \A j \in DOMAIN job : Cardinality(ActiveFor(j)) <= 1
  /\ \A a, b \in DOMAIN application :
       /\ application[a].analysis = application[b].analysis
       /\ application[a].analysis # None
       /\ ~application[a].deleted /\ ~application[b].deleted
       => a = b

\* A run accounts for every row of its file: a row is counted once, and every
\* row not counted as failed left one Source row, also when rows of the file
\* repeat each other or another request inserts the same Job meanwhile.
ImportAccounted ==
  \A i \in DOMAIN run :
    LET left == Cardinality({k \in DOMAIN source : source[k].run = i}) IN
    /\ run[i].created + run[i].duplicate = left
    /\ run[i].type # "csv_validate" =>
         run[i].created + run[i].duplicate + run[i].failed = run[i].count
=============================================================================
