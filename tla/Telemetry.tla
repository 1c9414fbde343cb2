------------------------------- MODULE Telemetry -------------------------------
(***************************************************************************)
(* What is kept of every analysis and evaluation: the History              *)
(* (application_records of database.py), the metrics                       *)
(* (monitoring_service.py), the evaluation runs (evaluation_service.py),   *)
(* and their deletion by an administrator (data_management_service.py).    *)
(*                                                                         *)
(* A metric and its steps, and a run and its results, have no foreign key  *)
(* in common and are written by several transactions.  BEGIN IMMEDIATE     *)
(* becomes BEGIN on PostgreSQL, so a deletion locks nothing: each of its   *)
(* statements sees what was committed before it.                           *)
(***************************************************************************)
EXTENDS Naturals, FiniteSets

CONSTANTS
  Workflows,  \* the analyses
  Outcomes,   \* the outcomes of an analysis
  Runs,       \* the evaluation runs
  Cases,      \* the cases of the suite
  Cleaners    \* the deletions under way at once

VARIABLES
  analysis,    \* how far the request of each workflow is, and whether it saved a record
  history,     \* rows of application_records
  metric,      \* rows of analysis_metrics
  stepped,     \* the workflows with rows in analysis_step_metrics
  evaluation,  \* how far the request of each run is
  runRow,      \* rows of evaluation_runs
  result,      \* rows of evaluation_results: <<run, case, status>>
  cleaner,     \* the deletion each administrator has under way
  overlapped   \* history variable: what was being written during a deletion

historyVars   == <<analysis, history, metric, stepped>>
runVars       == <<evaluation, runRow, result>>
telemetryVars == <<historyVars, runVars, cleaner, overlapped>>

NoRow == [exists |-> FALSE]
Idle == [at |-> "idle"]
Finished == {"completed", "completed_with_failures"}
Verdicts == {"passed", "failed", "error"}

\* outcome: the notes still hold the status and the warnings of the analysis
HistoryRow ==
  [exists : {TRUE}, steps : {"partial", "final"}, decision : {"pending", "accepted"},
   outcome : BOOLEAN]
\* application: its application_record_id is not null
MetricRow == [exists : {TRUE}, outcome : Outcomes, application : BOOLEAN]
EvaluationRow ==
  [exists : {TRUE}, status : Finished \cup {"running"}, total : Nat, passed : Nat,
   failed : Nat, errors : Nat]
ResultRow == Runs \X Cases \X Verdicts

TypeOK ==
  /\ \A w \in Workflows :
       analysis[w].at \in {"idle", "saved", "answered", "metric", "recorded", "lost"}
  /\ history \in [Workflows -> HistoryRow \cup {NoRow}]
  /\ metric \in [Workflows -> MetricRow \cup {NoRow}]
  /\ stepped \subseteq Workflows
  /\ \A r \in Runs : runRow[r] \in EvaluationRow \cup {NoRow}
  /\ result \subseteq ResultRow
  /\ overlapped \subseteq Workflows \cup Runs

Init ==
  /\ analysis = [w \in Workflows |-> [at |-> "idle", saved |-> FALSE]]
  /\ history = [w \in Workflows |-> NoRow] /\ metric = [w \in Workflows |-> NoRow]
  /\ stepped = {}
  /\ evaluation = [r \in Runs |-> Idle] /\ runRow = [r \in Runs |-> NoRow] /\ result = {}
  /\ cleaner = [c \in Cleaners |-> Idle]
  /\ overlapped = {}

-----------------------------------------------------------------------------
(* An analysis leaves a record of its own and its metrics. *)

At(w, stage) == analysis[w].at = stage
Reaches(w, stage) == analysis' = [analysis EXCEPT ![w].at = stage]

\* The parents a deletion has locked, and will remove when it commits.
Doomed(others) == UNION {cleaner[c].parents : c \in {d \in others : cleaner[d].at = "parents"}}

\* insert_application_record, before the last step of the workflow is known, or
\* the History of AnalyzeIdempotencyService.finalize, with all of them.
SaveHistory(w, steps) ==
  /\ At(w, "idle")
  /\ analysis' = [analysis EXCEPT ![w] =
                    [at |-> IF steps = "final" THEN "answered" ELSE "saved", saved |-> TRUE]]
  /\ history' = [history EXCEPT ![w] = [exists |-> TRUE, steps |-> steps, decision |-> "pending",
                                               outcome |-> TRUE]]
  /\ UNCHANGED <<metric, stepped>>

\* save_to_history was not asked for, or the analysis ended before.
NotSaved(w) ==
  /\ At(w, "idle")
  /\ Reaches(w, "answered")
  /\ UNCHANGED <<history, metric, stepped>>

\* update_application_workflow_steps; nothing, if the record is gone.
CompleteHistory(w) ==
  /\ At(w, "saved")
  /\ Reaches(w, "answered")
  /\ history' = IF history[w].exists THEN [history EXCEPT ![w].steps = "final"] ELSE history
  /\ UNCHANGED <<metric, stepped>>

\* The final result cannot be prepared: the failure is observed, the record stays.
FinalResultFails(w) ==
  /\ At(w, "saved")
  /\ Reaches(w, "answered")
  /\ UNCHANGED <<history, metric, stepped>>

\* record_analysis_metric: the foreign key refuses the number of a deleted record.
RecordMetric(w, outcome) ==
  /\ At(w, "answered")
  /\ analysis[w].saved => history[w].exists
  /\ Reaches(w, "metric")
  /\ metric' = [metric EXCEPT ![w] = [exists |-> TRUE, outcome |-> outcome,
                                     application |-> analysis[w].saved]]
  /\ UNCHANGED <<history, stepped>>

\* record_step_metrics: a transaction of its own, whatever became of the metric
RecordSteps(w) ==
  /\ At(w, "metric")
  /\ Reaches(w, "recorded")
  /\ stepped' = stepped \cup {w}
  /\ UNCHANGED <<history, metric>>

\* persist_analysis_metrics_best_effort gives up, or the process dies.
Lose(w) ==
  /\ analysis[w].at \in {"saved", "answered", "metric"}
  /\ Reaches(w, "lost")
  /\ UNCHANGED <<history, metric, stepped>>

\* update_next_action_decision
Decide(w, decision) ==
  /\ history[w].exists /\ history[w].decision # decision
  /\ history' = [history EXCEPT ![w].decision = decision]
  /\ UNCHANGED <<analysis, metric, stepped>>

\* update_application_record: new notes replace the status of the analysis.
EditHistory(w) ==
  /\ history[w].exists
  /\ history' = [history EXCEPT ![w].outcome = FALSE]
  /\ UNCHANGED <<analysis, metric, stepped>>

\* delete_application_record; ON DELETE SET NULL waits for the row of the metric.
DeleteHistory(w) ==
  /\ history[w].exists
  /\ metric[w].exists /\ metric[w].application => w \notin Doomed(Cleaners)
  /\ history' = [history EXCEPT ![w] = NoRow]
  /\ metric' = IF metric[w].exists THEN [metric EXCEPT ![w].application = FALSE] ELSE metric
  /\ UNCHANGED <<analysis, stepped>>

Analyses ==
  \E w \in Workflows :
    \/ \E steps \in {"partial", "final"} : SaveHistory(w, steps)
    \/ NotSaved(w) \/ CompleteHistory(w) \/ FinalResultFails(w)
    \/ \E outcome \in Outcomes : RecordMetric(w, outcome)
    \/ RecordSteps(w) \/ Lose(w) \/ EditHistory(w) \/ DeleteHistory(w)
    \/ \E decision \in {"pending", "accepted"} : Decide(w, decision)

-----------------------------------------------------------------------------
(* run_evaluation_suite: each call of the database is a transaction. *)

RunAt(r, stage) == evaluation[r].at = stage

Row(status, verdict, cases) ==
  LET Of(v) == Cardinality({k \in cases : verdict[k] = v})
  IN [exists |-> TRUE, status |-> status, total |-> Cardinality(cases), passed |-> Of("passed"),
      failed |-> Of("failed"), errors |-> Of("error")]

\* insert_evaluation_run, then every case is run in memory.
StartRun(r, verdict) ==
  /\ RunAt(r, "idle")
  /\ evaluation' = [evaluation EXCEPT ![r] = [at |-> "running", verdict |-> verdict, left |-> Cases]]
  /\ runRow' = [runRow EXCEPT ![r] = Row("running", verdict, {})]
  /\ UNCHANGED result

\* insert_evaluation_result
InsertResult(r, k) ==
  /\ RunAt(r, "running") /\ k \in evaluation[r].left
  /\ evaluation' = [evaluation EXCEPT ![r].left = @ \ {k}]
  /\ result' = result \cup {<<r, k, evaluation[r].verdict[k]>>}
  /\ UNCHANGED runRow

\* update_evaluation_run waits for a deletion of its row, then finds none.
FinishRun(r) ==
  /\ RunAt(r, "running") /\ evaluation[r].left = {} /\ r \notin Doomed(Cleaners)
  /\ evaluation' = [evaluation EXCEPT ![r] = [at |-> "done"]]
  /\ LET verdict == evaluation[r].verdict
         status == IF \A k \in Cases : verdict[k] = "passed" THEN "completed"
                                                            ELSE "completed_with_failures"
     IN runRow' = IF runRow[r].exists
                  THEN [runRow EXCEPT ![r] = Row(status, verdict, Cases)] ELSE runRow
  /\ UNCHANGED result

\* The process dies or a write fails: the row stays "running".
RunDies(r) ==
  /\ RunAt(r, "running")
  /\ evaluation' = [evaluation EXCEPT ![r] = [at |-> "dead"]]
  /\ UNCHANGED <<runRow, result>>

Evaluations ==
  \E r \in Runs :
    \/ \E verdict \in [Cases -> Verdicts] : StartRun(r, verdict)
    \/ \E k \in Cases : InsertResult(r, k)
    \/ FinishRun(r) \/ RunDies(r)

-----------------------------------------------------------------------------
(* delete_monitoring_data, delete_trace and delete_evaluation_data *)

Filters ==
  [kind : {"monitoring"}, outcomes : (SUBSET Outcomes) \ {{}}]
    \cup [kind : {"trace"}, workflow : Workflows]
    \cup [kind : {"evaluation"}, statuses : {{"running"}, Finished, Finished \cup {"running"}}]

\* The parents that a statement of the deletion sees.
Parents(filter) ==
  CASE filter.kind = "monitoring" ->
         {w \in Workflows : metric[w].exists /\ metric[w].outcome \in filter.outcomes}
    [] filter.kind = "trace" -> {w \in {filter.workflow} : metric[w].exists}
    [] filter.kind = "evaluation" ->
         {r \in Runs : runRow[r].exists /\ runRow[r].status \in filter.statuses}

\* Mutant: the parents go first, and the subquery finds none.
ChildrenAfterParents(filter) == {}

\* The steps of these workflows, or the results of these runs
Children(filter) ==
  CASE filter.kind = "monitoring" -> stepped \cap Parents(filter)
    [] filter.kind = "trace" -> stepped \cap {filter.workflow}
    [] filter.kind = "evaluation" -> {row \in result : row[1] \in Parents(filter)}

Cleans(c, state) == cleaner' = [cleaner EXCEPT ![c] = state] /\ UNCHANGED <<historyVars, runVars>>

\* An authorized and confirmed request counts; TRACE_NOT_FOUND ends it.
BeginDeletion(c, filter) ==
  /\ cleaner[c].at = "idle"
  /\ filter.kind = "trace" => Parents(filter) # {}
  /\ Cleans(c, [at |-> "begun", filter |-> filter])

DeleteChildren(c) ==
  /\ cleaner[c].at = "begun"
  /\ Cleans(c, [at |-> "children", filter |-> cleaner[c].filter,
                children |-> Children(cleaner[c].filter)])

\* The filter is evaluated again; a row that another deletion has locked is awaited.
DeleteParents(c) ==
  /\ cleaner[c].at = "children"
  /\ Parents(cleaner[c].filter) \cap Doomed(Cleaners \ {c}) = {}
  /\ Cleans(c, [at |-> "parents", filter |-> cleaner[c].filter,
                children |-> cleaner[c].children, parents |-> Parents(cleaner[c].filter)])

CommitDeletion(c) ==
  /\ cleaner[c].at = "parents"
  /\ cleaner' = [cleaner EXCEPT ![c] = Idle]
  /\ IF cleaner[c].filter.kind = "evaluation"
     THEN /\ runRow' = [r \in Runs |-> IF r \in cleaner[c].parents THEN NoRow ELSE runRow[r]]
          /\ result' = result \ cleaner[c].children
          /\ UNCHANGED <<evaluation, historyVars>>
     ELSE /\ metric' = [w \in Workflows |-> IF w \in cleaner[c].parents THEN NoRow ELSE metric[w]]
          /\ stepped' = stepped \ cleaner[c].children
          /\ UNCHANGED <<analysis, history, runVars>>

\* A statement fails, or the process dies.
AbortDeletion(c) ==
  /\ cleaner[c].at # "idle"
  /\ Cleans(c, Idle)

Deletions ==
  \E c \in Cleaners :
    \/ \E filter \in Filters : BeginDeletion(c, filter)
    \/ DeleteChildren(c) \/ DeleteParents(c) \/ CommitDeletion(c) \/ AbortDeletion(c)

\* Metrics without their steps yet, and runs without all of their results, while
\* rows of their tables are being deleted
Overlapping ==
  LET Active(kinds) == \E c \in Cleaners : cleaner[c].at # "idle" /\ cleaner[c].filter.kind \in kinds
  IN (IF Active({"monitoring", "trace"}) THEN {w \in Workflows : At(w, "metric")} ELSE {})
       \cup (IF Active({"evaluation"}) THEN {r \in Runs : RunAt(r, "running")} ELSE {})

Next ==
  /\ \/ Analyses /\ UNCHANGED <<runVars, cleaner>>
     \/ Evaluations /\ UNCHANGED <<historyVars, cleaner>>
     \/ Deletions
  /\ overlapped' = overlapped \cup Overlapping \cup Overlapping'

Spec == Init /\ [][Next]_telemetryVars

-----------------------------------------------------------------------------
\* Whatever is lost, deleted, or interrupted, what is left fits together, unless
\* a deletion overlapped its writing: no steps without their metric, no metric
\* of a recorded analysis without its steps, no results without their run, and
\* a finished run has the results it counts.  A metric never names a deleted record.
TelemetryWhole ==
  /\ \A w \in Workflows \ overlapped :
       /\ w \in stepped => metric[w].exists
       /\ At(w, "recorded") /\ metric[w].exists => w \in stepped
  /\ \A w \in Workflows : metric[w].exists /\ metric[w].application => history[w].exists
  /\ \A r \in Runs \ overlapped :
       LET kept == {row \in result : row[1] = r}
           Of(v) == Cardinality({row \in kept : row[3] = v})
       IN /\ kept # {} => runRow[r].exists
          /\ runRow[r].exists /\ runRow[r].status \in Finished =>
               /\ runRow[r].total = Cardinality(Cases) /\ {row[2] : row \in kept} = Cases
               /\ runRow[r].passed = Of("passed") /\ runRow[r].failed = Of("failed")
               /\ runRow[r].errors = Of("error")
               /\ runRow[r].status = "completed" <=> runRow[r].passed = runRow[r].total
=============================================================================
