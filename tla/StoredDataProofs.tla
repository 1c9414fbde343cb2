--------------------------- MODULE StoredDataProofs ---------------------------
(***************************************************************************)
(* The theorems about the telemetry, the index of the Project Knowledge,   *)
(* the backups and the gate of a release, for any requests and bounds: the *)
(* other half of MCOperations, part by part as in OperationsProofs, and    *)
(* then the types and the bounds of both halves.                           *)
(***************************************************************************)
EXTENDS OperationsProofs

-----------------------------------------------------------------------------
(* Metrics, evaluation runs and their deletion (Telemetry)                 *)
(*                                                                         *)
(* Between the two statements of a deletion its children and its parents   *)
(* belong together, unless something was written meanwhile, which the      *)
(* history variable holds.                                                 *)

AnalysisShape ==
  [at : {"idle", "saved", "answered", "metric", "recorded", "lost"}, saved : BOOLEAN]
EvaluationShape ==
  {Observed!Idle} \cup [at : {"done", "dead"}]
  \cup [at : {"running"}, verdict : [Cases -> Observed!Verdicts], left : SUBSET Cases]

ChildSet == Workflows \cup Observed!ResultRow
CleanerShape ==
  {Observed!Idle} \cup [at : {"begun"}, filter : Observed!Filters]
  \cup [at : {"children"}, filter : Observed!Filters, children : SUBSET ChildSet]
  \cup [at : {"parents"}, filter : Observed!Filters, children : SUBSET ChildSet,
        parents : SUBSET (Workflows \cup Runs)]

TelemetryShape ==
  /\ analysis \in [Workflows -> AnalysisShape]
  /\ history \in [Workflows -> Observed!HistoryRow \cup {Observed!NoRow}]
  /\ metric \in [Workflows -> Observed!MetricRow \cup {Observed!NoRow}]
  /\ stepped \subseteq Workflows
  /\ evaluation \in [Runs -> EvaluationShape]
  /\ runRow \in [Runs -> Observed!EvaluationRow \cup {Observed!NoRow}]
  /\ result \subseteq Observed!ResultRow
  /\ cleaner \in [Cleaners -> CleanerShape]
  /\ overlapped \subseteq Workflows \cup Runs

MetricKinds == {"monitoring", "trace"}
Cleaning(c, kinds) == cleaner[c].at # "idle" /\ cleaner[c].filter.kind \in kinds

\* The parents a deletion will remove, if nothing changes
Marked(c) ==
  IF cleaner[c].at = "parents" THEN cleaner[c].parents ELSE Observed!Parents(cleaner[c].filter)
Removing(c, kinds) == cleaner[c].at \in {"children", "parents"} /\ cleaner[c].filter.kind \in kinds

\* An analysis whose metric was written while no deletion was under way has its steps.
Recorded(w) ==
  /\ w \in stepped => analysis[w].at = "recorded"
  /\ metric[w].exists => analysis[w].at \in {"metric", "recorded", "lost"}
  /\ metric[w].exists /\ metric[w].application => history[w].exists
  /\ w \notin overlapped =>
       /\ analysis[w].at = "metric" =>
            metric[w].exists /\ \A c \in Cleaners : ~Cleaning(c, MetricKinds)
       /\ w \in stepped => metric[w].exists
       /\ analysis[w].at = "recorded" /\ metric[w].exists => w \in stepped

\* A deletion removes the steps of the metrics it removes, and no others.
StepsFollow(c, w) ==
  Removing(c, MetricKinds) =>
    /\ w \in cleaner[c].children => analysis[w].at = "recorded"
    /\ w \notin overlapped =>
         /\ w \in stepped /\ w \in Marked(c) => w \in cleaner[c].children
         /\ w \in cleaner[c].children /\ metric[w].exists => w \in Marked(c)

KeptOf(results, r) == {x \in results : x[1] = r}
Told(r, verdict, cases) == {<<r, k, verdict[k]>> : k \in cases}
Summed(entry, results, r) ==
  \E verdict \in [Cases -> Observed!Verdicts] :
    /\ KeptOf(results, r) = Told(r, verdict, Cases)
    /\ entry = Observed!Row(IF \A k \in Cases : verdict[k] = "passed" THEN "completed"
                            ELSE "completed_with_failures", verdict, Cases)

\* A run written while no deletion was under way has the results it counts.
Evaluated(r) ==
  /\ evaluation[r].at = "idle" => KeptOf(result, r) = {} /\ ~runRow[r].exists
  /\ r \notin overlapped =>
       /\ evaluation[r].at = "running" =>
            /\ runRow[r].exists /\ runRow[r].status = "running"
            /\ KeptOf(result, r) = Told(r, evaluation[r].verdict, Cases \ evaluation[r].left)
            /\ \A c \in Cleaners : ~Cleaning(c, {"evaluation"})
       /\ KeptOf(result, r) # {} => runRow[r].exists
       /\ runRow[r].exists /\ runRow[r].status \in Observed!Finished =>
            Summed(runRow[r], result, r)

\* A deletion removes the results of the runs it removes, and no others.
ResultsFollow(c, r) ==
  Removing(c, {"evaluation"}) /\ r \notin overlapped =>
    /\ r \in Marked(c) => KeptOf(result, r) \subseteq cleaner[c].children
    /\ runRow[r].exists /\ KeptOf(cleaner[c].children, r) # {} => r \in Marked(c)

TelemetryInv ==
  /\ TelemetryShape
  /\ \A w \in Workflows : Recorded(w) /\ \A c \in Cleaners : StepsFollow(c, w)
  /\ \A r \in Runs : Evaluated(r) /\ \A c \in Cleaners : ResultsFollow(c, r)

\* What is being written while rows of its tables are being deleted is put down.
Tracked == overlapped' = overlapped \cup Observed!Overlapping \cup Observed!Overlapping'

LEMMA OverlapGrows ==
  ASSUME Tracked
  PROVE  /\ overlapped \subseteq overlapped'
         /\ \A w \in Workflows \ overlapped' :
              /\ analysis[w].at = "metric" => \A c \in Cleaners : ~Cleaning(c, MetricKinds)
              /\ analysis'[w].at = "metric" => \A c \in Cleaners : ~Cleaning(c, MetricKinds)'
         /\ \A r \in Runs \ overlapped' :
              /\ evaluation[r].at = "running" =>
                   \A c \in Cleaners : ~Cleaning(c, {"evaluation"})
              /\ evaluation'[r].at = "running" =>
                   \A c \in Cleaners : ~Cleaning(c, {"evaluation"})'
<1>1. overlapped \subseteq overlapped'
  BY DEF Tracked
<1>2. \A w \in Workflows :
        analysis[w].at = "metric" /\ (\E c \in Cleaners : Cleaning(c, MetricKinds)) =>
          w \in Observed!Overlapping
  BY DEF Observed!Overlapping, Observed!At, Cleaning, MetricKinds
<1>3. \A w \in Workflows :
        analysis'[w].at = "metric" /\ (\E c \in Cleaners : Cleaning(c, MetricKinds)') =>
          w \in Observed!Overlapping'
  BY DEF Observed!Overlapping, Observed!At, Cleaning, MetricKinds
<1>4. \A r \in Runs :
        evaluation[r].at = "running" /\ (\E c \in Cleaners : Cleaning(c, {"evaluation"})) =>
          r \in Observed!Overlapping
  BY DEF Observed!Overlapping, Observed!RunAt, Cleaning
<1>5. \A r \in Runs :
        evaluation'[r].at = "running" /\ (\E c \in Cleaners : Cleaning(c, {"evaluation"})') =>
          r \in Observed!Overlapping'
  BY DEF Observed!Overlapping, Observed!RunAt, Cleaning
<1> QED
  BY <1>1, <1>2, <1>3, <1>4, <1>5 DEF Tracked

LEMMA OverlapTyped == Observed!Overlapping \subseteq Workflows \cup Runs
                      /\ Observed!Overlapping' \subseteq Workflows \cup Runs
BY DEF Observed!Overlapping

\* The metrics and the runs that a filter names
Named(filter, w, entry) ==
  IF filter.kind = "monitoring" THEN entry.outcome \in filter.outcomes ELSE w = filter.workflow

LEMMA NamedParents ==
  ASSUME NEW filter \in Observed!Filters
  PROVE  /\ filter.kind \in MetricKinds =>
              /\ Observed!Parents(filter) =
                   {w \in Workflows : metric[w].exists /\ Named(filter, w, metric[w])}
              /\ Observed!Parents(filter)' =
                   {w \in Workflows : metric'[w].exists /\ Named(filter, w, metric'[w])}
         /\ filter.kind = "evaluation" =>
              /\ Observed!Parents(filter) =
                   {r \in Runs : runRow[r].exists /\ runRow[r].status \in filter.statuses}
              /\ Observed!Parents(filter)' =
                   {r \in Runs : runRow'[r].exists /\ runRow'[r].status \in filter.statuses}
         /\ filter.kind \in MetricKinds \cup {"evaluation"}
<1>1. CASE filter.kind = "monitoring"
  BY <1>1 DEF Observed!Parents, MetricKinds, Named
<1>2. CASE filter.kind = "evaluation"
  BY <1>2 DEF Observed!Parents, MetricKinds
<1>3. CASE filter.kind = "trace"
  <2>1. filter.workflow \in Workflows
    BY <1>3 DEF Observed!Filters
  <2>2. /\ Observed!Parents(filter) = {w \in {filter.workflow} : metric[w].exists}
        /\ Observed!Parents(filter)' = {w \in {filter.workflow} : metric'[w].exists}
    BY <1>3 DEF Observed!Parents
  <2> QED
    BY <1>3, <2>1, <2>2 DEF MetricKinds, Named
<1>4. filter.kind \in {"monitoring", "trace", "evaluation"}
  BY DEF Observed!Filters
<1> QED
  BY <1>1, <1>2, <1>3, <1>4

\* What a deletion is about to remove
LEMMA NamedMarks ==
  ASSUME TelemetryShape, NEW c \in Cleaners, Removing(c, {"monitoring", "trace", "evaluation"})
  PROVE  /\ cleaner[c].filter \in Observed!Filters
         /\ cleaner[c].at = "parents" => Marked(c) = cleaner[c].parents
         /\ cleaner[c].at = "children" => Marked(c) = Observed!Parents(cleaner[c].filter)
         /\ cleaner[c].at \in {"children", "parents"}
BY DEF TelemetryShape, CleanerShape, Removing, Marked, Observed!Idle

\* An analysis moves: what is said of the others stays true.
LEMMA AnalysisMoves ==
  ASSUME TelemetryInv, Tracked, NEW w \in Workflows, TelemetryShape', Recorded(w)',
         \A x \in Workflows \ {w} :
           /\ analysis'[x] = analysis[x] /\ history'[x] = history[x]
           /\ metric'[x] = metric[x] /\ (x \in stepped' <=> x \in stepped),
         UNCHANGED <<evaluation, runRow, result, cleaner>>,
         \A c \in Cleaners : StepsFollow(c, w)'
  PROVE  TelemetryInv'
<1>1. \A x \in Workflows \ {w} : Recorded(x)'
  BY OverlapGrows DEF TelemetryInv, Recorded
<1>2. \A c \in Cleaners, x \in Workflows \ {w} : StepsFollow(c, x)'
  <2> SUFFICES ASSUME NEW c \in Cleaners, NEW x \in Workflows \ {w}
               PROVE  StepsFollow(c, x)'
    OBVIOUS
  <2>1. StepsFollow(c, x)
    BY DEF TelemetryInv
  <2>2. Removing(c, MetricKinds)' => Removing(c, MetricKinds)
    BY DEF Removing
  <2>3. Removing(c, MetricKinds) => (x \in Marked(c)' <=> x \in Marked(c))
    BY NamedParents, NamedMarks DEF TelemetryInv, Removing, Marked, MetricKinds, Named
  <2> QED
    BY <2>1, <2>2, <2>3, OverlapGrows DEF StepsFollow
<1>3. \A r \in Runs : Evaluated(r)'
  BY OverlapGrows DEF TelemetryInv, Evaluated, Cleaning
<1>4. \A c \in Cleaners, r \in Runs : ResultsFollow(c, r)'
  <2> SUFFICES ASSUME NEW c \in Cleaners, NEW r \in Runs
               PROVE  ResultsFollow(c, r)'
    OBVIOUS
  <2>1. ResultsFollow(c, r)
    BY DEF TelemetryInv
  <2>2. Removing(c, {"evaluation"})' => Removing(c, {"evaluation"})
    BY DEF Removing
  <2>3. Removing(c, {"evaluation"}) => (r \in Marked(c)' <=> r \in Marked(c))
    BY NamedParents, NamedMarks DEF TelemetryInv, Removing, Marked
  <2> QED
    BY <2>1, <2>2, <2>3, OverlapGrows DEF ResultsFollow
<1> QED
  BY <1>1, <1>2, <1>3, <1>4 DEF TelemetryInv

\* An evaluation moves: nothing is deleting its rows, or it is set aside.
LEMMA EvaluationMoves ==
  ASSUME TelemetryInv, Tracked, NEW r \in Runs, TelemetryShape', Evaluated(r)',
         \A x \in Runs \ {r} :
           /\ evaluation'[x] = evaluation[x] /\ runRow'[x] = runRow[x]
           /\ KeptOf(result', x) = KeptOf(result, x),
         UNCHANGED <<analysis, history, metric, stepped, cleaner>>,
         "running" \in {evaluation[r].at, evaluation'[r].at}
  PROVE  TelemetryInv'
<1>1. \A w \in Workflows : Recorded(w)'
  BY OverlapGrows DEF TelemetryInv, Recorded, Cleaning
<1>2. \A c \in Cleaners, w \in Workflows : StepsFollow(c, w)'
  <2> SUFFICES ASSUME NEW c \in Cleaners, NEW w \in Workflows
               PROVE  StepsFollow(c, w)'
    OBVIOUS
  <2>1. StepsFollow(c, w)
    BY DEF TelemetryInv
  <2>2. Removing(c, MetricKinds)' => Removing(c, MetricKinds)
    BY DEF Removing
  <2>3. Removing(c, MetricKinds) => (w \in Marked(c)' <=> w \in Marked(c))
    BY NamedParents, NamedMarks DEF TelemetryInv, Removing, Marked, MetricKinds
  <2> QED
    BY <2>1, <2>2, <2>3, OverlapGrows DEF StepsFollow
<1>3. \A x \in Runs \ {r} : Evaluated(x)'
  <2> SUFFICES ASSUME NEW x \in Runs \ {r}
               PROVE  Evaluated(x)'
    OBVIOUS
  <2>1. Evaluated(x)
    BY DEF TelemetryInv
  <2>2. Summed(runRow[x], result, x) => Summed(runRow[x], result', x)
    BY DEF Summed
  <2> QED
    BY <2>1, <2>2, OverlapGrows DEF Evaluated
<1>4. \A c \in Cleaners, x \in Runs \ {r} : ResultsFollow(c, x)'
  <2> SUFFICES ASSUME NEW c \in Cleaners, NEW x \in Runs \ {r}
               PROVE  ResultsFollow(c, x)'
    OBVIOUS
  <2>1. ResultsFollow(c, x)
    BY DEF TelemetryInv
  <2>2. Removing(c, {"evaluation"})' => Removing(c, {"evaluation"})
    BY DEF Removing
  <2>3. Removing(c, {"evaluation"}) => (x \in Marked(c)' <=> x \in Marked(c))
    BY NamedParents, NamedMarks DEF TelemetryInv, Removing, Marked
  <2> QED
    BY <2>1, <2>2, <2>3, OverlapGrows DEF ResultsFollow
<1>5. \A c \in Cleaners : ResultsFollow(c, r)'
  <2>1. r \notin overlapped' => \A c \in Cleaners : ~Cleaning(c, {"evaluation"})'
    BY OverlapGrows DEF Cleaning
  <2>2. \A c \in Cleaners : Removing(c, {"evaluation"})' => Cleaning(c, {"evaluation"})'
    BY DEF Removing, Cleaning
  <2> QED
    BY <2>1, <2>2 DEF ResultsFollow
<1> QED
  BY <1>1, <1>2, <1>3, <1>4, <1>5 DEF TelemetryInv

\* A deletion moves and has removed nothing yet.
LEMMA CleanerMoves ==
  ASSUME TelemetryInv, Tracked, NEW c \in Cleaners, NEW n \in CleanerShape,
         cleaner' = [cleaner EXCEPT ![c] = n],
         UNCHANGED <<analysis, history, metric, stepped, evaluation, runRow, result>>,
         \A w \in Workflows : StepsFollow(c, w)', \A r \in Runs : ResultsFollow(c, r)'
  PROVE  TelemetryInv'
<1>1. TelemetryShape'
  BY OverlapTyped DEF TelemetryInv, TelemetryShape, Tracked
<1>2. \A d \in Cleaners \ {c} : cleaner'[d] = cleaner[d]
  BY DEF TelemetryInv, TelemetryShape
<1>3. \A w \in Workflows : Recorded(w)'
  BY OverlapGrows DEF TelemetryInv, Recorded
<1>4. \A r \in Runs : Evaluated(r)'
  BY OverlapGrows DEF TelemetryInv, Evaluated
<1>5. \A d \in Cleaners \ {c} : Marked(d)' = Marked(d)
  <2> SUFFICES ASSUME NEW d \in Cleaners \ {c}
               PROVE  Marked(d)' = Marked(d)
    OBVIOUS
  <2>1. PICK filter : filter = cleaner[d].filter
    OBVIOUS
  <2>2. Observed!Parents(filter)' = Observed!Parents(filter)
    BY DEF Observed!Parents
  <2> QED
    BY <1>2, <2>1, <2>2 DEF Marked
<1>6. \A d \in Cleaners \ {c}, w \in Workflows : StepsFollow(d, w)'
  BY <1>2, <1>5, OverlapGrows DEF TelemetryInv, StepsFollow, Removing
<1>7. \A d \in Cleaners \ {c}, r \in Runs : ResultsFollow(d, r)'
  BY <1>2, <1>5, OverlapGrows, ZenonT(60) DEF TelemetryInv, ResultsFollow, Removing
<1> QED
  BY <1>1, <1>3, <1>4, <1>6, <1>7 DEF TelemetryInv

\* A request of an analysis writes its rows; it writes a metric or its steps only on its
\* way from the one to the other.
LEMMA AnalysisWrites ==
  ASSUME TelemetryInv, Tracked, NEW w \in Workflows, NEW a \in AnalysisShape,
         NEW h \in Observed!HistoryRow \cup {Observed!NoRow},
         NEW m \in Observed!MetricRow \cup {Observed!NoRow},
         analysis' = [analysis EXCEPT ![w] = a], history' = [history EXCEPT ![w] = h],
         metric' = [metric EXCEPT ![w] = m], stepped' \in {stepped, stepped \cup {w}},
         UNCHANGED <<evaluation, runRow, result, cleaner>>,
         analysis[w].at = "recorded" => a.at = "recorded",
         w \in stepped' => a.at = "recorded",
         m.exists => a.at \in {"metric", "recorded", "lost"},
         m.exists /\ m.application => h.exists,
         w \notin overlapped =>
           /\ a.at = "metric" => m.exists
           /\ w \in stepped' => m.exists
           /\ a.at = "recorded" /\ m.exists => w \in stepped',
         \/ "metric" \in {analysis[w].at, a.at}
         \/ /\ m.exists = metric[w].exists /\ (m.exists => m.outcome = metric[w].outcome)
            /\ w \in stepped' => w \in stepped
  PROVE  TelemetryInv'
<1>1. /\ analysis'[w] = a /\ history'[w] = h /\ metric'[w] = m
      /\ \A x \in Workflows \ {w} :
           /\ analysis'[x] = analysis[x] /\ history'[x] = history[x]
           /\ metric'[x] = metric[x] /\ (x \in stepped' <=> x \in stepped)
  BY DEF TelemetryInv, TelemetryShape
<1>2. TelemetryShape'
  BY OverlapTyped DEF TelemetryInv, TelemetryShape, Tracked
<1>3. Recorded(w)'
  BY <1>1, OverlapGrows DEF Recorded
<1>4. \A c \in Cleaners : StepsFollow(c, w)'
  <2> SUFFICES ASSUME NEW c \in Cleaners
               PROVE  StepsFollow(c, w)'
    OBVIOUS
  <2>1. StepsFollow(c, w) /\ cleaner'[c] = cleaner[c]
    BY DEF TelemetryInv
  <2>2. Removing(c, MetricKinds)' <=> Removing(c, MetricKinds)
    BY DEF Removing
  <2>3. Removing(c, MetricKinds)' /\ w \in cleaner'[c].children => analysis'[w].at = "recorded"
    BY <1>1, <2>1, <2>2 DEF StepsFollow
  <2>4. CASE "metric" \in {analysis[w].at, a.at}
    <3>1. w \notin overlapped' => ~Cleaning(c, MetricKinds)
      BY <1>1, <2>4, OverlapGrows DEF Cleaning
    <3>2. Removing(c, MetricKinds) => Cleaning(c, MetricKinds)
      BY DEF Removing, Cleaning
    <3> QED
      BY <2>2, <2>3, <3>1, <3>2 DEF StepsFollow
  <2>5. CASE /\ m.exists = metric[w].exists /\ (m.exists => m.outcome = metric[w].outcome)
             /\ w \in stepped' => w \in stepped
    <3>1. Removing(c, MetricKinds) => (w \in Marked(c)' <=> w \in Marked(c))
      BY <1>1, <2>5, NamedParents, NamedMarks
         DEF TelemetryInv, Removing, Marked, MetricKinds, Named
    <3> QED
      BY <1>1, <2>1, <2>2, <2>3, <2>5, <3>1, OverlapGrows DEF StepsFollow
  <2> QED
    BY <2>4, <2>5
<1> QED
  BY <1>1, <1>2, <1>3, <1>4, AnalysisMoves

LEMMA RowsOfAnalysis ==
  ASSUME TelemetryInv, NEW w \in Workflows
  PROVE  /\ analysis[w] \in AnalysisShape
         /\ history[w] \in Observed!HistoryRow \cup {Observed!NoRow}
         /\ metric[w] \in Observed!MetricRow \cup {Observed!NoRow}
         /\ history[w].exists => history[w] \in Observed!HistoryRow
         /\ metric[w].exists => metric[w] \in Observed!MetricRow
         /\ analysis = [analysis EXCEPT ![w] = analysis[w]]
         /\ history = [history EXCEPT ![w] = history[w]]
         /\ metric = [metric EXCEPT ![w] = metric[w]]
         /\ Recorded(w)
BY DEF TelemetryInv, TelemetryShape, Observed!NoRow

LEMMA SaveHistoryKeeps ==
  ASSUME TelemetryInv, Tracked, NEW w \in Workflows, NEW steps \in {"partial", "final"},
         Observed!SaveHistory(w, steps), UNCHANGED <<evaluation, runRow, result, cleaner>>
  PROVE  TelemetryInv'
<1>1. PICK at : at = IF steps = "final" THEN "answered" ELSE "saved"
  OBVIOUS
<1>2. PICK a : a = [at |-> at, saved |-> TRUE]
  OBVIOUS
<1>3. PICK true \in BOOLEAN : true = TRUE
  OBVIOUS
<1>4. PICK h : h = [exists |-> true, steps |-> steps, decision |-> "pending", outcome |-> true]
  OBVIOUS
<1>5. /\ a \in AnalysisShape /\ a.at \in {"answered", "saved"}
      /\ h \in Observed!HistoryRow /\ h.exists
  BY <1>1, <1>2, <1>3, <1>4 DEF AnalysisShape, Observed!HistoryRow
<1>6. /\ analysis' = [analysis EXCEPT ![w] = a] /\ history' = [history EXCEPT ![w] = h]
      /\ UNCHANGED <<metric, stepped>> /\ analysis[w].at = "idle"
  BY <1>1, <1>2, <1>3, <1>4 DEF Observed!SaveHistory, Observed!At
<1>7. PICK m : m = metric[w] /\ metric' = [metric EXCEPT ![w] = m]
  BY <1>6, RowsOfAnalysis
<1>8. ~m.exists /\ w \notin stepped /\ m \in Observed!MetricRow \cup {Observed!NoRow}
  BY <1>6, <1>7, RowsOfAnalysis DEF Recorded
<1> QED
  BY <1>5, <1>6, <1>7, <1>8, AnalysisWrites

\* Steps that only take the request further
LEMMA RequestKeeps ==
  ASSUME TelemetryInv, Tracked, NEW w \in Workflows, UNCHANGED <<evaluation, runRow, result, cleaner>>,
         Observed!NotSaved(w) \/ Observed!FinalResultFails(w) \/ Observed!Lose(w)
         \/ Observed!RecordSteps(w)
  PROVE  TelemetryInv'
<1>1. PICK at \in {"answered", "lost", "recorded"} :
        /\ analysis' = [analysis EXCEPT ![w].at = at] /\ UNCHANGED <<history, metric>>
        /\ analysis[w].at \in {"idle", "saved", "answered", "metric"}
        /\ at = "answered" => analysis[w].at \in {"idle", "saved"}
        /\ at = "recorded" => analysis[w].at = "metric" /\ stepped' = stepped \cup {w}
        /\ at # "recorded" => stepped' = stepped
  BY DEF Observed!NotSaved, Observed!FinalResultFails, Observed!Lose, Observed!RecordSteps,
     Observed!Reaches, Observed!At
<1>2. PICK a : a = [analysis[w] EXCEPT !.at = at]
  OBVIOUS
<1>3. a \in AnalysisShape /\ a.at = at /\ analysis' = [analysis EXCEPT ![w] = a]
  BY <1>1, <1>2, RowsOfAnalysis DEF AnalysisShape
<1>4. PICK h : h = history[w] /\ history' = [history EXCEPT ![w] = h]
  BY <1>1, RowsOfAnalysis
<1>5. PICK m : m = metric[w] /\ metric' = [metric EXCEPT ![w] = m]
  BY <1>1, RowsOfAnalysis
<1>6. /\ h \in Observed!HistoryRow \cup {Observed!NoRow}
      /\ m \in Observed!MetricRow \cup {Observed!NoRow}
      /\ w \in stepped' => at = "recorded"
      /\ m.exists => at \in {"recorded", "lost"}
      /\ m.exists /\ m.application => h.exists
      /\ w \notin overlapped /\ at = "recorded" => w \in stepped' /\ m.exists
      /\ a.at # "metric"
  BY <1>1, <1>3, <1>4, <1>5, RowsOfAnalysis DEF Recorded
<1>7. \/ "metric" \in {analysis[w].at, a.at}
      \/ /\ m.exists = metric[w].exists /\ (m.exists => m.outcome = metric[w].outcome)
         /\ w \in stepped' => w \in stepped
  <2>1. CASE at = "recorded"
    BY <1>1, <2>1
  <2>2. CASE at # "recorded"
    BY <1>1, <1>5, <2>2, Zenon
  <2> QED
    BY <2>1, <2>2
<1>8. /\ stepped' \in {stepped, stepped \cup {w}} /\ analysis[w].at # "recorded"
      /\ w \in stepped' => a.at = "recorded"
      /\ m.exists => a.at \in {"metric", "recorded", "lost"}
      /\ w \notin overlapped =>
           /\ a.at = "metric" => m.exists
           /\ w \in stepped' => m.exists
           /\ a.at = "recorded" /\ m.exists => w \in stepped'
  BY <1>1, <1>3, <1>6
<1> QED
  BY <1>3, <1>4, <1>5, <1>6, <1>7, <1>8, AnalysisWrites

LEMMA RecordMetricKeeps ==
  ASSUME TelemetryInv, Tracked, NEW w \in Workflows, NEW outcome \in Outcomes,
         Observed!RecordMetric(w, outcome), UNCHANGED <<evaluation, runRow, result, cleaner>>
  PROVE  TelemetryInv'
<1>1. PICK a : a = [analysis[w] EXCEPT !.at = "metric"]
  OBVIOUS
<1>2. /\ a \in AnalysisShape /\ a.at = "metric" /\ analysis' = [analysis EXCEPT ![w] = a]
      /\ analysis[w].at = "answered" /\ analysis[w].saved \in BOOLEAN
  BY <1>1, RowsOfAnalysis DEF AnalysisShape, Observed!RecordMetric, Observed!Reaches, Observed!At
<1>3. PICK true \in BOOLEAN : true = TRUE
  OBVIOUS
<1>4. PICK m : m = [exists |-> true, outcome |-> outcome, application |-> analysis[w].saved]
  OBVIOUS
<1>5. PICK h : h = history[w] /\ history' = [history EXCEPT ![w] = h]
  BY RowsOfAnalysis DEF Observed!RecordMetric
<1>6. /\ m \in Observed!MetricRow /\ m.exists /\ m.application = analysis[w].saved
      /\ metric' = [metric EXCEPT ![w] = m] /\ stepped' = stepped
      /\ m.application => h.exists
      /\ h \in Observed!HistoryRow \cup {Observed!NoRow}
  BY <1>2, <1>3, <1>4, <1>5, RowsOfAnalysis DEF Observed!MetricRow, Observed!RecordMetric
<1>7. w \notin stepped
  BY <1>2, RowsOfAnalysis DEF Recorded
<1> QED
  BY <1>2, <1>5, <1>6, <1>7, AnalysisWrites

\* Steps that write the History
LEMMA HistoryKeeps ==
  ASSUME TelemetryInv, Tracked, NEW w \in Workflows, UNCHANGED <<evaluation, runRow, result, cleaner>>,
         \/ Observed!CompleteHistory(w) \/ Observed!EditHistory(w) \/ Observed!DeleteHistory(w)
         \/ \E decision \in {"pending", "accepted"} : Observed!Decide(w, decision)
  PROVE  TelemetryInv'
<1>1. PICK a \in AnalysisShape :
        /\ analysis' = [analysis EXCEPT ![w] = a]
        /\ a.at = analysis[w].at \/ (a.at = "answered" /\ analysis[w].at = "saved")
  <2>1. CASE Observed!CompleteHistory(w)
    <3>1. PICK a : a = [analysis[w] EXCEPT !.at = "answered"]
      OBVIOUS
    <3>2. a \in AnalysisShape /\ a.at = "answered" /\ analysis' = [analysis EXCEPT ![w] = a]
          /\ analysis[w].at = "saved"
      BY <2>1, <3>1, RowsOfAnalysis
         DEF AnalysisShape, Observed!CompleteHistory, Observed!Reaches, Observed!At
    <3> QED
      BY <3>2
  <2>2. CASE ~Observed!CompleteHistory(w)
    <3>1. analysis' = analysis
      BY <2>2 DEF Observed!EditHistory, Observed!DeleteHistory, Observed!Decide
    <3>2. PICK a : a = analysis[w] /\ analysis' = [analysis EXCEPT ![w] = a]
      BY <3>1, RowsOfAnalysis
    <3>3. a \in AnalysisShape /\ a.at = analysis[w].at
      BY <3>2, RowsOfAnalysis
    <3> QED
      BY <3>2, <3>3, Zenon
  <2> QED
    BY <2>1, <2>2
<1>2. PICK h \in Observed!HistoryRow \cup {Observed!NoRow}, m \in Observed!MetricRow \cup {Observed!NoRow} :
        /\ history' = [history EXCEPT ![w] = h] /\ metric' = [metric EXCEPT ![w] = m]
        /\ m.exists = metric[w].exists /\ (m.exists => m.outcome = metric[w].outcome)
        /\ m.exists /\ m.application => h.exists
  <2>1. CASE Observed!DeleteHistory(w)
    <3>1. PICK h : h = Observed!NoRow
      OBVIOUS
    <3>2. history' = [history EXCEPT ![w] = h] /\ h \in Observed!HistoryRow \cup {Observed!NoRow}
      BY <2>1, <3>1 DEF Observed!DeleteHistory
    <3>3. CASE metric[w].exists
      <4>1. PICK false \in BOOLEAN : false = FALSE
        OBVIOUS
      <4>2. PICK m : m = [metric[w] EXCEPT !.application = false]
        OBVIOUS
      <4>3. metric[w] \in Observed!MetricRow
        BY <3>3, RowsOfAnalysis
      <4>4. /\ m \in Observed!MetricRow /\ ~m.application /\ m.exists
            /\ m.outcome = metric[w].outcome
        BY <3>3, <4>1, <4>2, <4>3 DEF Observed!MetricRow
      <4>5. metric' = [metric EXCEPT ![w] = m]
        BY <2>1, <3>3, <4>1, <4>2 DEF Observed!DeleteHistory
      <4> QED
        BY <3>2, <3>3, <4>4, <4>5
    <3>4. CASE ~metric[w].exists
      <4>1. metric' = metric
        BY <2>1, <3>4 DEF Observed!DeleteHistory
      <4> QED
        BY <3>2, <3>4, <4>1, RowsOfAnalysis
    <3> QED
      BY <3>3, <3>4
  <2>2. CASE ~Observed!DeleteHistory(w)
    <3>1. metric' = metric
      BY <2>2 DEF Observed!EditHistory, Observed!CompleteHistory, Observed!Decide
    <3>2. PICK h \in Observed!HistoryRow \cup {Observed!NoRow} :
            history' = [history EXCEPT ![w] = h] /\ h.exists = history[w].exists
      <4>1. CASE history' = history
        BY <4>1, RowsOfAnalysis
      <4>2. CASE history' # history
        <5>1. PICK old \in Observed!HistoryRow : old = history[w]
          BY <2>2, <4>2, RowsOfAnalysis DEF Observed!EditHistory, Observed!CompleteHistory, Observed!Decide
        <5>2. PICK false \in BOOLEAN : false = FALSE
          OBVIOUS
        <5>3. \A decision \in {"pending", "accepted"} :
                /\ [old EXCEPT !.steps = "final"] \in Observed!HistoryRow
                /\ [old EXCEPT !.decision = decision] \in Observed!HistoryRow
                /\ [old EXCEPT !.outcome = false] \in Observed!HistoryRow
          BY DEF Observed!HistoryRow
        <5>4. \A h \in Observed!HistoryRow : h.exists = TRUE
          BY DEF Observed!HistoryRow
        <5>5. CASE Observed!CompleteHistory(w)
          BY <4>2, <5>1, <5>3, <5>4, <5>5 DEF Observed!CompleteHistory
        <5>6. CASE Observed!EditHistory(w)
          BY <4>2, <5>1, <5>2, <5>3, <5>4, <5>6 DEF Observed!EditHistory
        <5>7. CASE \E decision \in {"pending", "accepted"} : Observed!Decide(w, decision)
          BY <4>2, <5>1, <5>3, <5>4, <5>7 DEF Observed!Decide
        <5> QED
          BY <2>2, <5>5, <5>6, <5>7
      <4> QED
        BY <4>1, <4>2
    <3> QED
      BY <3>1, <3>2, RowsOfAnalysis DEF Recorded
  <2> QED
    BY <2>1, <2>2
<1>3. stepped' = stepped
  BY DEF Observed!CompleteHistory, Observed!EditHistory, Observed!DeleteHistory, Observed!Decide
<1>4. /\ analysis[w].at = "recorded" => a.at = "recorded"
      /\ w \in stepped' => a.at = "recorded"
      /\ m.exists => a.at \in {"metric", "recorded", "lost"}
      /\ w \notin overlapped =>
           /\ a.at = "metric" => m.exists
           /\ w \in stepped' => m.exists
           /\ a.at = "recorded" /\ m.exists => w \in stepped'
  BY <1>1, <1>2, <1>3, RowsOfAnalysis DEF Recorded
<1> QED
  BY <1>1, <1>2, <1>3, <1>4, AnalysisWrites

LEMMA SuiteCardinality == \A S : Observed!Cardinality(S) = Cardinality(S)
BY DEF Observed!Cardinality, Cardinality

LEMMA SuiteCounts ==
  ASSUME NEW S \in SUBSET Cases
  PROVE  IsFiniteSet(S) /\ Observed!Cardinality(S) \in Nat
BY SuiteAssumption, SuiteCardinality, FS_Subset, FS_CardinalityType

LEMMA RowTyped ==
  ASSUME NEW state \in Observed!Finished \cup {"running"}, NEW verdict, NEW cases \in SUBSET Cases
  PROVE  /\ Observed!Row(state, verdict, cases) \in Observed!EvaluationRow
         /\ Observed!Row(state, verdict, cases).status = state
         /\ Observed!Row(state, verdict, cases).exists
<1>1. PICK passed \in Nat : passed = Observed!Cardinality({k \in cases : verdict[k] = "passed"})
  BY SuiteCounts
<1>2. PICK failed \in Nat : failed = Observed!Cardinality({k \in cases : verdict[k] = "failed"})
  BY SuiteCounts
<1>3. PICK errors \in Nat : errors = Observed!Cardinality({k \in cases : verdict[k] = "error"})
  BY SuiteCounts
<1>4. PICK all \in Nat : all = Observed!Cardinality(cases)
  BY SuiteCounts
<1>5. PICK true \in BOOLEAN : true = TRUE
  OBVIOUS
<1>6. Observed!Row(state, verdict, cases) =
        [exists |-> true, status |-> state, total |-> all, passed |-> passed,
         failed |-> failed, errors |-> errors]
  BY <1>1, <1>2, <1>3, <1>4, <1>5 DEF Observed!Row
<1>7. true \in {TRUE}
  BY <1>5
<1> QED
  BY <1>5, <1>6, <1>7 DEF Observed!EvaluationRow

LEMMA RowsOfRun ==
  ASSUME TelemetryInv, NEW r \in Runs
  PROVE  /\ evaluation[r] \in EvaluationShape
         /\ evaluation[r].at = "running" =>
              /\ evaluation[r].verdict \in [Cases -> Observed!Verdicts]
              /\ evaluation[r].left \subseteq Cases
         /\ runRow[r] \in Observed!EvaluationRow \cup {Observed!NoRow}
         /\ runRow[r].exists => runRow[r] \in Observed!EvaluationRow
         /\ Evaluated(r)
BY DEF TelemetryInv, TelemetryShape, EvaluationShape, Observed!Idle, Observed!NoRow

LEMMA StartRunKeeps ==
  ASSUME TelemetryInv, Tracked, NEW r \in Runs, NEW verdict \in [Cases -> Observed!Verdicts],
         Observed!StartRun(r, verdict), UNCHANGED <<analysis, history, metric, stepped, cleaner>>
  PROVE  TelemetryInv'
<1>1. PICK n : n = [at |-> "running", verdict |-> verdict, left |-> Cases]
  OBVIOUS
<1>2. PICK entry : entry = Observed!Row("running", verdict, {})
  OBVIOUS
<1>3. /\ evaluation' = [evaluation EXCEPT ![r] = n] /\ runRow' = [runRow EXCEPT ![r] = entry]
      /\ result' = result /\ evaluation[r].at = "idle"
  BY <1>1, <1>2 DEF Observed!StartRun, Observed!RunAt
<1>4. n \in EvaluationShape /\ n.at = "running" /\ n.verdict = verdict /\ n.left = Cases
  BY <1>1 DEF EvaluationShape
<1>5. entry \in Observed!EvaluationRow /\ entry.status = "running" /\ entry.exists
  BY <1>2, RowTyped
<1>6. TelemetryShape'
  BY <1>3, <1>4, <1>5, OverlapTyped DEF TelemetryInv, TelemetryShape, Tracked
<1>7. evaluation'[r] = n /\ runRow'[r] = entry /\ KeptOf(result', r) = {}
      /\ \A x \in Runs \ {r} : evaluation'[x] = evaluation[x] /\ runRow'[x] = runRow[x]
  BY <1>3, RowsOfRun DEF TelemetryInv, TelemetryShape, Evaluated
<1>8. Told(r, verdict, Cases \ Cases) = {}
  BY DEF Told
<1>9. r \notin overlapped' => \A c \in Cleaners : ~Cleaning(c, {"evaluation"})'
  BY <1>4, <1>7, OverlapGrows
<1>10. Evaluated(r)'
  BY <1>4, <1>5, <1>7, <1>8, <1>9 DEF Evaluated, Observed!Finished
<1> QED
  BY <1>3, <1>4, <1>6, <1>7, <1>10, EvaluationMoves

LEMMA InsertResultKeeps ==
  ASSUME TelemetryInv, Tracked, NEW r \in Runs, NEW k \in Cases,
         Observed!InsertResult(r, k), UNCHANGED <<analysis, history, metric, stepped, cleaner>>
  PROVE  TelemetryInv'
<1>1. PICK old : old = evaluation[r]
  OBVIOUS
<1>2. PICK n : n = [old EXCEPT !.left = old.left \ {k}]
  OBVIOUS
<1>3. PICK v : v = old.verdict[k]
  OBVIOUS
<1>4. /\ evaluation' = [evaluation EXCEPT ![r] = n] /\ runRow' = runRow
      /\ result' = result \cup {<<r, k, v>>} /\ old.at = "running" /\ k \in old.left
  BY <1>1, <1>2, <1>3 DEF Observed!InsertResult, Observed!RunAt
<1>5. /\ old \in [at : {"running"}, verdict : [Cases -> Observed!Verdicts], left : SUBSET Cases]
      /\ Evaluated(r)
  BY <1>1, <1>4, RowsOfRun DEF EvaluationShape, Observed!Idle
<1>6. /\ n \in [at : {"running"}, verdict : [Cases -> Observed!Verdicts], left : SUBSET Cases]
      /\ n.at = "running" /\ n.verdict = old.verdict /\ n.left = old.left \ {k}
      /\ v \in Observed!Verdicts
  BY <1>2, <1>3, <1>5
<1>7. n \in EvaluationShape
  BY <1>6, Zenon DEF EvaluationShape
<1>8. TelemetryShape'
  <2>1. <<r, k, v>> \in Observed!ResultRow
    BY <1>6 DEF Observed!ResultRow
  <2> QED
    BY <1>4, <1>7, <2>1, OverlapTyped DEF TelemetryInv, TelemetryShape, Tracked
<1>9. /\ evaluation'[r] = n /\ runRow'[r] = runRow[r]
      /\ KeptOf(result', r) = KeptOf(result, r) \cup {<<r, k, v>>}
      /\ \A x \in Runs \ {r} :
           /\ evaluation'[x] = evaluation[x] /\ runRow'[x] = runRow[x]
           /\ KeptOf(result', x) = KeptOf(result, x)
  <2>1. /\ evaluation'[r] = n /\ runRow'[r] = runRow[r]
        /\ \A x \in Runs \ {r} : evaluation'[x] = evaluation[x] /\ runRow'[x] = runRow[x]
    BY <1>4 DEF TelemetryInv, TelemetryShape
  <2>2. PICK results : results = result
    OBVIOUS
  <2>3. PICK more : more = results \cup {<<r, k, v>>}
    OBVIOUS
  <2>4. /\ KeptOf(more, r) = KeptOf(results, r) \cup {<<r, k, v>>}
        /\ \A x : x # r => KeptOf(more, x) = KeptOf(results, x)
    BY <2>3 DEF KeptOf
  <2>5. result' = more
    BY <1>4, <2>2, <2>3
  <2> QED
    BY <2>1, <2>2, <2>4, <2>5
<1>10. r \notin overlapped' => r \notin overlapped /\ \A c \in Cleaners : ~Cleaning(c, {"evaluation"})'
  BY <1>6, <1>9, OverlapGrows
<1>11. Told(r, n.verdict, Cases \ n.left) = Told(r, old.verdict, Cases \ old.left) \cup {<<r, k, v>>}
  BY <1>3, <1>4, <1>6 DEF Told
<1>12. Evaluated(r)'
  BY <1>1, <1>4, <1>5, <1>6, <1>9, <1>10, <1>11 DEF Evaluated, Observed!Finished
<1> QED
  BY <1>4, <1>6, <1>8, <1>9, <1>12, EvaluationMoves

LEMMA FinishRunKeeps ==
  ASSUME TelemetryInv, Tracked, NEW r \in Runs,
         Observed!FinishRun(r), UNCHANGED <<analysis, history, metric, stepped, cleaner>>
  PROVE  TelemetryInv'
<1>1. PICK n : n = [at |-> "done"]
  OBVIOUS
<1>2. PICK verdict : verdict = evaluation[r].verdict
  OBVIOUS
<1>3. PICK ending : ending = IF \A k \in Cases : verdict[k] = "passed" THEN "completed"
                             ELSE "completed_with_failures"
  OBVIOUS
<1>4. PICK entry : entry = IF runRow[r].exists THEN Observed!Row(ending, verdict, Cases) ELSE runRow[r]
  OBVIOUS
<1>5. /\ evaluation' = [evaluation EXCEPT ![r] = n] /\ result' = result
      /\ runRow' = [runRow EXCEPT ![r] = entry]
      /\ evaluation[r].at = "running" /\ evaluation[r].left = {}
  <2>1. runRow = [runRow EXCEPT ![r] = runRow[r]]
    BY DEF TelemetryInv, TelemetryShape
  <2>2. runRow' = IF runRow[r].exists
                  THEN [runRow EXCEPT ![r] = Observed!Row(ending, verdict, Cases)] ELSE runRow
    BY <1>2, <1>3 DEF Observed!FinishRun
  <2>3. runRow' = [runRow EXCEPT ![r] = entry]
    BY <1>4, <2>1, <2>2
  <2> QED
    BY <1>1, <2>3 DEF Observed!FinishRun, Observed!RunAt
<1>6. n \in EvaluationShape /\ n.at = "done" /\ verdict \in [Cases -> Observed!Verdicts]
  BY <1>1, <1>2, <1>5, RowsOfRun DEF EvaluationShape
<1>7. /\ Observed!Row(ending, verdict, Cases) \in Observed!EvaluationRow
      /\ entry \in Observed!EvaluationRow \cup {Observed!NoRow}
      /\ runRow[r].exists <=> entry.exists
  <2>1. ending \in Observed!Finished \cup {"running"}
    BY <1>3 DEF Observed!Finished
  <2> QED
    BY <1>4, <2>1, RowTyped, RowsOfRun
<1>8. TelemetryShape'
  BY <1>5, <1>6, <1>7, OverlapTyped DEF TelemetryInv, TelemetryShape, Tracked
<1>9. evaluation'[r] = n /\ runRow'[r] = entry
      /\ \A x \in Runs \ {r} : evaluation'[x] = evaluation[x] /\ runRow'[x] = runRow[x]
  BY <1>5 DEF TelemetryInv, TelemetryShape
<1>10. r \notin overlapped' => Summed(entry, result, r) /\ entry.exists
  <2> SUFFICES ASSUME r \notin overlapped'
               PROVE  Summed(entry, result, r) /\ entry.exists
    OBVIOUS
  <2>1. /\ runRow[r].exists
        /\ KeptOf(result, r) = Told(r, verdict, Cases \ evaluation[r].left)
    BY <1>2, <1>5, RowsOfRun, OverlapGrows DEF Evaluated
  <2>2. Cases \ evaluation[r].left = Cases
    BY <1>5
  <2>3. entry = Observed!Row(ending, verdict, Cases)
    BY <1>4, <2>1
  <2> QED
    BY <1>3, <1>6, <1>7, <2>1, <2>2, <2>3 DEF Summed
<1>11. Evaluated(r)'
  BY <1>5, <1>6, <1>9, <1>10 DEF Evaluated
<1> QED
  BY <1>5, <1>8, <1>9, <1>11, EvaluationMoves

LEMMA RunDiesKeeps ==
  ASSUME TelemetryInv, Tracked, NEW r \in Runs,
         Observed!RunDies(r), UNCHANGED <<analysis, history, metric, stepped, cleaner>>
  PROVE  TelemetryInv'
<1>1. PICK n : n = [at |-> "dead"]
  OBVIOUS
<1>2. /\ evaluation' = [evaluation EXCEPT ![r] = n] /\ result' = result /\ runRow' = runRow
      /\ evaluation[r].at = "running"
  BY <1>1 DEF Observed!RunDies, Observed!RunAt
<1>3. n \in EvaluationShape /\ n.at = "dead"
  BY <1>1 DEF EvaluationShape
<1>4. TelemetryShape'
  BY <1>2, <1>3, OverlapTyped DEF TelemetryInv, TelemetryShape, Tracked
<1>5. evaluation'[r] = n /\ \A x \in Runs \ {r} : evaluation'[x] = evaluation[x]
  BY <1>2 DEF TelemetryInv, TelemetryShape
<1>6. Evaluated(r)'
  BY <1>2, <1>3, <1>5, RowsOfRun, OverlapGrows DEF Evaluated
<1> QED
  BY <1>2, <1>4, <1>5, <1>6, EvaluationMoves

LEMMA CleanerIs ==
  ASSUME TelemetryInv, NEW c \in Cleaners
  PROVE  /\ cleaner[c] \in CleanerShape
         /\ cleaner[c].at # "idle" => cleaner[c].filter \in Observed!Filters
         /\ cleaner[c].at \in {"children", "parents"} => cleaner[c].children \subseteq ChildSet
         /\ cleaner[c].at = "parents" => cleaner[c].parents \subseteq Workflows \cup Runs
         /\ cleaner[c].at \in {"idle", "begun", "children", "parents"}
         /\ cleaner = [cleaner EXCEPT ![c] = cleaner[c]]
BY DEF TelemetryInv, TelemetryShape, CleanerShape, Observed!Idle

\* A deletion that has not found its rows yet, or no longer has them
LEMMA QuietCleaner ==
  ASSUME TelemetryInv, Tracked, NEW c \in Cleaners,
         UNCHANGED <<analysis, history, metric, stepped, evaluation, runRow, result>>,
         Observed!AbortDeletion(c)
         \/ \E filter \in Observed!Filters : Observed!BeginDeletion(c, filter)
  PROVE  TelemetryInv'
<1>1. PICK n \in CleanerShape :
        n.at \in {"idle", "begun"} /\ cleaner' = [cleaner EXCEPT ![c] = n]
  <2>1. CASE Observed!AbortDeletion(c)
    <3>1. PICK n : n = Observed!Idle
      OBVIOUS
    <3>2. n \in CleanerShape /\ n.at = "idle" /\ cleaner' = [cleaner EXCEPT ![c] = n]
      BY <2>1, <3>1 DEF Observed!AbortDeletion, Observed!Cleans, CleanerShape, Observed!Idle
    <3> QED
      BY <3>2
  <2>2. ASSUME NEW filter \in Observed!Filters, Observed!BeginDeletion(c, filter)
        PROVE  \E n \in CleanerShape :
                 n.at \in {"idle", "begun"} /\ cleaner' = [cleaner EXCEPT ![c] = n]
    <3>1. PICK n : n = [at |-> "begun", filter |-> filter]
      OBVIOUS
    <3>2. n \in CleanerShape /\ n.at = "begun" /\ cleaner' = [cleaner EXCEPT ![c] = n]
      BY <2>2, <3>1 DEF Observed!BeginDeletion, Observed!Cleans, CleanerShape
    <3> QED
      BY <3>2
  <2> QED
    BY <2>1, <2>2
<1>2. cleaner'[c] = n
  BY <1>1 DEF TelemetryInv, TelemetryShape
<1>3. \A kinds : ~Removing(c, kinds)'
  BY <1>1, <1>2 DEF Removing
<1>4. /\ \A w \in Workflows : StepsFollow(c, w)'
      /\ \A r \in Runs : ResultsFollow(c, r)'
  BY <1>3 DEF StepsFollow, ResultsFollow
<1> QED
  BY <1>1, <1>4, CleanerMoves

\* The children of the rows that a filter names
LEMMA NamedChildren ==
  ASSUME TelemetryInv, NEW filter \in Observed!Filters
  PROVE  /\ Observed!Children(filter) \subseteq ChildSet
         /\ filter.kind \in MetricKinds =>
              \A w \in Workflows :
                /\ w \in Observed!Children(filter) => w \in stepped
                /\ w \in stepped /\ w \in Observed!Parents(filter) => w \in Observed!Children(filter)
                /\ w \in Observed!Children(filter) /\ metric[w].exists =>
                     w \in Observed!Parents(filter)
         /\ filter.kind = "evaluation" =>
              Observed!Children(filter) = {x \in result : x[1] \in Observed!Parents(filter)}
<1>1. CASE filter.kind = "monitoring"
  <2>1. Observed!Children(filter) = stepped \cap Observed!Parents(filter)
    BY <1>1 DEF Observed!Children
  <2> QED
    BY <1>1, <2>1 DEF TelemetryInv, TelemetryShape, ChildSet
<1>2. CASE filter.kind = "trace"
  <2>1. Observed!Children(filter) = stepped \cap {filter.workflow}
    BY <1>2 DEF Observed!Children
  <2>2. Observed!Parents(filter) = {w \in {filter.workflow} : metric[w].exists}
    BY <1>2 DEF Observed!Parents
  <2> QED
    BY <1>2, <2>1, <2>2 DEF TelemetryInv, TelemetryShape, ChildSet
<1>3. CASE filter.kind = "evaluation"
  <2>1. Observed!Children(filter) = {x \in result : x[1] \in Observed!Parents(filter)}
    BY <1>3 DEF Observed!Children
  <2> QED
    BY <1>3, <2>1 DEF TelemetryInv, TelemetryShape, ChildSet, MetricKinds
<1>4. filter.kind \in {"monitoring", "trace", "evaluation"}
  BY DEF Observed!Filters
<1> QED
  BY <1>1, <1>2, <1>3, <1>4

LEMMA DeleteChildrenKeeps ==
  ASSUME TelemetryInv, Tracked, NEW c \in Cleaners,
         UNCHANGED <<analysis, history, metric, stepped, evaluation, runRow, result>>,
         Observed!DeleteChildren(c)
  PROVE  TelemetryInv'
<1>1. PICK filter \in Observed!Filters : filter = cleaner[c].filter
  BY CleanerIs DEF Observed!DeleteChildren
<1>2. PICK children \in SUBSET ChildSet : children = Observed!Children(filter)
  BY NamedChildren
<1>3. PICK n : n = [at |-> "children", filter |-> filter, children |-> children]
  OBVIOUS
<1>4. /\ n \in CleanerShape /\ n.at = "children" /\ n.filter = filter /\ n.children = children
      /\ cleaner' = [cleaner EXCEPT ![c] = n]
  BY <1>1, <1>2, <1>3 DEF Observed!DeleteChildren, Observed!Cleans, CleanerShape
<1>5. cleaner'[c] = n
  BY <1>4 DEF TelemetryInv, TelemetryShape
<1>6. Observed!Parents(filter)' = Observed!Parents(filter)
  BY DEF Observed!Parents
<1>7. Marked(c)' = Observed!Parents(filter)
  BY <1>4, <1>5, <1>6 DEF Marked
<1>8. ASSUME NEW w \in Workflows
      PROVE  StepsFollow(c, w)'
  <2>1. Removing(c, MetricKinds)' => filter.kind \in MetricKinds
    BY <1>4, <1>5 DEF Removing
  <2>2. w \in stepped => analysis[w].at = "recorded"
    BY RowsOfAnalysis DEF Recorded
  <2> QED
    BY <1>2, <1>4, <1>5, <1>7, <2>1, <2>2, NamedChildren DEF StepsFollow
<1>9. ASSUME NEW r \in Runs
      PROVE  ResultsFollow(c, r)'
  <2>1. Removing(c, {"evaluation"})' => filter.kind = "evaluation"
    BY <1>4, <1>5 DEF Removing
  <2>2. filter.kind = "evaluation" => children = {x \in result : x[1] \in Observed!Parents(filter)}
    BY <1>2, NamedChildren
  <2> QED
    BY <1>4, <1>5, <1>7, <2>1, <2>2 DEF ResultsFollow, KeptOf
<1> QED
  BY <1>4, <1>8, <1>9, CleanerMoves

LEMMA DeleteParentsKeeps ==
  ASSUME TelemetryInv, Tracked, NEW c \in Cleaners,
         UNCHANGED <<analysis, history, metric, stepped, evaluation, runRow, result>>,
         Observed!DeleteParents(c)
  PROVE  TelemetryInv'
<1>1. PICK filter \in Observed!Filters : filter = cleaner[c].filter
  BY CleanerIs DEF Observed!DeleteParents
<1>2. PICK children \in SUBSET ChildSet : children = cleaner[c].children
  BY CleanerIs DEF Observed!DeleteParents
<1>3. PICK parents \in SUBSET (Workflows \cup Runs) : parents = Observed!Parents(filter)
  BY NamedParents
<1>4. PICK n : n = [at |-> "parents", filter |-> filter, children |-> children, parents |-> parents]
  OBVIOUS
<1>5. /\ n \in CleanerShape /\ n.at = "parents" /\ n.filter = filter /\ n.children = children
      /\ n.parents = parents /\ cleaner' = [cleaner EXCEPT ![c] = n]
      /\ cleaner[c].at = "children"
  BY <1>1, <1>2, <1>3, <1>4 DEF Observed!DeleteParents, Observed!Cleans, CleanerShape
<1>6. cleaner'[c] = n
  BY <1>5 DEF TelemetryInv, TelemetryShape
<1>7. Marked(c) = parents /\ Marked(c)' = parents
  <2>1. Marked(c) = parents
    BY <1>1, <1>3, <1>5 DEF Marked
  <2>2. Marked(c)' = parents
    BY <1>5, <1>6 DEF Marked
  <2> QED
    BY <2>1, <2>2
<1>8. \A kinds : Removing(c, kinds)' => Removing(c, kinds)
  BY <1>1, <1>5, <1>6 DEF Removing
<1>9. \A w \in Workflows : StepsFollow(c, w)'
  BY <1>2, <1>5, <1>6, <1>7, <1>8, OverlapGrows DEF StepsFollow, TelemetryInv
<1>10. \A r \in Runs : ResultsFollow(c, r)'
  BY <1>2, <1>5, <1>6, <1>7, <1>8, OverlapGrows DEF ResultsFollow, TelemetryInv
<1> QED
  BY <1>5, <1>9, <1>10, CleanerMoves

\* A deletion of metrics commits.
LEMMA MetricsGo ==
  ASSUME TelemetryInv, Tracked, NEW c \in Cleaners, Observed!CommitDeletion(c),
         cleaner[c].filter.kind # "evaluation"
  PROVE  TelemetryInv'
<1>1. PICK parents : parents = cleaner[c].parents
  OBVIOUS
<1>2. PICK children : children = cleaner[c].children
  OBVIOUS
<1>3. /\ cleaner' = [cleaner EXCEPT ![c] = Observed!Idle]
      /\ metric' = [w \in Workflows |-> IF w \in parents THEN Observed!NoRow ELSE metric[w]]
      /\ stepped' = stepped \ children
      /\ UNCHANGED <<analysis, history, evaluation, runRow, result>>
      /\ cleaner[c].at = "parents"
  BY <1>1, <1>2 DEF Observed!CommitDeletion, Observed!runVars
<1>4. /\ Removing(c, MetricKinds) /\ Cleaning(c, MetricKinds)
      /\ \A w \in Workflows : StepsFollow(c, w) /\ (w \in Marked(c) <=> w \in parents)
  <2>1. cleaner[c].filter.kind \in MetricKinds
    BY <1>3, CleanerIs DEF MetricKinds, Observed!Filters
  <2> QED
    BY <1>1, <1>3, <2>1 DEF Removing, Cleaning, TelemetryInv, Marked
<1>5. TelemetryShape'
  <2>1. Observed!Idle \in CleanerShape
    BY DEF CleanerShape
  <2> QED
    BY <1>3, <2>1, OverlapTyped DEF TelemetryInv, TelemetryShape, Tracked
<1>6. /\ cleaner'[c] = Observed!Idle /\ cleaner'[c].at = "idle"
      /\ \A d \in Cleaners \ {c} : cleaner'[d] = cleaner[d]
  BY <1>3 DEF TelemetryInv, TelemetryShape, Observed!Idle
<1>7. \A w \in Workflows :
        /\ metric'[w].exists => metric[w].exists /\ metric'[w] = metric[w] /\ w \notin parents
        /\ metric[w].exists /\ w \notin parents => metric'[w].exists /\ metric'[w] = metric[w]
  BY <1>3 DEF Observed!NoRow
<1>8. ASSUME NEW w \in Workflows
      PROVE  Recorded(w)'
  <2>1. Recorded(w) /\ StepsFollow(c, w)
    BY <1>4, RowsOfAnalysis
  <2>2. w \notin overlapped' => w \notin overlapped /\ analysis[w].at # "metric"
    BY <1>4, OverlapGrows
  <2>3. w \notin overlapped' /\ w \in stepped' => metric'[w].exists
    BY <1>2, <1>3, <1>4, <1>7, <2>1, <2>2 DEF Recorded, StepsFollow
  <2>4. w \notin overlapped' /\ analysis[w].at = "recorded" /\ metric'[w].exists => w \in stepped'
    BY <1>2, <1>3, <1>4, <1>7, <2>1, <2>2 DEF Recorded, StepsFollow
  <2> QED
    BY <1>3, <1>7, <2>1, <2>2, <2>3, <2>4 DEF Recorded
<1>9. ASSUME NEW d \in Cleaners, NEW w \in Workflows
      PROVE  StepsFollow(d, w)'
  <2>1. CASE d = c
    BY <1>6, <2>1 DEF StepsFollow, Removing
  <2>2. CASE d # c
    <3>1. cleaner'[d] = cleaner[d] /\ StepsFollow(d, w)
      BY <1>6, <2>2 DEF TelemetryInv
    <3>2. Removing(d, MetricKinds)' => Removing(d, MetricKinds)
      BY <3>1 DEF Removing
    <3>3. Removing(d, MetricKinds) => (w \in Marked(d)' => w \in Marked(d))
      BY <1>7, <3>1, NamedParents, NamedMarks
         DEF TelemetryInv, Removing, Marked, MetricKinds, Named
    <3>4. Removing(d, MetricKinds) /\ metric'[w].exists => (w \in Marked(d) => w \in Marked(d)')
      BY <1>7, <3>1, NamedParents, NamedMarks
         DEF TelemetryInv, Removing, Marked, MetricKinds, Named
    <3> QED
      BY <1>3, <1>7, <3>1, <3>2, <3>3, <3>4, OverlapGrows DEF StepsFollow
  <2> QED
    BY <2>1, <2>2
<1>10. \A r \in Runs : Evaluated(r)'
  BY <1>3, OverlapGrows DEF TelemetryInv, Evaluated
<1>11. ASSUME NEW d \in Cleaners, NEW r \in Runs
       PROVE  ResultsFollow(d, r)'
  <2>1. CASE d = c
    BY <1>6, <2>1 DEF ResultsFollow, Removing
  <2>2. CASE d # c
    <3>1. cleaner'[d] = cleaner[d] /\ ResultsFollow(d, r)
      BY <1>6, <2>2 DEF TelemetryInv
    <3>2. Removing(d, {"evaluation"})' => Removing(d, {"evaluation"})
      BY <3>1 DEF Removing
    <3>3. Removing(d, {"evaluation"}) => (r \in Marked(d)' <=> r \in Marked(d))
      BY <1>3, <3>1, NamedParents, NamedMarks DEF TelemetryInv, Removing, Marked
    <3> QED
      BY <1>3, <3>1, <3>2, <3>3, OverlapGrows DEF ResultsFollow
  <2> QED
    BY <2>1, <2>2
<1> QED
  BY <1>5, <1>8, <1>9, <1>10, <1>11 DEF TelemetryInv

\* A deletion of evaluation runs commits.
LEMMA RunsGo ==
  ASSUME TelemetryInv, Tracked, NEW c \in Cleaners, Observed!CommitDeletion(c),
         cleaner[c].filter.kind = "evaluation"
  PROVE  TelemetryInv'
<1>1. PICK parents : parents = cleaner[c].parents
  OBVIOUS
<1>2. PICK children : children = cleaner[c].children
  OBVIOUS
<1>3. /\ cleaner' = [cleaner EXCEPT ![c] = Observed!Idle]
      /\ runRow' = [r \in Runs |-> IF r \in parents THEN Observed!NoRow ELSE runRow[r]]
      /\ result' = result \ children
      /\ UNCHANGED <<analysis, history, metric, stepped, evaluation>>
      /\ cleaner[c].at = "parents"
  BY <1>1, <1>2 DEF Observed!CommitDeletion, Observed!historyVars
<1>4. /\ Removing(c, {"evaluation"}) /\ Cleaning(c, {"evaluation"})
      /\ \A r \in Runs : ResultsFollow(c, r) /\ (r \in Marked(c) <=> r \in parents)
  BY <1>1, <1>3 DEF Removing, Cleaning, TelemetryInv, Marked
<1>5. TelemetryShape'
  <2>1. Observed!Idle \in CleanerShape
    BY DEF CleanerShape
  <2> QED
    BY <1>3, <2>1, OverlapTyped DEF TelemetryInv, TelemetryShape, Tracked
<1>6. /\ cleaner'[c] = Observed!Idle /\ cleaner'[c].at = "idle"
      /\ \A d \in Cleaners \ {c} : cleaner'[d] = cleaner[d]
  BY <1>3 DEF TelemetryInv, TelemetryShape, Observed!Idle
<1>7. \A r \in Runs :
        /\ runRow'[r].exists => runRow[r].exists /\ runRow'[r] = runRow[r] /\ r \notin parents
        /\ runRow[r].exists /\ r \notin parents => runRow'[r].exists /\ runRow'[r] = runRow[r]
  BY <1>3 DEF Observed!NoRow
<1>8. \A r : KeptOf(result', r) \subseteq KeptOf(result, r)
  BY <1>3 DEF KeptOf
<1>9. ASSUME NEW r \in Runs
      PROVE  Evaluated(r)'
  <2>1. Evaluated(r) /\ ResultsFollow(c, r)
    BY <1>4, RowsOfRun
  <2>2. r \notin overlapped' => r \notin overlapped /\ evaluation[r].at # "running"
    BY <1>4, OverlapGrows
  <2>3. r \notin overlapped' /\ r \in parents => KeptOf(result', r) = {}
    BY <1>2, <1>3, <1>4, <2>1, <2>2 DEF ResultsFollow, KeptOf
  <2>4. r \notin overlapped' /\ r \notin parents => KeptOf(result', r) = KeptOf(result, r)
    BY <1>2, <1>3, <1>4, <2>1, <2>2 DEF ResultsFollow, Evaluated, KeptOf
  <2>5. r \notin overlapped' /\ KeptOf(result', r) # {} => runRow'[r].exists
    BY <1>7, <2>1, <2>2, <2>3, <2>4 DEF Evaluated
  <2>6. r \notin overlapped' /\ runRow'[r].exists /\ runRow'[r].status \in Observed!Finished =>
          Summed(runRow'[r], result', r)
    BY <1>7, <2>1, <2>2, <2>4 DEF Evaluated, Summed
  <2> QED
    BY <1>3, <1>7, <1>8, <2>1, <2>2, <2>5, <2>6 DEF Evaluated
<1>10. ASSUME NEW d \in Cleaners, NEW r \in Runs
       PROVE  ResultsFollow(d, r)'
  <2>1. CASE d = c
    BY <1>6, <2>1 DEF ResultsFollow, Removing
  <2>2. CASE d # c
    <3>1. cleaner'[d] = cleaner[d] /\ ResultsFollow(d, r)
      BY <1>6, <2>2 DEF TelemetryInv
    <3>2. Removing(d, {"evaluation"})' => Removing(d, {"evaluation"})
      BY <3>1 DEF Removing
    <3>3. Removing(d, {"evaluation"}) => (r \in Marked(d)' => r \in Marked(d))
      BY <1>7, <3>1, NamedParents, NamedMarks DEF TelemetryInv, Removing, Marked
    <3>4. Removing(d, {"evaluation"}) /\ runRow'[r].exists => (r \in Marked(d) => r \in Marked(d)')
      BY <1>7, <3>1, NamedParents, NamedMarks DEF TelemetryInv, Removing, Marked
    <3> QED
      BY <1>7, <1>8, <3>1, <3>2, <3>3, <3>4, OverlapGrows DEF ResultsFollow
  <2> QED
    BY <2>1, <2>2
<1>11. \A w \in Workflows : Recorded(w)'
  BY <1>3, OverlapGrows DEF TelemetryInv, Recorded
<1>12. ASSUME NEW d \in Cleaners, NEW w \in Workflows
       PROVE  StepsFollow(d, w)'
  <2>1. CASE d = c
    BY <1>6, <2>1 DEF StepsFollow, Removing
  <2>2. CASE d # c
    <3>1. cleaner'[d] = cleaner[d] /\ StepsFollow(d, w)
      BY <1>6, <2>2 DEF TelemetryInv
    <3>2. Removing(d, MetricKinds)' => Removing(d, MetricKinds)
      BY <3>1 DEF Removing
    <3>3. Removing(d, MetricKinds) => (w \in Marked(d)' <=> w \in Marked(d))
      BY <1>3, <3>1, NamedParents, NamedMarks DEF TelemetryInv, Removing, Marked, MetricKinds
    <3> QED
      BY <1>3, <3>1, <3>2, <3>3, OverlapGrows DEF StepsFollow
  <2> QED
    BY <2>1, <2>2
<1> QED
  BY <1>5, <1>9, <1>10, <1>11, <1>12 DEF TelemetryInv

\* A finished run counts the results it has.
LEMMA SummedCounts ==
  ASSUME NEW r, NEW verdict \in [Cases -> Observed!Verdicts], NEW kept,
         kept = Told(r, verdict, Cases), NEW v
  PROVE  Observed!Cardinality({x \in kept : x[3] = v}) =
           Observed!Cardinality({k \in Cases : verdict[k] = v})
<1>1. PICK S : S = {k \in Cases : verdict[k] = v}
  OBVIOUS
<1>2. PICK T : T = {x \in kept : x[3] = v}
  OBVIOUS
<1>3. T = {<<r, k, v>> : k \in S}
  BY <1>1, <1>2 DEF Told
<1>4. PICK f : f = [k \in S |-> <<r, k, v>>]
  OBVIOUS
<1>5. f \in Bijection(S, T)
  <2>1. f \in [S -> T] /\ \A a, b \in S : f[a] = f[b] => a = b
    BY <1>3, <1>4
  <2>2. \A x \in T : \E k \in S : f[k] = x
    BY <1>3, <1>4
  <2> QED
    BY <2>1, <2>2 DEF Bijection, Injection, Surjection, IsInjective
<1>6. IsFiniteSet(S)
  BY <1>1, SuiteCounts
<1>7. Cardinality(T) = Cardinality(S)
  BY <1>5, <1>6, FS_Bijection DEF ExistsBijection
<1> QED
  BY <1>1, <1>2, <1>7, SuiteCardinality

LEMMA SummedIsTold ==
  ASSUME NEW r \in Runs, Summed(runRow[r], result, r)
  PROVE  LET kept == {x \in result : x[1] = r}
             Of(v) == Observed!Cardinality({x \in kept : x[3] = v})
         IN /\ runRow[r].total = Observed!Cardinality(Cases) /\ {x[2] : x \in kept} = Cases
            /\ runRow[r].passed = Of("passed") /\ runRow[r].failed = Of("failed")
            /\ runRow[r].errors = Of("error")
            /\ runRow[r].status = "completed" <=> runRow[r].passed = runRow[r].total
<1>1. PICK kept : kept = {x \in result : x[1] = r}
  OBVIOUS
<1>2. PICK verdict \in [Cases -> Observed!Verdicts] :
        /\ kept = Told(r, verdict, Cases)
        /\ runRow[r] = Observed!Row(IF \A k \in Cases : verdict[k] = "passed" THEN "completed"
                                    ELSE "completed_with_failures", verdict, Cases)
  BY <1>1 DEF Summed, KeptOf
<1>3. PICK entry : entry = runRow[r]
  OBVIOUS
<1>4. PICK passed : passed = {k \in Cases : verdict[k] = "passed"}
  OBVIOUS
<1>5. /\ entry.total = Observed!Cardinality(Cases)
      /\ entry.passed = Observed!Cardinality(passed)
      /\ entry.failed = Observed!Cardinality({k \in Cases : verdict[k] = "failed"})
      /\ entry.errors = Observed!Cardinality({k \in Cases : verdict[k] = "error"})
      /\ entry.status = IF \A k \in Cases : verdict[k] = "passed" THEN "completed"
                        ELSE "completed_with_failures"
  BY <1>2, <1>3, <1>4 DEF Observed!Row
<1>6. {x[2] : x \in kept} = Cases
  <2>1. \A k \in Cases : <<r, k, verdict[k]>> \in kept
    BY <1>2 DEF Told
  <2>2. \A x \in kept : x[2] \in Cases
    BY <1>2 DEF Told
  <2>3. \A k \in Cases : \E x \in kept : x[2] = k
    BY <2>1
  <2> QED
    BY <2>2, <2>3
<1>7. \A v : Observed!Cardinality({x \in kept : x[3] = v}) =
               Observed!Cardinality({k \in Cases : verdict[k] = v})
  BY <1>2, SummedCounts
<1>8. entry.status = "completed" <=> entry.passed = entry.total
  <2>1. Cardinality(passed) = Cardinality(Cases) => passed = Cases
    BY <1>4, SuiteAssumption, FS_Subset
  <2>2. entry.status = "completed" <=> passed = Cases
    BY <1>4, <1>5
  <2> QED
    BY <1>5, <2>1, <2>2, SuiteCardinality
<1> QED
  BY <1>1, <1>3, <1>4, <1>5, <1>6, <1>7, <1>8, ZenonT(60)

LEMMA TelemetryBegins ==
  ASSUME Observed!Init
  PROVE  TelemetryInv
<1>1. /\ \A w \in Workflows : analysis[w].at = "idle" /\ ~metric[w].exists /\ w \notin stepped
      /\ \A r \in Runs : evaluation[r].at = "idle" /\ ~runRow[r].exists
      /\ result = {} /\ \A c \in Cleaners : cleaner[c].at = "idle"
  BY DEF Observed!Init, Observed!NoRow, Observed!Idle
<1>2. TelemetryShape
  BY DEF Observed!Init, TelemetryShape, AnalysisShape, EvaluationShape, CleanerShape
<1> QED
  BY <1>1, <1>2 DEF TelemetryInv, Recorded, StepsFollow, Evaluated, ResultsFollow, Removing, KeptOf

LEMMA TelemetryStays ==
  ASSUME TelemetryInv, UNCHANGED <<analysisVars, evaluationVars, deletionVars>>
  PROVE  TelemetryInv'
<1>1. UNCHANGED <<analysis, history, metric, stepped, evaluation, runRow, result, cleaner, overlapped>>
  BY DEF analysisVars, evaluationVars, deletionVars
<1>2. TelemetryShape'
  BY <1>1 DEF TelemetryInv, TelemetryShape
<1>3. \A c \in Cleaners : Marked(c)' = Marked(c)
  <2> SUFFICES ASSUME NEW c \in Cleaners
               PROVE  Marked(c)' = Marked(c)
    OBVIOUS
  <2>1. PICK filter : filter = cleaner[c].filter
    OBVIOUS
  <2>2. Observed!Parents(filter)' = Observed!Parents(filter)
    BY <1>1 DEF Observed!Parents
  <2> QED
    BY <1>1, <2>1, <2>2 DEF Marked
<1>4. \A w \in Workflows : Recorded(w)' /\ \A c \in Cleaners : StepsFollow(c, w)'
  BY <1>1, <1>3 DEF TelemetryInv, Recorded, StepsFollow, Removing, Cleaning
<1>5. \A r \in Runs : Evaluated(r)' /\ \A c \in Cleaners : ResultsFollow(c, r)'
  BY <1>1, <1>3 DEF TelemetryInv, Evaluated, ResultsFollow, Removing, Cleaning
<1> QED
  BY <1>2, <1>4, <1>5 DEF TelemetryInv

LEMMA TelemetrySteps ==
  ASSUME TelemetryInv, Observed!Next
  PROVE  TelemetryInv'
<1>1. Tracked
  BY DEF Observed!Next, Tracked
<1>2. CASE Observed!Analyses /\ UNCHANGED <<evaluation, runRow, result, cleaner>>
  BY <1>1, <1>2, SaveHistoryKeeps, RequestKeeps, RecordMetricKeeps, HistoryKeeps
     DEF Observed!Analyses
<1>3. CASE Observed!Evaluations /\ UNCHANGED <<analysis, history, metric, stepped, cleaner>>
  BY <1>1, <1>3, StartRunKeeps, InsertResultKeeps, FinishRunKeeps, RunDiesKeeps
     DEF Observed!Evaluations
<1>4. CASE Observed!Deletions
  <2>1. PICK c \in Cleaners :
          \/ \E filter \in Observed!Filters : Observed!BeginDeletion(c, filter)
          \/ Observed!DeleteChildren(c) \/ Observed!DeleteParents(c)
          \/ Observed!CommitDeletion(c) \/ Observed!AbortDeletion(c)
    BY <1>4 DEF Observed!Deletions
  <2>2. ~Observed!CommitDeletion(c) =>
          UNCHANGED <<analysis, history, metric, stepped, evaluation, runRow, result>>
    BY <2>1 DEF Observed!BeginDeletion, Observed!DeleteChildren, Observed!DeleteParents,
       Observed!AbortDeletion, Observed!Cleans, Observed!historyVars, Observed!runVars
  <2>3. CASE Observed!CommitDeletion(c)
    BY <1>1, <2>3, MetricsGo, RunsGo
  <2>4. CASE ~Observed!CommitDeletion(c)
    BY <1>1, <2>1, <2>2, <2>4, QuietCleaner, DeleteChildrenKeeps, DeleteParentsKeeps
  <2> QED
    BY <2>3, <2>4
<1> QED
  BY <1>2, <1>3, <1>4 DEF Observed!Next, Observed!runVars, Observed!historyVars

LEMMA TelemetryInvariant == OperationsSpec => [](part \in {"analyses", "evaluations"} => TelemetryInv)
<1> DEFINE Inv == part \in {"analyses", "evaluations"} => TelemetryInv
<1>1. OperationsInit => Inv
  BY TelemetryBegins DEF OperationsInit
<1>2. Inv /\ [OperationsNext]_operationsVars => Inv'
  <2> SUFFICES ASSUME Inv, [OperationsNext]_operationsVars
               PROVE  Inv'
    OBVIOUS
  <2>1. CASE TelemetryStep
    <3>1. part' = part /\ part \in {"analyses", "evaluations"} /\ Observed!Next
      BY <2>1 DEF TelemetryStep
    <3> QED
      BY <3>1, TelemetrySteps
  <2>2. CASE UNCHANGED operationsVars
    BY <2>2, TelemetryStays DEF operationsVars
  <2>3. CASE BackupStep \/ KnowledgeStep \/ DescriptionStep \/ AnswerStep \/ SpendingStep
             \/ AccessStep \/ GateStep
    BY <2>3, TelemetryStays DEF BackupStep, KnowledgeStep, DescriptionStep, AnswerStep,
       SpendingStep, AccessStep, GateStep
  <2> QED
    BY <2>1, <2>2, <2>3 DEF OperationsNext
<1> QED
  BY <1>1, <1>2, PTL DEF OperationsSpec

\* Whatever is lost, deleted or interrupted, metrics, steps, runs and results that no
\* deletion overlapped fit together (monitoring_service.py, evaluation_service.py,
\* data_management_service.py).
THEOREM TelemetryStaysWhole == OperationsSpec => []TelemetryWhole
<1>1. (part \in {"analyses", "evaluations"} => TelemetryInv) => TelemetryWhole
  <2> SUFFICES ASSUME TelemetryInv
               PROVE  Observed!TelemetryWhole
    BY DEF TelemetryWhole
  <2>1. \A w \in Workflows : Recorded(w)
    BY DEF TelemetryInv
  <2>2. \A r \in Runs : Evaluated(r)
    BY DEF TelemetryInv
  <2>3. /\ \A w \in Workflows \ overlapped :
             /\ w \in stepped => metric[w].exists
             /\ Observed!At(w, "recorded") /\ metric[w].exists => w \in stepped
        /\ \A w \in Workflows : metric[w].exists /\ metric[w].application => history[w].exists
    BY <2>1 DEF Recorded, Observed!At
  <2>4. \A r \in Runs \ overlapped :
          LET kept == {x \in result : x[1] = r}
              Of(v) == Observed!Cardinality({x \in kept : x[3] = v})
          IN /\ kept # {} => runRow[r].exists
             /\ runRow[r].exists /\ runRow[r].status \in Observed!Finished =>
                  /\ runRow[r].total = Observed!Cardinality(Cases) /\ {x[2] : x \in kept} = Cases
                  /\ runRow[r].passed = Of("passed") /\ runRow[r].failed = Of("failed")
                  /\ runRow[r].errors = Of("error")
                  /\ runRow[r].status = "completed" <=> runRow[r].passed = runRow[r].total
    BY <2>2, SummedIsTold DEF Evaluated, KeptOf
  <2> QED
    BY <2>3, <2>4 DEF Observed!TelemetryWhole
<1> QED
  BY <1>1, TelemetryInvariant, PTL

-----------------------------------------------------------------------------
(* The index of the Project Knowledge (KnowledgeIndex)                     *)
(*                                                                         *)
(* A rebuild that will commit has seen, of every document it replaces,     *)
(* either all of the chunks or none; two rebuilds under way never have a   *)
(* document in common that one of them has yet to remove.                  *)

ChunkRowShape == [document : Nat, index : Nat, content : Editions]
WriterShape ==
  [at : {"selected", "clearing", "writing"}, upload : BOOLEAN, search : BOOLEAN,
   content : Editions, document : Nat, ids : SUBSET Nat, seen : SUBSET ChunkRowShape]
ThreadShape ==
  {Knowledge!Idle} \cup [at : {"reading"}, upload : BOOLEAN, search : BOOLEAN]
  \cup [at : {"read"}, upload : BOOLEAN, search : BOOLEAN, content : Editions]
  \cup WriterShape
  \cup [at : {"status"}, upload : BOOLEAN]
  \cup [at : {"searching", "scanning"}, upload : BOOLEAN, document : Nat]

KnowledgeShape ==
  /\ drawn \in Nat /\ DOMAIN document \subseteq 1 .. drawn /\ chunk \subseteq ChunkRowShape
  /\ knowledgeFile \in Editions \cup {NoFile}
  /\ thread \in [Threads -> ThreadShape]

Pieces(d, c) == {[document |-> d, index |-> i, content |-> c] : i \in 0 .. Chunks[c] - 1}

Indexed ==
  /\ \A d \in DOMAIN document :
       \E c \in Editions :
         document[d] = Chunks[c] /\ Knowledge!ChunksOf(d) = Pieces(d, c)
  /\ \A x \in chunk : x.document \in DOMAIN document

Writes(t) == thread[t].at \in {"selected", "clearing", "writing"}

\* A rebuild saw all the chunks of a document, or none of those that are there now.
Sees(w, d) == Knowledge!ChunksOf(d) \subseteq w.seen \/ \A x \in w.seen : x.document # d

Ready(w, last) ==
  /\ w.ids \subseteq 1 .. last
  /\ w.ids # {} => w.document \in w.ids
  /\ w.ids = {} => /\ w.seen = {} /\ w.document \in 1 .. last
                   /\ w.document \notin DOMAIN document
  /\ \A x \in w.seen : x.document \in w.ids
  /\ w.at # "selected" => \A d \in w.ids \cap DOMAIN document : Sees(w, d)

Prepared(w) == Ready(w, drawn)

Apart(w, v) ==
  /\ w.at = "writing" /\ v.at = "writing" => w.ids \cap v.ids = {}
  /\ w.ids = {} => w.document \notin v.ids /\ (v.ids = {} => w.document # v.document)

OneContent(chunks) == \A a, b \in chunks : a.document = b.document /\ a.content = b.content

KnowledgeInv ==
  /\ KnowledgeShape /\ Indexed /\ OneContent(found.chunks)
  /\ \A t \in Threads : Writes(t) => Prepared(thread[t])
  /\ \A t, u \in Threads : t # u /\ Writes(t) /\ Writes(u) => Apart(thread[t], thread[u])

QuietShape == ThreadShape \ WriterShape

\* Min is the least of the identifiers.
LEMMA LeastDocument ==
  ASSUME NEW S, S \subseteq Nat, S # {}
  PROVE  Knowledge!Min(S) \in S
<1>1. PICK x \in S : \A y \in S : ~(<<y, x>> \in OpToRel(<, Nat))
  BY NatLessThanWellFounded, WFMin
<1>2. \A y \in S : ~(y < x)
  BY <1>1, ZenonT(30) DEF OpToRel
<1>3. \A y \in S : x <= y
  BY <1>2
<1> QED
  BY <1>3 DEF Knowledge!Min

LEMMA ThreadIs ==
  ASSUME KnowledgeInv, NEW t \in Threads
  PROVE  /\ thread[t] \in ThreadShape
         /\ Writes(t) => thread[t] \in WriterShape
         /\ thread[t] \in WriterShape => Writes(t)
BY DEF KnowledgeInv, KnowledgeShape, ThreadShape, WriterShape, Writes, Knowledge!Idle

LEMMA ChunksAreOfOneContent ==
  ASSUME KnowledgeInv, NEW d
  PROVE  OneContent(Knowledge!ChunksOf(d))
<1>1. CASE d \in DOMAIN document
  BY <1>1 DEF KnowledgeInv, Indexed, OneContent, Pieces
<1>2. CASE d \notin DOMAIN document
  BY <1>2 DEF KnowledgeInv, Indexed, OneContent, Knowledge!ChunksOf
<1> QED
  BY <1>1, <1>2

\* A request that is not writing disturbs nothing.
LEMMA QuietMoves ==
  ASSUME KnowledgeInv, NEW t \in Threads, NEW w \in QuietShape,
         thread' = [thread EXCEPT ![t] = w], UNCHANGED <<drawn, document, chunk>>,
         knowledgeFile' \in Editions \cup {NoFile}, OneContent(found'.chunks)
  PROVE  KnowledgeInv'
<1>1. /\ thread'[t] = w /\ \A u \in Threads \ {t} : thread'[u] = thread[u]
      /\ thread' \in [Threads -> ThreadShape]
  BY DEF KnowledgeInv, KnowledgeShape, QuietShape
<1>2. w.at \notin {"selected", "clearing", "writing"}
  BY DEF QuietShape, ThreadShape, WriterShape, Knowledge!Idle
<1>3. \A u \in Threads : Writes(u)' => u # t /\ Writes(u)
  BY <1>1, <1>2 DEF Writes
<1>4. \A u \in Threads : Writes(u)' => Prepared(thread[u])'
  BY <1>1, <1>3 DEF KnowledgeInv, Prepared, Ready, Sees, Knowledge!ChunksOf
<1>5. \A u, v \in Threads : u # v /\ Writes(u)' /\ Writes(v)' => Apart(thread[u], thread[v])'
  BY <1>1, <1>3 DEF KnowledgeInv, Apart
<1>6. KnowledgeShape' /\ Indexed' /\ OneContent(found.chunks)'
  BY <1>1 DEF KnowledgeInv, KnowledgeShape, Indexed, OneContent, Knowledge!ChunksOf
<1> QED
  BY <1>4, <1>5, <1>6 DEF KnowledgeInv

\* A rebuild that moves needs to be prepared, and apart from the others.
LEMMA WriterMoves ==
  ASSUME KnowledgeInv, NEW t \in Threads, NEW w \in WriterShape,
         thread' = [thread EXCEPT ![t] = w], UNCHANGED <<knowledgeFile, document, chunk, found>>,
         drawn' \in Nat, drawn <= drawn', Ready(w, drawn'),
         \A u \in Threads \ {t} : Writes(u) => Apart(w, thread[u]) /\ Apart(thread[u], w)
  PROVE  KnowledgeInv'
<1>1. /\ thread'[t] = w /\ \A u \in Threads \ {t} : thread'[u] = thread[u]
      /\ thread' \in [Threads -> ThreadShape]
  BY DEF KnowledgeInv, KnowledgeShape, ThreadShape
<1>2. \A u \in Threads \ {t} : Writes(u)' => Writes(u)
  BY <1>1 DEF Writes
<1>3. 1 .. drawn \subseteq 1 .. drawn'
  BY DEF KnowledgeInv, KnowledgeShape
<1>4. \A u \in Threads \ {t} : Writes(u) => Prepared(thread[u])'
  BY <1>1, <1>3 DEF KnowledgeInv, Prepared, Ready, Sees, Knowledge!ChunksOf
<1>5. \A u \in Threads : Writes(u)' => Prepared(thread[u])'
  BY <1>1, <1>2, <1>4 DEF Prepared, Ready, Sees, Knowledge!ChunksOf
<1>6. \A u, v \in Threads : u # v /\ Writes(u)' /\ Writes(v)' => Apart(thread[u], thread[v])'
  BY <1>1, <1>2 DEF KnowledgeInv, Apart
<1>7. KnowledgeShape' /\ Indexed' /\ OneContent(found.chunks)'
  BY <1>1, <1>3 DEF KnowledgeInv, KnowledgeShape, Indexed, OneContent, Knowledge!ChunksOf
<1> QED
  BY <1>5, <1>6, <1>7 DEF KnowledgeInv

LEMMA ReadingKeeps ==
  ASSUME KnowledgeInv, NEW t \in Threads,
         Knowledge!Rebuild(t) \/ Knowledge!ReadFile(t) \/ Knowledge!Fails(t)
         \/ \E c \in Editions : Knowledge!Upload(t, c)
  PROVE  KnowledgeInv'
<1>1. thread[t] \in ThreadShape
  BY ThreadIs
<1>2. OneContent(found.chunks) /\ knowledgeFile \in Editions \cup {NoFile}
  BY DEF KnowledgeInv, KnowledgeShape
<1>3. CASE \E c \in Editions : Knowledge!Upload(t, c)
  <2>1. PICK w : w = [at |-> "reading", upload |-> TRUE, search |-> FALSE]
    OBVIOUS
  <2>2. w \in QuietShape
    BY <2>1 DEF QuietShape, ThreadShape, WriterShape
  <2> QED
    BY <1>2, <1>3, <2>1, <2>2, QuietMoves DEF Knowledge!Upload, Knowledge!Goto
<1>4. CASE Knowledge!Rebuild(t)
  <2>1. PICK w : w = [at |-> "reading", upload |-> FALSE, search |-> FALSE]
    OBVIOUS
  <2>2. w \in QuietShape
    BY <2>1 DEF QuietShape, ThreadShape, WriterShape
  <2> QED
    BY <1>2, <1>4, <2>1, <2>2, QuietMoves DEF Knowledge!Rebuild, Knowledge!Goto
<1>5. CASE Knowledge!ReadFile(t)
  <2>1. PICK w : w = [at |-> "read", upload |-> thread[t].upload, search |-> thread[t].search,
                      content |-> knowledgeFile]
    OBVIOUS
  <2>2. thread[t].at = "reading" /\ knowledgeFile \in Editions
    BY <1>2, <1>5 DEF Knowledge!ReadFile, Knowledge!At
  <2>3. thread[t].upload \in BOOLEAN /\ thread[t].search \in BOOLEAN
    BY <1>1, <2>2 DEF ThreadShape, WriterShape, Knowledge!Idle
  <2>4. w \in QuietShape
    BY <2>1, <2>2, <2>3 DEF QuietShape, ThreadShape, WriterShape
  <2> QED
    BY <1>2, <1>5, <2>1, <2>4, QuietMoves DEF Knowledge!ReadFile, Knowledge!Goto
<1>6. CASE Knowledge!Fails(t)
  <2>1. PICK w : w = Knowledge!Idle
    OBVIOUS
  <2>2. w \in QuietShape
    BY <2>1 DEF QuietShape, ThreadShape, WriterShape, Knowledge!Idle
  <2> QED
    BY <1>2, <1>6, <2>1, <2>2, QuietMoves DEF Knowledge!Fails, Knowledge!Goto
<1> QED
  BY <1>3, <1>4, <1>5, <1>6

LEMMA SearchingKeeps ==
  ASSUME KnowledgeInv, NEW t \in Threads,
         Knowledge!Search(t) \/ Knowledge!SecondStatus(t) \/ Knowledge!FullTextSearch(t)
         \/ Knowledge!FallbackSearch(t)
  PROVE  KnowledgeInv'
<1>1. thread[t] \in ThreadShape
  BY ThreadIs
<1>2. OneContent(found.chunks) /\ knowledgeFile \in Editions \cup {NoFile}
  BY DEF KnowledgeInv, KnowledgeShape
<1>3. OneContent(Knowledge!NothingFound.chunks)
  BY DEF OneContent, Knowledge!NothingFound
<1>4. Knowledge!Searched \subseteq Nat
  BY DEF Knowledge!Searched, KnowledgeInv, KnowledgeShape
<1>5. Knowledge!Idle \in QuietShape
  BY DEF QuietShape, ThreadShape, WriterShape, Knowledge!Idle
<1>6. \A d \in Nat, state \in {"searching", "scanning"} :
        [at |-> state, upload |-> FALSE, document |-> d] \in QuietShape
  BY DEF QuietShape, ThreadShape, WriterShape
<1>7. Knowledge!Searched # {} =>
        [at |-> "searching", upload |-> FALSE, document |-> Knowledge!Min(Knowledge!Searched)]
          \in QuietShape
  BY <1>4, <1>6, LeastDocument
<1>8. CASE Knowledge!Search(t)
  <2>1. PICK w :
          w = IF knowledgeFile = NoFile THEN Knowledge!Idle
              ELSE IF Knowledge!Searched = {}
              THEN [at |-> "reading", upload |-> FALSE, search |-> TRUE]
              ELSE [at |-> "searching", upload |-> FALSE,
                    document |-> Knowledge!Min(Knowledge!Searched)]
    OBVIOUS
  <2>2. [at |-> "reading", upload |-> FALSE, search |-> TRUE] \in QuietShape
    BY DEF QuietShape, ThreadShape, WriterShape
  <2>3. w \in QuietShape
    BY <1>5, <1>7, <2>1, <2>2
  <2>4. thread' = [thread EXCEPT ![t] = w] /\ UNCHANGED <<knowledgeFile, drawn, document, chunk>>
    BY <1>8, <2>1 DEF Knowledge!Search, Knowledge!Goto
  <2>5. OneContent(found'.chunks)
    BY <1>2, <1>3, <1>8 DEF Knowledge!Search
  <2> QED
    BY <1>2, <2>3, <2>4, <2>5, QuietMoves
<1>9. CASE Knowledge!SecondStatus(t)
  <2>1. PICK w :
          w = IF Knowledge!Searched = {} THEN Knowledge!Idle
              ELSE [at |-> "searching", upload |-> FALSE,
                    document |-> Knowledge!Min(Knowledge!Searched)]
    OBVIOUS
  <2>2. w \in QuietShape
    BY <1>5, <1>7, <2>1
  <2>3. thread' = [thread EXCEPT ![t] = w] /\ UNCHANGED <<knowledgeFile, drawn, document, chunk>>
    BY <1>9, <2>1 DEF Knowledge!SecondStatus, Knowledge!Goto
  <2>4. OneContent(found'.chunks)
    BY <1>2, <1>3, <1>9 DEF Knowledge!SecondStatus
  <2> QED
    BY <1>2, <2>2, <2>3, <2>4, QuietMoves
<1>10. CASE Knowledge!FullTextSearch(t)
  <2>1. UNCHANGED <<knowledgeFile, drawn, document, chunk>> /\ thread[t].at = "searching"
    BY <1>10 DEF Knowledge!FullTextSearch, Knowledge!At
  <2>2. CASE Knowledge!Hits(thread[t].document, FullText) = {}
    <3>1. thread[t] \in [at : {"searching", "scanning"}, upload : BOOLEAN, document : Nat]
      BY <1>1, <2>1 DEF ThreadShape, WriterShape, Knowledge!Idle
    <3>2. PICK w : w = [thread[t] EXCEPT !.at = "scanning"]
      OBVIOUS
    <3>3. w \in QuietShape
      BY <3>1, <3>2 DEF QuietShape, ThreadShape, WriterShape
    <3> QED
      BY <1>2, <1>10, <2>1, <2>2, <3>2, <3>3, QuietMoves
         DEF Knowledge!FullTextSearch, Knowledge!Goto
  <2>3. CASE Knowledge!Hits(thread[t].document, FullText) # {}
    <3>1. PICK top \in SUBSET Knowledge!Hits(thread[t].document, FullText) :
            found' = [method |-> "postgresql_fts", chunks |-> top]
      BY <1>10, <2>3 DEF Knowledge!FullTextSearch
    <3>2. top \subseteq Knowledge!ChunksOf(thread[t].document)
      BY <3>1 DEF Knowledge!Hits
    <3>3. OneContent(found'.chunks)
      BY <3>1, <3>2, ChunksAreOfOneContent DEF OneContent
    <3> QED
      BY <1>2, <1>5, <1>10, <2>1, <2>3, <3>3, QuietMoves
         DEF Knowledge!FullTextSearch, Knowledge!Goto
  <2> QED
    BY <2>2, <2>3
<1>11. CASE Knowledge!FallbackSearch(t)
  <2>1. found'.chunks \subseteq Knowledge!ChunksOf(thread[t].document)
    BY <1>11 DEF Knowledge!FallbackSearch, Knowledge!Hits
  <2>2. OneContent(found'.chunks)
    BY <2>1, ChunksAreOfOneContent DEF OneContent
  <2> QED
    BY <1>2, <1>5, <1>11, <2>2, QuietMoves DEF Knowledge!FallbackSearch, Knowledge!Goto
<1> QED
  BY <1>8, <1>9, <1>10, <1>11

LEMMA InsertKeeps ==
  ASSUME KnowledgeInv, NEW t \in Threads, Knowledge!InsertDocument(t)
  PROVE  KnowledgeInv'
<1>1. thread[t].at = "read" /\ drawn \in Nat
  BY DEF Knowledge!InsertDocument, Knowledge!At, KnowledgeInv, KnowledgeShape
<1>2. thread[t] \in [at : {"read"}, upload : BOOLEAN, search : BOOLEAN, content : Editions]
  BY <1>1, ThreadIs DEF ThreadShape, WriterShape, Knowledge!Idle
<1>3. PICK w : w = Knowledge!Writing(t, "writing", drawn + 1, {}, {})
  OBVIOUS
<1>4. /\ w \in WriterShape /\ w.at = "writing" /\ w.document = drawn + 1
      /\ w.ids = {} /\ w.seen = {}
  BY <1>1, <1>2, <1>3 DEF Knowledge!Writing, WriterShape
<1>5. /\ thread' = [thread EXCEPT ![t] = w] /\ drawn' = drawn + 1
      /\ UNCHANGED <<knowledgeFile, document, chunk, found>>
  BY <1>3 DEF Knowledge!InsertDocument, Knowledge!Goto
<1>6. drawn + 1 \in 1 .. drawn' /\ drawn + 1 \notin 1 .. drawn
  BY <1>1, <1>5
<1>7. Ready(w, drawn')
  BY <1>4, <1>5, <1>6 DEF Prepared, Ready, KnowledgeInv, KnowledgeShape
<1>8. \A u \in Threads \ {t} : Writes(u) => Apart(w, thread[u]) /\ Apart(thread[u], w)
  BY <1>4, <1>6 DEF Apart, KnowledgeInv, Prepared, Ready
<1>9. drawn' \in Nat /\ drawn <= drawn'
  BY <1>1, <1>5
<1> QED
  BY <1>4, <1>5, <1>7, <1>8, <1>9, WriterMoves, Zenon

LEMMA SelectKeeps ==
  ASSUME KnowledgeInv, NEW t \in Threads, Knowledge!SelectDocuments(t)
  PROVE  KnowledgeInv'
<1>1. thread[t].at = "read" /\ drawn \in Nat /\ DOMAIN document # {}
      /\ DOMAIN document \subseteq 1 .. drawn
  BY DEF Knowledge!SelectDocuments, Knowledge!At, KnowledgeInv, KnowledgeShape
<1>2. thread[t] \in [at : {"read"}, upload : BOOLEAN, search : BOOLEAN, content : Editions]
  BY <1>1, ThreadIs DEF ThreadShape, WriterShape, Knowledge!Idle
<1>3. PICK w : w = Knowledge!Writing(t, "selected", Knowledge!Min(DOMAIN document),
                                     DOMAIN document, {})
  OBVIOUS
<1>4. Knowledge!Min(DOMAIN document) \in DOMAIN document /\ DOMAIN document \subseteq Nat
  BY <1>1, LeastDocument
<1>5. /\ w \in WriterShape /\ w.at = "selected" /\ w.document \in DOMAIN document
      /\ w.ids = DOMAIN document /\ w.seen = {}
  BY <1>2, <1>3, <1>4 DEF Knowledge!Writing, WriterShape
<1>6. /\ thread' = [thread EXCEPT ![t] = w]
      /\ UNCHANGED <<knowledgeFile, drawn, document, chunk, found>>
  BY <1>3 DEF Knowledge!SelectDocuments, Knowledge!Goto
<1>7. Ready(w, drawn')
  BY <1>1, <1>5, <1>6 DEF Prepared, Ready
<1>8. \A u \in Threads \ {t} : Writes(u) => Apart(w, thread[u]) /\ Apart(thread[u], w)
  BY <1>1, <1>5 DEF Apart, KnowledgeInv, Prepared, Ready
<1>9. drawn' \in Nat /\ drawn <= drawn'
  BY <1>1, <1>6
<1> QED
  BY <1>5, <1>6, <1>7, <1>8, <1>9, WriterMoves, Zenon

LEMMA SeeKeeps ==
  ASSUME KnowledgeInv, NEW t \in Threads, Knowledge!SeeChunks(t) \/ Knowledge!Lock(t)
  PROVE  KnowledgeInv'
<1>1. PICK v : v = thread[t]
  OBVIOUS
<1>2. v \in WriterShape /\ Ready(v, drawn) /\ drawn \in Nat /\ Writes(t)
  BY <1>1, ThreadIs DEF Knowledge!SeeChunks, Knowledge!Lock, Knowledge!At, KnowledgeInv,
     KnowledgeShape, Writes, Prepared
<1>3. CASE Knowledge!SeeChunks(t)
  <2>1. PICK w : w = [v EXCEPT !.at = "clearing",
                               !.seen = UNION {Knowledge!ChunksOf(d) : d \in v.ids}]
    OBVIOUS
  <2>2. UNION {Knowledge!ChunksOf(d) : d \in v.ids} \in SUBSET ChunkRowShape
    BY DEF Knowledge!ChunksOf, KnowledgeInv, KnowledgeShape
  <2>3. /\ w \in WriterShape /\ w.at = "clearing" /\ w.ids = v.ids /\ w.document = v.document
        /\ w.seen = UNION {Knowledge!ChunksOf(d) : d \in v.ids}
    BY <1>2, <2>1, <2>2 DEF WriterShape
  <2>4. /\ thread' = [thread EXCEPT ![t] = w]
        /\ UNCHANGED <<knowledgeFile, drawn, document, chunk, found>>
    BY <1>1, <1>3, <2>1 DEF Knowledge!SeeChunks, Knowledge!Goto
  <2>5. Ready(w, drawn)
    BY <1>2, <2>3 DEF Prepared, Ready, Sees, Knowledge!ChunksOf
  <2>6. Ready(w, drawn')
    BY <2>4, <2>5 DEF Prepared, Ready, Sees, Knowledge!ChunksOf
  <2>7. \A u \in Threads \ {t} : Writes(u) => Apart(w, thread[u]) /\ Apart(thread[u], w)
    BY <1>1, <1>2, <2>3 DEF Apart, KnowledgeInv
  <2>8. drawn' \in Nat /\ drawn <= drawn'
    BY <1>2, <2>4
  <2> QED
    BY <2>3, <2>4, <2>6, <2>7, <2>8, WriterMoves, Zenon
<1>4. CASE Knowledge!Lock(t)
  <2>1. PICK w : w = [v EXCEPT !.at = "writing"]
    OBVIOUS
  <2>2. /\ w \in WriterShape /\ w.at = "writing" /\ w.ids = v.ids /\ w.document = v.document
        /\ w.seen = v.seen /\ v.at = "clearing"
    BY <1>1, <1>2, <1>4, <2>1 DEF WriterShape, Knowledge!Lock, Knowledge!At
  <2>3. /\ thread' = [thread EXCEPT ![t] = w]
        /\ UNCHANGED <<knowledgeFile, drawn, document, chunk, found>>
    BY <1>1, <1>4, <2>1 DEF Knowledge!Lock, Knowledge!Goto
  <2>4. Ready(w, drawn')
    BY <1>2, <2>2, <2>3 DEF Prepared, Ready, Sees, Knowledge!ChunksOf
  <2>5. \A u \in Threads \ {t} : thread[u].at = "writing" => thread[u].ids \cap w.ids = {}
    BY <1>1, <1>4, <2>2 DEF Knowledge!Lock, Knowledge!Unlocked, Knowledge!At
  <2>6. \A u \in Threads \ {t} : Writes(u) => Apart(w, thread[u]) /\ Apart(thread[u], w)
    BY <1>1, <1>2, <2>2, <2>5 DEF Apart, KnowledgeInv
  <2>7. drawn' \in Nat /\ drawn <= drawn'
    BY <1>2, <2>3
  <2> QED
    BY <2>2, <2>3, <2>4, <2>6, <2>7, WriterMoves, Zenon
<1> QED
  BY <1>3, <1>4

\* A rebuild that commits replaces all the chunks of its document that there are.
LEMMA CommitReplaces ==
  ASSUME KnowledgeInv, NEW t \in Threads, Knowledge!CommitRebuild(t), NEW w, w = thread[t]
  PROVE  /\ chunk' = {x \in chunk : x.document \notin w.ids \cup {w.document}}
                     \cup Pieces(w.document, w.content)
         /\ document' = [d \in (DOMAIN document \ w.ids) \cup {w.document} |->
                           IF d = w.document THEN Chunks[w.content] ELSE document[d]]
<1>1. w \in WriterShape /\ Ready(w, drawn) /\ w.at = "writing"
  BY ThreadIs DEF Knowledge!CommitRebuild, Knowledge!At, KnowledgeInv, Writes, Prepared
<1>2. PICK new : new = Pieces(w.document, w.content) /\ new = Knowledge!New(t)
  BY DEF Pieces, Knowledge!New
<1>3. PICK duplicates : duplicates = w.ids \ {w.document}
  OBVIOUS
<1>4. PICK rest : rest = {x \in chunk \ w.seen : x.document \notin duplicates}
  OBVIOUS
<1>5. PICK kept : kept = (DOMAIN document \ duplicates) \cup {w.document}
  OBVIOUS
<1>6. /\ chunk' = rest \cup new /\ ~Knowledge!Gone(t) /\ ~Knowledge!Taken(t, rest)
      /\ document' = [d \in kept |->
                        IF d = w.document THEN Chunks[w.content] ELSE document[d]]
  BY <1>2, <1>3, <1>4, <1>5 DEF Knowledge!CommitRebuild
<1>7. kept = (DOMAIN document \ w.ids) \cup {w.document}
  BY <1>3, <1>5
<1>8. \A x \in w.seen : x.document \in w.ids \cup {w.document}
  BY <1>1 DEF Ready
<1>9. \A x \in chunk : x.document = w.document => x \in w.seen
  <2>1. CASE w.ids = {}
    BY <1>1, <2>1 DEF Ready, KnowledgeInv, Indexed
  <2>2. CASE w.ids # {}
    <3>1. w.document \in w.ids \cap DOMAIN document
      BY <1>1, <1>6, <2>2 DEF Ready, Knowledge!Gone
    <3>2. PICK c \in Editions : Knowledge!ChunksOf(w.document) = Pieces(w.document, c)
      BY <3>1 DEF KnowledgeInv, Indexed
    <3>3. Sees(w, w.document)
      BY <1>1, <3>1 DEF Ready
    <3>4. CASE Knowledge!ChunksOf(w.document) \subseteq w.seen
      BY <3>4 DEF Knowledge!ChunksOf
    <3>5. CASE \A x \in w.seen : x.document # w.document
      <4>1. PICK old : old = [document |-> w.document, index |-> 0, content |-> c]
        OBVIOUS
      <4>2. PICK first : first = [document |-> w.document, index |-> 0, content |-> w.content]
        OBVIOUS
      <4>3. w.content \in Editions
        BY <1>1 DEF WriterShape
      <4>4. 0 \in 0 .. Chunks[c] - 1 /\ 0 \in 0 .. Chunks[w.content] - 1
        BY <3>2, <4>3, ChunksAssumption
      <4>5. old \in Knowledge!ChunksOf(w.document)
        BY <3>2, <4>1, <4>4 DEF Pieces
      <4>6. old \in chunk
        BY <4>5 DEF Knowledge!ChunksOf
      <4>7. old.document = w.document /\ old.index = 0
        BY <4>1
      <4>8. old \in rest
        BY <1>3, <1>4, <3>5, <4>6, <4>7
      <4>9. first \in Knowledge!New(t) /\ first.document = w.document /\ first.index = 0
        BY <1>2, <4>2, <4>4 DEF Pieces
      <4> QED
        BY <1>6, <4>7, <4>8, <4>9 DEF Knowledge!Taken
    <3> QED
      BY <3>3, <3>4, <3>5 DEF Sees
  <2> QED
    BY <2>1, <2>2
<1>10. rest = {x \in chunk : x.document \notin w.ids \cup {w.document}}
  BY <1>3, <1>4, <1>8, <1>9
<1> QED
  BY <1>2, <1>6, <1>7, <1>10

LEMMA CommitKeeps ==
  ASSUME KnowledgeInv, NEW t \in Threads, Knowledge!CommitRebuild(t)
  PROVE  KnowledgeInv'
<1>1. PICK w : w = thread[t]
  OBVIOUS
<1>2. /\ w \in WriterShape /\ Ready(w, drawn) /\ w.at = "writing" /\ Writes(t)
      /\ w.document \in Nat /\ w.document \in 1 .. drawn /\ w.content \in Editions
      /\ w.ids \subseteq 1 .. drawn
  BY <1>1, ThreadIs DEF Knowledge!CommitRebuild, Knowledge!At, KnowledgeInv, Writes, Prepared,
     WriterShape, Ready
<1>3. PICK new : new = Pieces(w.document, w.content)
  OBVIOUS
<1>4. PICK gone : gone = w.ids \cup {w.document}
  OBVIOUS
<1>5. /\ chunk' = {x \in chunk : x.document \notin gone} \cup new
      /\ document' = [d \in (DOMAIN document \ w.ids) \cup {w.document} |->
                        IF d = w.document THEN Chunks[w.content] ELSE document[d]]
  BY <1>1, <1>3, <1>4, CommitReplaces
<1>6. /\ DOMAIN document' = (DOMAIN document \ gone) \cup {w.document}
      /\ document'[w.document] = Chunks[w.content]
      /\ \A d \in DOMAIN document \ gone : document'[d] = document[d]
  BY <1>4, <1>5
<1>7. \A x \in new : x.document = w.document
  BY <1>3 DEF Pieces
<1>8. new \subseteq ChunkRowShape
  BY <1>2, <1>3, ChunksAssumption DEF Pieces, ChunkRowShape
<1>9. Knowledge!ChunksOf(w.document)' = new
  BY <1>4, <1>5, <1>7 DEF Knowledge!ChunksOf
<1>10. \A d : d \notin gone => Knowledge!ChunksOf(d)' = Knowledge!ChunksOf(d)
  BY <1>4, <1>5, <1>7 DEF Knowledge!ChunksOf
<1>11. Indexed'
  <2>1. \A d \in DOMAIN document' :
          \E c \in Editions :
            document'[d] = Chunks[c] /\ Knowledge!ChunksOf(d)' = Pieces(d, c)
    <3> SUFFICES ASSUME NEW d \in DOMAIN document'
                 PROVE  \E c \in Editions :
                          document'[d] = Chunks[c] /\ Knowledge!ChunksOf(d)' = Pieces(d, c)
      OBVIOUS
    <3>1. CASE d = w.document
      BY <1>2, <1>3, <1>6, <1>9, <3>1
    <3>2. CASE d # w.document
      <4>1. d \in DOMAIN document \ gone
        BY <1>6, <3>2
      <4>2. PICK c \in Editions :
              document[d] = Chunks[c] /\ Knowledge!ChunksOf(d) = Pieces(d, c)
        BY <4>1 DEF KnowledgeInv, Indexed
      <4> QED
        BY <1>6, <1>10, <4>1, <4>2
    <3> QED
      BY <3>1, <3>2
  <2>2. \A x \in chunk' : x.document \in DOMAIN document'
    BY <1>5, <1>6, <1>7 DEF KnowledgeInv, Indexed
  <2> QED
    BY <2>1, <2>2 DEF Indexed
<1>12. /\ UNCHANGED <<knowledgeFile, drawn, found>>
       /\ thread' = [u \in Threads |->
            IF u # t THEN Knowledge!Outdated(u, w.ids)
            ELSE IF w.search THEN [at |-> "status", upload |-> FALSE] ELSE Knowledge!Idle]
  BY <1>1 DEF Knowledge!CommitRebuild
<1>13. thread'[t] \in ThreadShape /\ ~Writes(t)'
  <2>1. thread'[t] = [at |-> "status", upload |-> FALSE] \/ thread'[t] = Knowledge!Idle
    BY <1>12
  <2>2. [at |-> "status", upload |-> FALSE] \in [at : {"status"}, upload : BOOLEAN]
    OBVIOUS
  <2>3. thread'[t] \in ThreadShape
    <3>1. thread'[t] \in [at : {"status"}, upload : BOOLEAN] \/ thread'[t] \in {Knowledge!Idle}
      BY <2>1, <2>2
    <3> QED
      BY <3>1, Zenon DEF ThreadShape
  <2>4. thread'[t].at \in {"status", "idle"}
    BY <2>1 DEF Knowledge!Idle
  <2> QED
    BY <2>3, <2>4 DEF Writes
<1>14. \A u \in Threads \ {t} : thread[u].at # "clearing" => thread'[u] = thread[u]
  BY <1>12 DEF Knowledge!Outdated, Knowledge!At
<1>15. \A u \in Threads \ {t} : thread[u].at = "clearing" =>
         /\ thread'[u] \in WriterShape /\ thread'[u].at = "clearing"
         /\ thread'[u].ids = thread[u].ids /\ thread'[u].document = thread[u].document
         /\ thread'[u].seen = {x \in thread[u].seen : x.document \notin w.ids}
  <2> SUFFICES ASSUME NEW u \in Threads \ {t}, thread[u].at = "clearing"
               PROVE  /\ thread'[u] \in WriterShape /\ thread'[u].at = "clearing"
                      /\ thread'[u].ids = thread[u].ids
                      /\ thread'[u].document = thread[u].document
                      /\ thread'[u].seen = {x \in thread[u].seen : x.document \notin w.ids}
    OBVIOUS
  <2>1. PICK v \in WriterShape : v = thread[u]
    BY ThreadIs DEF Writes
  <2>2. PICK seen : seen = {x \in v.seen : x.document \notin w.ids}
    OBVIOUS
  <2>3. thread'[u] = [v EXCEPT !.seen = seen]
    BY <1>12, <2>1, <2>2 DEF Knowledge!Outdated, Knowledge!At
  <2>4. seen \in SUBSET ChunkRowShape
    BY <2>2 DEF WriterShape
  <2> QED
    BY <2>1, <2>2, <2>3, <2>4 DEF WriterShape
<1>16. KnowledgeShape'
  <2>1. \A u \in Threads : thread'[u] \in ThreadShape
    BY <1>13, <1>14, <1>15, ThreadIs DEF ThreadShape
  <2>2. thread' \in [Threads -> ThreadShape]
    BY <1>12, <2>1
  <2> QED
    BY <1>2, <1>5, <1>6, <1>8, <1>12, <2>2 DEF KnowledgeInv, KnowledgeShape
<1>17. \A u \in Threads : Writes(u)' => u # t /\ Writes(u)
  BY <1>13, <1>14, <1>15 DEF Writes
<1>18. \A u \in Threads : Writes(u)' => Prepared(thread[u])'
  <2> SUFFICES ASSUME NEW u \in Threads, Writes(u)'
               PROVE  Prepared(thread[u])'
    OBVIOUS
  <2>1. PICK v : v = thread[u]
    OBVIOUS
  <2>2. PICK n : n = thread'[u]
    OBVIOUS
  <2>3. u # t /\ Writes(u) /\ v \in WriterShape /\ Ready(v, drawn)
    BY <1>17, <2>1, ThreadIs DEF KnowledgeInv, Prepared
  <2>4. Apart(v, w) /\ Apart(w, v)
    BY <1>1, <1>2, <2>1, <2>3 DEF KnowledgeInv
  <2>5. /\ n.ids = v.ids /\ n.document = v.document /\ n.seen \subseteq v.seen /\ n.at = v.at
        /\ \A x \in v.seen : x.document \notin w.ids => x \in n.seen
        /\ n.at = "clearing" => \A x \in n.seen : x.document \notin w.ids
    BY <1>14, <1>15, <2>1, <2>2, <2>3
  <2>6. w.document \in w.ids \/ w.ids = {}
    BY <1>2 DEF Ready
  <2>7. n.ids = {} => n.document \notin DOMAIN document'
    BY <1>6, <2>3, <2>4, <2>5, <2>6 DEF Ready, Apart
  <2>8. n.at # "selected" =>
          \A d \in n.ids \cap DOMAIN document' :
            Knowledge!ChunksOf(d)' \subseteq n.seen \/ \A x \in n.seen : x.document # d
    <3> SUFFICES ASSUME n.at # "selected", NEW d \in n.ids \cap DOMAIN document'
                 PROVE  Knowledge!ChunksOf(d)' \subseteq n.seen \/ \A x \in n.seen : x.document # d
      OBVIOUS
    <3>1. CASE d \in gone
      <4>1. d = w.document
        BY <1>6, <3>1
      <4>2. w.ids # {}
        BY <2>4, <2>5, <4>1 DEF Apart
      <4>3. d \in w.ids
        BY <2>6, <4>1, <4>2
      <4>4. n.at # "writing"
        BY <1>2, <2>4, <2>5, <4>3 DEF Apart
      <4>5. n.at = "clearing"
        BY <2>3, <2>5, <4>4 DEF WriterShape
      <4> QED
        BY <2>5, <4>3, <4>5
    <3>2. CASE d \notin gone
      <4>1. d \in DOMAIN document /\ d \notin w.ids
        BY <1>4, <1>6, <3>2
      <4>2. Sees(v, d)
        BY <2>3, <2>5, <4>1 DEF Ready
      <4>3. CASE \A x \in v.seen : x.document # d
        BY <2>5, <4>3
      <4>4. CASE Knowledge!ChunksOf(d) \subseteq v.seen
        <5>1. \A x \in Knowledge!ChunksOf(d) : x.document = d
          BY DEF Knowledge!ChunksOf
        <5> QED
          BY <1>10, <2>5, <3>2, <4>1, <4>4, <5>1
      <4> QED
        BY <4>2, <4>3, <4>4 DEF Sees
    <3> QED
      BY <3>1, <3>2
  <2>9. /\ n.ids \subseteq 1 .. drawn' /\ (n.ids # {} => n.document \in n.ids)
        /\ (n.ids = {} => n.seen = {} /\ n.document \in 1 .. drawn')
        /\ \A x \in n.seen : x.document \in n.ids
    BY <1>12, <2>3, <2>5 DEF Ready
  <2> QED
    BY <2>2, <2>7, <2>8, <2>9 DEF Prepared, Ready, Sees
<1>19. \A u, v \in Threads : u # v /\ Writes(u)' /\ Writes(v)' => Apart(thread[u], thread[v])'
  <2>1. \A u \in Threads : Writes(u)' =>
          /\ thread'[u].ids = thread[u].ids /\ thread'[u].document = thread[u].document
          /\ thread'[u].at = thread[u].at
    BY <1>14, <1>15, <1>17
  <2> QED
    BY <1>17, <2>1 DEF KnowledgeInv, Apart
<1>20. OneContent(found.chunks)'
  BY <1>12 DEF KnowledgeInv
<1> QED
  BY <1>11, <1>16, <1>18, <1>19, <1>20 DEF KnowledgeInv

LEMMA KnowledgeBegins ==
  ASSUME Knowledge!Init
  PROVE  KnowledgeInv
<1>1. thread \in [Threads -> ThreadShape] /\ \A t \in Threads : ~Writes(t)
  BY DEF Knowledge!Init, ThreadShape, Writes, Knowledge!Idle
<1>2. DOMAIN document = {} /\ chunk = {} /\ drawn = 0 /\ found.chunks = {}
  BY DEF Knowledge!Init, Knowledge!NothingFound
<1> QED
  BY <1>1, <1>2 DEF Knowledge!Init, KnowledgeInv, KnowledgeShape, Indexed, OneContent

LEMMA KnowledgeStays ==
  ASSUME KnowledgeInv, UNCHANGED knowledgeVars
  PROVE  KnowledgeInv'
BY DEF KnowledgeInv, KnowledgeShape, Indexed, Writes, Prepared, Ready, Sees, Apart, OneContent,
   Knowledge!ChunksOf, knowledgeVars

LEMMA KnowledgeInvariant == OperationsSpec => [](part = "knowledge" => KnowledgeInv)
<1> DEFINE Inv == part = "knowledge" => KnowledgeInv
<1>1. OperationsInit => Inv
  BY KnowledgeBegins DEF OperationsInit
<1>2. Inv /\ [OperationsNext]_operationsVars => Inv'
  <2> SUFFICES ASSUME Inv, [OperationsNext]_operationsVars
               PROVE  Inv'
    OBVIOUS
  <2>1. CASE KnowledgeStep
    <3>1. part' = part /\ part = "knowledge" /\ Knowledge!Next
      BY <2>1 DEF KnowledgeStep
    <3>2. KnowledgeInv'
      BY <3>1, ReadingKeeps, SearchingKeeps, InsertKeeps, SelectKeeps, SeeKeeps, CommitKeeps
         DEF Knowledge!Next
    <3> QED
      BY <3>2
  <2>2. CASE UNCHANGED operationsVars
    BY <2>2, KnowledgeStays DEF operationsVars
  <2>3. CASE BackupStep \/ DescriptionStep \/ TelemetryStep \/ AnswerStep \/ SpendingStep
             \/ AccessStep \/ GateStep
    BY <2>3, KnowledgeStays DEF BackupStep, DescriptionStep, TelemetryStep, AnswerStep,
       SpendingStep, AccessStep, GateStep
  <2> QED
    BY <2>1, <2>2, <2>3 DEF OperationsNext
<1> QED
  BY <1>1, <1>2, PTL DEF OperationsSpec

\* Rebuilds, uploads and searches of the Project Knowledge: no index is half, and no
\* answer is stitched together from two versions of the file (project_knowledge_runtime.py).
THEOREM IndexStaysWhole == OperationsSpec => []IndexWhole
<1>1. (part = "knowledge" => KnowledgeInv) => IndexWhole
  <2> SUFFICES ASSUME KnowledgeInv
               PROVE  Knowledge!IndexWhole
    BY DEF IndexWhole
  <2> QED
    BY DEF KnowledgeInv, Indexed, OneContent, Pieces, Knowledge!IndexWhole
<1> QED
  BY <1>1, KnowledgeInvariant, PTL

-----------------------------------------------------------------------------
(* Backup and restore (BackupRestore)                                      *)
(*                                                                         *)
(* A directory that is complete holds one snapshot throughout, and a       *)
(* restore that goes past its checks holds a target that passed them.      *)

ContentsShape == [rows : (SUBSET Files) \cup {NoRows}, sequence : Nat]
DirectoryShape ==
  [stage : {"begun", "snapshot", "inventory", "dumped", "listed", "manifest", "complete",
            "incomplete", "removed"},
   snapshot : SUBSET Files, inventory : ContentsShape, dump : ContentsShape, named : BOOLEAN,
   listed : SUBSET (Files \X {"temporary", "whole"}), tar : SUBSET Files,
   present : SUBSET Parts, damaged : SUBSET Parts]
RestoreStages ==
  {"idle", "failed", "verified", "checked", "dropping", "prepared", "initialized", "restored",
   "compared", "done"}
RestoreShape ==
  [stage : RestoreStages, backup : Nat, attempts : Nat]
  \cup [stage : RestoreStages, backup : Nat, attempts : Nat, policy : Policies]

BackupShape ==
  /\ row \subseteq Files /\ sequence \in Nat
  /\ file \in [Files -> {"none", "temporary", "whole"}]
  /\ backup \in Seq(DirectoryShape)
  /\ target \in TargetShape
  /\ restore \in RestoreShape

\* The rows of one moment, and their files
HoldsSnapshot(d) ==
  /\ d.inventory.rows = d.snapshot /\ d.dump.rows = d.snapshot /\ d.snapshot \subseteq d.tar

Sound(d) ==
  /\ d.snapshot \subseteq row
  /\ d.stage \in {"inventory", "dumped", "listed"} => d.inventory.rows = d.snapshot
  /\ d.stage \in {"dumped", "listed"} => d.dump.rows = d.snapshot
  /\ d.stage = "listed" => \A f \in d.snapshot : f \in d.tar \/ <<f, "whole">> \in d.listed
  /\ d.stage \in {"begun", "snapshot", "inventory", "dumped", "listed"} =>
       d.present \subseteq {"postgres.dump"}
  /\ d.stage = "removed" => d.present = {}
  /\ d.stage \in {"manifest", "complete"} \/ d.present = Parts => HoldsSnapshot(d)

Restoring ==
  restore.stage \notin {"idle", "failed"} =>
    /\ restore.backup \in DOMAIN backup
    /\ Chosen.stage \in {"complete", "incomplete"} /\ HoldsSnapshot(Chosen)
    /\ restore.stage \in {"compared", "done"} =>
         /\ target.rows = Chosen.inventory.rows /\ target.sequence = Chosen.inventory.sequence
         /\ target.foreign \in Unlisted \cup {"none"}
    /\ restore.stage = "done" => Chosen.tar \subseteq target.files /\ target.knowledge

BackupInv ==
  /\ BackupShape
  /\ \A f \in row : file[f] = "whole"
  /\ \A b \in DOMAIN backup : Sound(backup[b])
  /\ Restoring

LEMMA DirectoryIs ==
  ASSUME BackupInv, NEW b \in DOMAIN backup
  PROVE  backup[b] \in DirectoryShape /\ Sound(backup[b]) /\ b \in Nat
BY DEF BackupInv, BackupShape

\* What a restore relies on in a directory
SameContents(e, d) ==
  /\ e.snapshot = d.snapshot /\ e.inventory = d.inventory /\ e.dump = d.dump /\ e.tar = d.tar
  /\ e.stage = d.stage

LEMMA DirectoryMoves ==
  ASSUME BackupInv, NEW b \in DOMAIN backup, NEW e \in DirectoryShape, Sound(e),
         backup' = [backup EXCEPT ![b] = e], UNCHANGED <<row, file, sequence, target, restore>>,
         Underway(b) \/ SameContents(e, backup[b])
  PROVE  BackupInv'
<1>1. /\ backup' \in Seq(DirectoryShape) /\ DOMAIN backup' = DOMAIN backup /\ backup'[b] = e
      /\ \A c \in DOMAIN backup \ {b} : backup'[c] = backup[c]
  BY DEF BackupInv, BackupShape
<1>2. BackupShape'
  BY <1>1 DEF BackupInv, BackupShape
<1>3. \A c \in DOMAIN backup' : Sound(backup'[c])
  BY <1>1 DEF BackupInv
<1>4. \A c \in DOMAIN backup' : Sound(backup[c])'
  BY <1>3 DEF Sound, HoldsSnapshot
<1>5. Restoring'
  <2>1. SUFFICES ASSUME restore.stage \notin {"idle", "failed"}
                 PROVE  Restoring'
    BY DEF Restoring
  <2>2. restore.backup \in DOMAIN backup /\ Chosen.stage \in {"complete", "incomplete"}
    BY <2>1 DEF BackupInv, Restoring
  <2>3. Chosen' = Chosen \/ SameContents(Chosen', Chosen)
    BY <1>1, <2>2 DEF Chosen, Underway
  <2>4. /\ Chosen'.snapshot = Chosen.snapshot /\ Chosen'.inventory = Chosen.inventory
        /\ Chosen'.dump = Chosen.dump /\ Chosen'.tar = Chosen.tar /\ Chosen'.stage = Chosen.stage
    BY <2>3 DEF SameContents
  <2> QED
    BY <1>1, <2>1, <2>4 DEF BackupInv, Restoring, HoldsSnapshot
<1> QED
  BY <1>2, <1>4, <1>5 DEF BackupInv

LEMMA SnapshotKeeps ==
  ASSUME BackupInv, NEW b, Snapshot(b), UNCHANGED <<row, file, sequence, target, restore>>
  PROVE  BackupInv'
<1>1. b \in DOMAIN backup /\ backup[b].stage = "begun"
  BY DEF Snapshot, At
<1>2. PICK d \in DirectoryShape : d = backup[b] /\ Sound(d)
  BY <1>1, DirectoryIs
<1>3. PICK e : e = [d EXCEPT !.stage = "snapshot", !.snapshot = row]
  OBVIOUS
<1>4. backup' = [backup EXCEPT ![b] = e]
  BY <1>2, <1>3 DEF Snapshot, Becomes
<1>5. e \in DirectoryShape /\ e.stage = "snapshot" /\ e.snapshot = row /\ e.present = d.present
  BY <1>2, <1>3 DEF DirectoryShape, BackupInv, BackupShape
<1>6. Sound(e)
  BY <1>1, <1>2, <1>5 DEF Sound, Parts
<1> QED
  BY <1>1, <1>4, <1>5, <1>6, DirectoryMoves DEF Underway

LEMMA InventoryKeeps ==
  ASSUME BackupInv, NEW b, DatabaseInventory(b),
         UNCHANGED <<row, file, sequence, target, restore>>
  PROVE  BackupInv'
<1>1. b \in DOMAIN backup /\ backup[b].stage = "snapshot"
  BY DEF DatabaseInventory, At
<1>2. PICK d \in DirectoryShape : d = backup[b] /\ Sound(d)
  BY <1>1, DirectoryIs
<1>3. PICK inventory : inventory = [rows |-> d.snapshot, sequence |-> sequence]
  OBVIOUS
<1>4. PICK e : e = [d EXCEPT !.stage = "inventory", !.inventory = inventory]
  OBVIOUS
<1>5. backup' = [backup EXCEPT ![b] = e]
  BY <1>2, <1>3, <1>4
     DEF DatabaseInventory, InventoryRows, InventorySequences, Becomes
<1>6. inventory \in ContentsShape /\ inventory.rows = d.snapshot
  BY <1>2, <1>3 DEF ContentsShape, DirectoryShape, BackupInv, BackupShape
<1>7. /\ e \in DirectoryShape /\ e.stage = "inventory" /\ e.inventory = inventory
      /\ e.snapshot = d.snapshot /\ e.present = d.present
  BY <1>2, <1>4, <1>6 DEF DirectoryShape
<1>8. Sound(e)
  BY <1>1, <1>2, <1>6, <1>7 DEF Sound, Parts
<1> QED
  BY <1>1, <1>5, <1>7, <1>8, DirectoryMoves DEF Underway

LEMMA DumpKeeps ==
  ASSUME BackupInv, NEW b, PgDump(b), UNCHANGED <<row, file, sequence, target, restore>>
  PROVE  BackupInv'
<1>1. b \in DOMAIN backup /\ backup[b].stage = "inventory"
  BY DEF PgDump, At
<1>2. PICK d \in DirectoryShape : d = backup[b] /\ Sound(d)
  BY <1>1, DirectoryIs
<1>3. PICK dump : dump = [rows |-> d.snapshot, sequence |-> sequence]
  OBVIOUS
<1>4. PICK named \in BOOLEAN :
        backup' = [backup EXCEPT ![b] =
          [d EXCEPT !.stage = "dumped", !.named = named, !.dump = dump,
                    !.present = {"postgres.dump"}]]
  BY <1>2, <1>3 DEF PgDump, Becomes
<1>5. PICK e : e = [d EXCEPT !.stage = "dumped", !.named = named, !.dump = dump,
                             !.present = {"postgres.dump"}]
  OBVIOUS
<1>6. dump \in ContentsShape /\ dump.rows = d.snapshot
  BY <1>2, <1>3 DEF ContentsShape, DirectoryShape, BackupInv, BackupShape
<1>7. {"postgres.dump"} \in SUBSET Parts /\ Parts # {"postgres.dump"}
  BY DEF Parts
<1>8. /\ e \in DirectoryShape /\ e.stage = "dumped" /\ e.inventory = d.inventory
      /\ e.snapshot = d.snapshot /\ e.dump = dump /\ e.present = {"postgres.dump"}
  BY <1>2, <1>5, <1>6, <1>7 DEF DirectoryShape
<1>9. Sound(e)
  BY <1>1, <1>2, <1>6, <1>7, <1>8 DEF Sound
<1> QED
  BY <1>1, <1>4, <1>5, <1>8, <1>9, DirectoryMoves DEF Underway

\* Every row has its file, so every row of the snapshot is listed.
LEMMA ListingKeeps ==
  ASSUME BackupInv, NEW b, SafeFiles(b), UNCHANGED <<row, file, sequence, target, restore>>
  PROVE  BackupInv'
<1>1. b \in DOMAIN backup /\ backup[b].stage = "dumped"
  BY DEF SafeFiles, At
<1>2. PICK d \in DirectoryShape : d = backup[b] /\ Sound(d)
  BY <1>1, DirectoryIs
<1>3. Listing \subseteq Files \X {"temporary", "whole"} /\ \A f \in row : <<f, "whole">> \in Listing
  BY DEF Listing, BackupInv, BackupShape
<1>4. PICK e : e = [d EXCEPT !.stage = "listed", !.listed = Listing]
  OBVIOUS
<1>5. backup' = [backup EXCEPT ![b] = e]
  BY <1>2, <1>4 DEF SafeFiles, Becomes
<1>6. /\ e \in DirectoryShape /\ e.stage = "listed" /\ e.inventory = d.inventory
      /\ e.snapshot = d.snapshot /\ e.dump = d.dump /\ e.present = d.present
      /\ e.listed = Listing
  BY <1>2, <1>3, <1>4 DEF DirectoryShape
<1>7. Sound(e)
  BY <1>1, <1>2, <1>3, <1>6 DEF Sound, Parts
<1> QED
  BY <1>1, <1>5, <1>6, <1>7, DirectoryMoves DEF Underway

LEMMA AddingKeeps ==
  ASSUME BackupInv, NEW b, NEW entry \in Files \X {"temporary", "whole"}, AddFile(b, entry),
         UNCHANGED <<row, file, sequence, target, restore>>
  PROVE  BackupInv'
<1>1. b \in DOMAIN backup /\ backup[b].stage = "listed" /\ entry \in backup[b].listed
  BY DEF AddFile, At
<1>2. PICK d \in DirectoryShape : d = backup[b] /\ Sound(d)
  BY <1>1, DirectoryIs
<1>3. PICK tar : tar = IF entry[2] = "whole" THEN d.tar \cup {entry[1]} ELSE d.tar
  OBVIOUS
<1>4. PICK e : e = [d EXCEPT !.listed = d.listed \ {entry}, !.tar = tar]
  OBVIOUS
<1>5. backup' = [backup EXCEPT ![b] = e]
  <2>1. [d EXCEPT !.listed = @ \ {entry},
                  !.tar = IF entry[2] = "whole" THEN @ \cup {entry[1]} ELSE @] = e
    BY <1>2, <1>3, <1>4 DEF DirectoryShape
  <2> QED
    BY <1>2, <2>1 DEF AddFile, Becomes
<1>6. entry[1] \in Files /\ entry = <<entry[1], entry[2]>>
  OBVIOUS
<1>7. /\ e \in DirectoryShape /\ e.stage = "listed" /\ e.inventory = d.inventory
      /\ e.snapshot = d.snapshot /\ e.dump = d.dump /\ e.present = d.present
      /\ e.listed = d.listed \ {entry} /\ e.tar = tar
  BY <1>1, <1>2, <1>3, <1>4, <1>6, ZenonT(60) DEF DirectoryShape
<1>8. \A f \in d.snapshot : f \in tar \/ <<f, "whole">> \in d.listed \ {entry}
  <2> SUFFICES ASSUME NEW f \in d.snapshot, f \notin d.tar, <<f, "whole">> = entry
               PROVE  f \in tar
    BY <1>1, <1>2, <1>3 DEF Sound
  <2>1. entry[1] = f /\ entry[2] = "whole"
    OBVIOUS
  <2> QED
    BY <1>3, <2>1
<1>9. Sound(e)
  BY <1>1, <1>2, <1>7, <1>8 DEF Sound, Parts
<1> QED
  BY <1>1, <1>5, <1>7, <1>9, DirectoryMoves DEF Underway

LEMMA ManifestKeeps ==
  ASSUME BackupInv, NEW b, Manifest(b), UNCHANGED <<row, file, sequence, target, restore>>
  PROVE  BackupInv'
<1>1. b \in DOMAIN backup /\ backup[b].stage = "listed" /\ backup[b].listed = {}
  BY DEF Manifest, At
<1>2. PICK d \in DirectoryShape : d = backup[b] /\ Sound(d)
  BY <1>1, DirectoryIs
<1>3. PICK e : e = [d EXCEPT !.stage = "manifest", !.present = Parts]
  OBVIOUS
<1>4. backup' = [backup EXCEPT ![b] = e]
  BY <1>2, <1>3 DEF Manifest, Becomes
<1>5. /\ e \in DirectoryShape /\ e.stage = "manifest" /\ e.inventory = d.inventory
      /\ e.snapshot = d.snapshot /\ e.dump = d.dump /\ e.tar = d.tar
  BY <1>2, <1>3 DEF DirectoryShape
<1>6. HoldsSnapshot(e)
  BY <1>1, <1>2, <1>5 DEF Sound, HoldsSnapshot
<1>7. Sound(e)
  BY <1>2, <1>5, <1>6 DEF Sound
<1> QED
  BY <1>1, <1>4, <1>5, <1>7, DirectoryMoves DEF Underway

\* A backup ends, in one way or another.
LEMMA RestoreEndKeeps ==
  ASSUME BackupInv, NEW b, Publish(b) \/ BackupFails(b) \/ BackupDies(b),
         UNCHANGED <<row, file, sequence, target, restore>>
  PROVE  BackupInv'
<1>1. b \in DOMAIN backup /\ Underway(b)
  BY DEF Publish, BackupFails, BackupDies, At, Underway
<1>2. PICK d \in DirectoryShape : d = backup[b] /\ Sound(d)
  BY <1>1, DirectoryIs
<1>3. PICK e : /\ backup' = [backup EXCEPT ![b] = e]
               /\ \/ e = [d EXCEPT !.stage = "complete"] /\ d.stage = "manifest"
                  \/ e = [d EXCEPT !.stage = "removed", !.present = {}]
                  \/ e = [d EXCEPT !.stage = "incomplete"]
  BY <1>2 DEF Publish, BackupFails, BackupDies, Becomes, At
<1>4. /\ e \in DirectoryShape /\ e.inventory = d.inventory
      /\ e.snapshot = d.snapshot /\ e.dump = d.dump /\ e.tar = d.tar
      /\ e.stage \in {"complete", "removed", "incomplete"}
      /\ e.stage = "complete" => d.stage = "manifest"
      /\ e.present = d.present \/ e.present = {}
      /\ e.stage = "removed" => e.present = {}
  BY <1>2, <1>3 DEF DirectoryShape
<1>5. e.present = Parts => d.present = Parts
  BY <1>4 DEF Parts
<1>6. Sound(e)
  BY <1>2, <1>4, <1>5 DEF Sound, HoldsSnapshot
<1> QED
  BY <1>1, <1>3, <1>4, <1>6, DirectoryMoves

LEMMA DamageKeeps ==
  ASSUME BackupInv, NEW b, NEW piece \in Parts, Damage(b, piece),
         UNCHANGED <<row, file, sequence, target, restore>>
  PROVE  BackupInv'
<1>1. b \in DOMAIN backup /\ backup[b].stage = "complete"
  BY DEF Damage, At
<1>2. PICK d \in DirectoryShape : d = backup[b] /\ Sound(d)
  BY <1>1, DirectoryIs
<1>3. PICK e : e = [d EXCEPT !.present = d.present \ {piece}, !.damaged = d.damaged \cup {piece}]
  OBVIOUS
<1>4. backup' = [backup EXCEPT ![b] = e]
  <2>1. [d EXCEPT !.present = @ \ {piece}, !.damaged = @ \cup {piece}] = e
    BY <1>2, <1>3 DEF DirectoryShape
  <2> QED
    BY <1>2, <2>1 DEF Damage, Becomes
<1>5. e \in DirectoryShape /\ SameContents(e, d)
  BY <1>2, <1>3 DEF DirectoryShape, SameContents
<1>6. Sound(e)
  BY <1>1, <1>2, <1>5 DEF Sound, HoldsSnapshot, SameContents
<1> QED
  BY <1>1, <1>2, <1>4, <1>5, <1>6, DirectoryMoves

LEMMA BeginningKeeps ==
  ASSUME BackupInv, BackupBegin, UNCHANGED <<row, file, sequence, target, restore>>
  PROVE  BackupInv'
<1>1. PICK e : e = [stage |-> "begun", snapshot |-> {}, inventory |-> Nothing,
                    dump |-> Nothing, named |-> TRUE, listed |-> {}, tar |-> {},
                    present |-> {}, damaged |-> {}]
  OBVIOUS
<1>2. Nothing \in ContentsShape
  BY DEF Nothing, ContentsShape
<1>3. e \in DirectoryShape /\ e.stage = "begun" /\ e.snapshot = {} /\ e.present = {}
  BY <1>1, <1>2 DEF DirectoryShape
<1>4. Sound(e)
  BY <1>3 DEF Sound, Parts
<1>5. backup' = Append(backup, e)
  BY <1>1 DEF BackupBegin
<1>6. backup \in Seq(DirectoryShape)
  BY DEF BackupInv, BackupShape
<1>7. /\ backup' \in Seq(DirectoryShape) /\ DOMAIN backup \subseteq DOMAIN backup'
      /\ \A b \in DOMAIN backup : backup'[b] = backup[b]
      /\ \A b \in DOMAIN backup' : b \in DOMAIN backup \/ backup'[b] = e
  BY <1>3, <1>5, <1>6
<1>8. BackupShape'
  BY <1>7 DEF BackupInv, BackupShape
<1>9. \A b \in DOMAIN backup' : Sound(backup'[b])
  BY <1>4, <1>7 DEF BackupInv
<1>10. \A b \in DOMAIN backup' : Sound(backup[b])'
  BY <1>9 DEF Sound, HoldsSnapshot
<1>11. Restoring'
  BY <1>7 DEF BackupInv, Restoring, Chosen, HoldsSnapshot
<1> QED
  BY <1>8, <1>10, <1>11 DEF BackupInv

\* The application writes: rows are only added, each with its file.
LEMMA ApplicationKeeps ==
  ASSUME BackupInv, Application
  PROVE  BackupInv'
<1>1. /\ row \subseteq row' /\ row' \subseteq Files /\ sequence' \in Nat
      /\ file' \in [Files -> {"none", "temporary", "whole"}]
      /\ \A f \in row' : file'[f] = "whole"
  <2>1. CASE \E f \in Files : WriteBegin(f) \/ WriteEnd(f) \/ WriteUndone(f) \/ RowCommit(f)
    <3>1. PICK f \in Files : WriteBegin(f) \/ WriteEnd(f) \/ WriteUndone(f) \/ RowCommit(f)
      BY <2>1
    <3>2. CASE WriteBegin(f)
      BY <3>2 DEF WriteBegin, BackupInv, BackupShape
    <3>3. CASE WriteEnd(f)
      BY <3>3 DEF WriteEnd, BackupInv, BackupShape
    <3>4. CASE WriteUndone(f)
      BY <3>4 DEF WriteUndone, BackupInv, BackupShape
    <3>5. CASE RowCommit(f)
      BY <3>5 DEF RowCommit, BackupInv, BackupShape
    <3> QED
      BY <3>1, <3>2, <3>3, <3>4, <3>5
  <2>2. CASE DrawKey
    BY <2>2 DEF DrawKey, BackupInv, BackupShape
  <2> QED
    BY <2>1, <2>2 DEF Application
<1>2. UNCHANGED <<backup, target, restore>>
  BY DEF Application
<1>3. BackupShape'
  BY <1>1, <1>2 DEF BackupInv, BackupShape
<1>4. \A b \in DOMAIN backup' : Sound(backup[b])'
  BY <1>1, <1>2 DEF BackupInv, Sound, HoldsSnapshot
<1>5. Restoring'
  BY <1>2 DEF BackupInv, Restoring, Chosen, HoldsSnapshot
<1> QED
  BY <1>1, <1>3, <1>4, <1>5 DEF BackupInv

LEMMA BackupKeeps ==
  ASSUME BackupInv, Backup
  PROVE  BackupInv'
<1>1. UNCHANGED <<row, file, sequence, target, restore>>
  BY DEF Backup, sourceVars
<1>2. CASE BackupBegin
  BY <1>1, <1>2, BeginningKeeps
<1>3. ASSUME NEW b \in 1 .. MaxBackups,
             \/ Snapshot(b) \/ DatabaseInventory(b) \/ PgDump(b) \/ SafeFiles(b)
             \/ \E entry \in Files \X {"temporary", "whole"} : AddFile(b, entry)
             \/ Manifest(b) \/ Publish(b) \/ BackupFails(b) \/ BackupDies(b)
             \/ \E piece \in Parts : Damage(b, piece)
      PROVE  BackupInv'
  BY <1>1, <1>3, SnapshotKeeps, InventoryKeeps, DumpKeeps, ListingKeeps, AddingKeeps,
     ManifestKeeps, RestoreEndKeeps, DamageKeeps
<1> QED
  BY <1>2, <1>3 DEF Backup

\* The restore goes on from one stage to another.
LEMMA RestoreMoves ==
  ASSUME BackupInv, UNCHANGED <<row, file, sequence, backup>>,
         restore' \in RestoreShape, target' \in TargetShape,
         restore'.stage \notin {"idle", "failed"} =>
           /\ restore'.backup \in DOMAIN backup
           /\ backup[restore'.backup].stage \in {"complete", "incomplete"}
           /\ HoldsSnapshot(backup[restore'.backup])
           /\ restore'.stage \in {"compared", "done"} =>
                /\ target'.rows = backup[restore'.backup].inventory.rows
                /\ target'.sequence = backup[restore'.backup].inventory.sequence
                /\ target'.foreign \in Unlisted \cup {"none"}
           /\ restore'.stage = "done" =>
                backup[restore'.backup].tar \subseteq target'.files /\ target'.knowledge
  PROVE  BackupInv'
<1>1. BackupShape'
  BY DEF BackupInv, BackupShape
<1>2. \A b \in DOMAIN backup' : Sound(backup[b])'
  BY DEF BackupInv, Sound, HoldsSnapshot
<1>3. Restoring'
  BY DEF Restoring, Chosen, HoldsSnapshot
<1> QED
  BY <1>1, <1>2, <1>3 DEF BackupInv

\* The stage of a restore may be written whichever shape its record has.
LEMMA RestoreStaged ==
  ASSUME BackupInv, NEW to \in RestoreStages, restore' = [restore EXCEPT !.stage = to]
  PROVE  /\ restore' \in RestoreShape /\ restore'.stage = to
         /\ restore'.backup = restore.backup
<1>1. PICK r \in RestoreShape : r = restore
  BY DEF BackupInv, BackupShape
<1>2. PICK e : e = [r EXCEPT !.stage = to]
  OBVIOUS
<1>3. e \in RestoreShape /\ e.stage = to /\ e.backup = r.backup
  <2>1. CASE r \in [stage : RestoreStages, backup : Nat, attempts : Nat]
    <3>1. /\ e \in [stage : RestoreStages, backup : Nat, attempts : Nat]
          /\ e.stage = to /\ e.backup = r.backup
      BY <1>2, <2>1
    <3> QED
      BY <3>1 DEF RestoreShape
  <2>2. CASE r \in [stage : RestoreStages, backup : Nat, attempts : Nat, policy : Policies]
    <3>1. /\ e \in [stage : RestoreStages, backup : Nat, attempts : Nat, policy : Policies]
          /\ e.stage = to /\ e.backup = r.backup
      BY <1>2, <2>2
    <3> QED
      BY <3>1 DEF RestoreShape
  <2> QED
    BY <1>1, <2>1, <2>2 DEF RestoreShape
<1> QED
  BY <1>1, <1>2, <1>3

LEMMA RestoreFailed ==
  ASSUME BackupInv, Fails
  PROVE  restore' \in RestoreShape /\ restore'.stage = "failed"
<1>1. PICK r \in RestoreShape : r = restore
  BY DEF BackupInv, BackupShape
<1>2. PICK e : e = [r EXCEPT !.stage = "failed", !.backup = 0]
  OBVIOUS
<1>3. e \in RestoreShape /\ e.stage = "failed"
  <2>1. CASE r \in [stage : RestoreStages, backup : Nat, attempts : Nat]
    <3>1. /\ e \in [stage : RestoreStages, backup : Nat, attempts : Nat] /\ e.stage = "failed"
      BY <1>2, <2>1 DEF RestoreStages
    <3> QED
      BY <3>1 DEF RestoreShape
  <2>2. CASE r \in [stage : RestoreStages, backup : Nat, attempts : Nat, policy : Policies]
    <3>1. /\ e \in [stage : RestoreStages, backup : Nat, attempts : Nat, policy : Policies]
          /\ e.stage = "failed"
      BY <1>2, <2>2 DEF RestoreStages
    <3> QED
      BY <3>1 DEF RestoreShape
  <2> QED
    BY <1>1, <2>1, <2>2 DEF RestoreShape
<1> QED
  BY <1>1, <1>2, <1>3 DEF Fails

\* A stage before the comparison follows another.
LEMMA EarlierStageKeeps ==
  ASSUME BackupInv, UNCHANGED <<row, file, sequence, backup>>,
         restore.stage \notin {"idle", "failed"},
         NEW to \in RestoreStages \ {"compared", "done"}, restore' = [restore EXCEPT !.stage = to],
         target' \in TargetShape
  PROVE  BackupInv'
<1>1. restore' \in RestoreShape /\ restore'.stage = to /\ restore'.backup = restore.backup
  BY RestoreStaged
<1>2. restore.backup \in DOMAIN backup /\ backup[restore.backup].stage \in {"complete", "incomplete"}
      /\ HoldsSnapshot(backup[restore.backup])
  BY DEF BackupInv, Restoring, Chosen
<1> QED
  BY <1>1, <1>2, RestoreMoves

\* What each step of a restore does to the target
LEMMA TargetChanges ==
  ASSUME BackupInv
  PROVE  /\ target \in TargetShape
         /\ [target EXCEPT !.public = FALSE] \in TargetShape
         /\ [target EXCEPT !.public = TRUE, !.schemaOwner = "pg_database_owner"] \in TargetShape
         /\ \A f \in Files : [target EXCEPT !.files = @ \cup {f}] \in TargetShape
         /\ [target EXCEPT !.knowledge = TRUE] \in TargetShape
         /\ \A kind \in ForeignKinds : [target EXCEPT !.foreign = kind] \in TargetShape
BY DEF BackupInv, BackupShape, TargetShape, Roles

LEMMA RestoreBeginKeeps ==
  ASSUME BackupInv, NEW b, NEW policy \in Policies, RestoreBegin(b, policy),
         UNCHANGED <<row, file, sequence, backup>>
  PROVE  BackupInv'
<1>1. /\ b \in DOMAIN backup /\ ~Underway(b) /\ backup[b].present = Parts
      /\ "manifest.json" \in backup[b].present /\ target' = target
      /\ restore' = [stage |-> "verified", backup |-> b, attempts |-> restore.attempts + 1,
                     policy |-> policy]
  BY DEF RestoreBegin, Verifiable, ManifestValid
<1>2. PICK d \in DirectoryShape : d = backup[b] /\ Sound(d) /\ b \in Nat
  BY <1>1, DirectoryIs
<1>3. HoldsSnapshot(d) /\ d.stage \in {"complete", "incomplete"}
  BY <1>1, <1>2 DEF Sound, Underway
<1>4. restore.attempts \in Nat
  BY DEF BackupInv, BackupShape, RestoreShape
<1>5. restore' \in RestoreShape /\ restore'.stage = "verified" /\ restore'.backup = b
  BY <1>1, <1>2, <1>4 DEF RestoreShape, RestoreStages
<1>6. target' \in TargetShape
  BY <1>1, TargetChanges
<1> QED
  BY <1>1, <1>2, <1>3, <1>5, <1>6, RestoreMoves

LEMMA PgRestoreKeeps ==
  ASSUME BackupInv, PgRestore, UNCHANGED <<row, file, sequence, backup>>
  PROVE  BackupInv'
<1>1. /\ restore.stage \notin {"idle", "failed"} /\ target.rows = NoRows
      /\ restore' = [restore EXCEPT !.stage = "restored"]
  BY DEF PgRestore
<1>2. PICK rows : 
        /\ rows \in IF "postgres.dump" \in Chosen.damaged THEN SUBSET Files ELSE {Chosen.dump.rows}
        /\ target' = [target EXCEPT
             !.rows = rows, !.sequence = Chosen.dump.sequence, !.public = TRUE,
             !.owner = target.login,
             !.schemaOwner = IF target.public THEN @ ELSE target.login]
  BY DEF PgRestore
<1>3. restore.backup \in DOMAIN backup
  BY <1>1 DEF BackupInv, Restoring
<1>4. Chosen.dump \in ContentsShape
  BY <1>3, DirectoryIs DEF Chosen, DirectoryShape
<1>5. rows \in (SUBSET Files) \cup {NoRows} /\ Chosen.dump.sequence \in Nat
  BY <1>2, <1>4 DEF ContentsShape
<1>6. PICK t \in TargetShape : t = target
  BY TargetChanges
<1>7. PICK number \in Nat : number = Chosen.dump.sequence
  BY <1>5
<1>8. PICK owner : owner = IF t.public THEN t.schemaOwner ELSE t.login
  OBVIOUS
<1>9. target' = [t EXCEPT !.rows = rows, !.sequence = number, !.public = TRUE,
                         !.owner = t.login, !.schemaOwner = owner]
  BY <1>2, <1>6, <1>7, <1>8 DEF TargetShape
<1>10. target' \in TargetShape
  BY <1>5, <1>8, <1>9 DEF TargetShape
<1>11. "restored" \in RestoreStages \ {"compared", "done"}
  BY DEF RestoreStages
<1> QED
  BY <1>1, <1>10, <1>11, EarlierStageKeeps

LEMMA RestoreKeeps ==
  ASSUME BackupInv, Restore
  PROVE  BackupInv'
<1>1. UNCHANGED <<row, file, sequence, backup>>
  BY DEF Restore, sourceVars
<1>2. ASSUME NEW b \in 1 .. MaxBackups, NEW policy \in Policies, RestoreBegin(b, policy)
      PROVE  BackupInv'
  BY <1>1, <1>2, RestoreBeginKeeps
<1>3. /\ "checked" \in RestoreStages \ {"compared", "done"}
      /\ "dropping" \in RestoreStages \ {"compared", "done"}
      /\ "prepared" \in RestoreStages \ {"compared", "done"}
      /\ "initialized" \in RestoreStages \ {"compared", "done"}
      /\ "compared" \in RestoreStages /\ "done" \in RestoreStages
  BY DEF RestoreStages
<1>4. CASE CheckTarget
  BY <1>1, <1>3, <1>4, TargetChanges, EarlierStageKeeps DEF CheckTarget, Stage
<1>5. CASE Prepare
  <2>1. PICK to \in {"dropping", "prepared"} : restore' = [restore EXCEPT !.stage = to]
    BY <1>5 DEF Prepare
  <2>2. restore.stage = "checked" /\ target' = target
    BY <1>5 DEF Prepare
  <2> QED
    BY <1>1, <1>3, <2>1, <2>2, TargetChanges, EarlierStageKeeps
<1>6. CASE DropPublic
  <2>1. /\ restore.stage = "dropping" /\ target' = [target EXCEPT !.public = FALSE]
        /\ Fails \/ restore' = [restore EXCEPT !.stage = "prepared"]
    BY <1>6 DEF DropPublic, Stage
  <2>2. target' \in TargetShape
    BY <2>1, TargetChanges
  <2>3. CASE Fails
    BY <1>1, <2>2, <2>3, RestoreFailed, RestoreMoves
  <2> QED
    BY <1>1, <1>3, <2>1, <2>2, <2>3, EarlierStageKeeps
<1>7. CASE Initialize
  BY <1>1, <1>3, <1>7, TargetChanges, EarlierStageKeeps DEF Initialize, Stage
<1>8. CASE PgRestore
  BY <1>1, <1>8, PgRestoreKeeps
<1>9. CASE Compare
  <2>1. /\ restore.stage = "restored" /\ restore' = [restore EXCEPT !.stage = "compared"]
        /\ target' = target /\ target.rows = Chosen.inventory.rows
        /\ target.sequence = Chosen.inventory.sequence
        /\ target.foreign \in Unlisted \cup {"none"}
    BY <1>9 DEF Compare, Stage, InventoryMatches
  <2>2. /\ restore' \in RestoreShape /\ restore'.stage = "compared"
        /\ restore'.backup = restore.backup
    BY <1>3, <2>1, RestoreStaged
  <2>3. /\ restore.backup \in DOMAIN backup
        /\ backup[restore.backup].stage \in {"complete", "incomplete"}
        /\ HoldsSnapshot(backup[restore.backup])
    BY <2>1 DEF BackupInv, Restoring, Chosen
  <2>4. target' \in TargetShape
    BY <2>1, TargetChanges
  <2> QED
    BY <1>1, <2>1, <2>2, <2>3, <2>4, RestoreMoves DEF Chosen
<1>10. ASSUME NEW f \in Files, Extract(f)
       PROVE  BackupInv'
  <2>1. /\ restore.stage = "compared" /\ restore' = restore
        /\ target' = [target EXCEPT !.files = @ \cup {f}]
    BY <1>10 DEF Extract
  <2>2. PICK t \in TargetShape : t = target
    BY TargetChanges
  <2>3. /\ target' \in TargetShape /\ target'.rows = target.rows
        /\ target'.sequence = target.sequence /\ target'.foreign = target.foreign
    BY <2>1, <2>2 DEF TargetShape
  <2>4. restore' \in RestoreShape
    BY <2>1 DEF BackupInv, BackupShape
  <2> QED
    BY <1>1, <2>1, <2>3, <2>4, RestoreMoves DEF BackupInv, Restoring, Chosen
<1>11. CASE RestoreKnowledge
  <2>1. /\ restore.stage = "compared" /\ restore' = [restore EXCEPT !.stage = "done"]
        /\ Chosen.tar \subseteq target.files
        /\ target' = [target EXCEPT !.knowledge = TRUE]
    BY <1>11 DEF RestoreKnowledge, Stage
  <2>2. PICK t \in TargetShape : t = target
    BY TargetChanges
  <2>3. /\ target' \in TargetShape /\ target'.rows = target.rows
        /\ target'.sequence = target.sequence /\ target'.foreign = target.foreign
        /\ target'.files = target.files /\ target'.knowledge
    BY <2>1, <2>2 DEF TargetShape
  <2>4. /\ restore' \in RestoreShape /\ restore'.stage = "done"
        /\ restore'.backup = restore.backup
    BY <1>3, <2>1, RestoreStaged
  <2> QED
    BY <1>1, <2>1, <2>3, <2>4, RestoreMoves DEF BackupInv, Restoring, Chosen
<1>12. CASE RestoreFails
  BY <1>1, <1>12, RestoreFailed, RestoreMoves, TargetChanges DEF RestoreFails
<1> QED
  BY <1>2, <1>4, <1>5, <1>6, <1>7, <1>8, <1>9, <1>10, <1>11, <1>12 DEF Restore

LEMMA IntrusionKeeps ==
  ASSUME BackupInv, NEW kind \in ForeignKinds, Intrude(kind)
  PROVE  BackupInv'
<1>1. /\ restore.stage \notin {"compared", "done"}
      /\ target' = [target EXCEPT !.foreign = kind]
      /\ UNCHANGED <<row, file, sequence, backup, restore>>
  BY DEF Intrude, sourceVars
<1>2. target' \in TargetShape /\ restore' \in RestoreShape
  BY <1>1, TargetChanges DEF BackupInv, BackupShape
<1> QED
  BY <1>1, <1>2, RestoreMoves DEF BackupInv, Restoring, Chosen

LEMMA BackupsBegin ==
  ASSUME Init
  PROVE  BackupInv
<1>1. BackupShape
  BY TargetsAssumption DEF Init, BackupShape, RestoreShape, RestoreStages
<1>2. Restoring
  BY DEF Init, Restoring
<1> QED
  BY <1>1, <1>2 DEF Init, BackupInv

LEMMA BackupsStay ==
  ASSUME BackupInv, UNCHANGED backupVars
  PROVE  BackupInv'
BY DEF BackupInv, BackupShape, Sound, HoldsSnapshot, Restoring, Chosen, backupVars

LEMMA BackupInvariant == OperationsSpec => []BackupInv
<1>1. OperationsInit => BackupInv
  BY BackupsBegin DEF OperationsInit
<1>2. BackupInv /\ [OperationsNext]_operationsVars => BackupInv'
  <2> SUFFICES ASSUME BackupInv, [OperationsNext]_operationsVars
               PROVE  BackupInv'
    OBVIOUS
  <2>1. CASE BackupStep
    BY <2>1, ApplicationKeeps, BackupKeeps, RestoreKeeps, IntrusionKeeps DEF BackupStep, Next
  <2>2. CASE UNCHANGED operationsVars
    BY <2>2, BackupsStay DEF operationsVars
  <2>3. CASE DescriptionStep \/ KnowledgeStep \/ TelemetryStep \/ AnswerStep \/ SpendingStep
             \/ AccessStep \/ GateStep
    BY <2>3, BackupsStay DEF DescriptionStep, KnowledgeStep, TelemetryStep, AnswerStep,
       SpendingStep, AccessStep, GateStep
  <2> QED
    BY <2>1, <2>2, <2>3 DEF OperationsNext
<1> QED
  BY <1>1, <1>2, PTL DEF OperationsSpec

\* Whatever the application writes during a backup, and whatever fails or is damaged, a
\* complete backup has the rows of one moment and their files, and a restore that ends
\* well has restored them and found no listed object of somebody else's; views, types and
\* schemas are not looked for (scripts/v2_backup_restore.py).
THEOREM BackupsStayWhole == OperationsSpec => []BackupsAreWhole
<1>1. BackupInv => BackupsAreWhole
  <2> SUFFICES ASSUME BackupInv
               PROVE  BackupsAreWhole
    OBVIOUS
  <2>1. BackupHasItsFiles
    BY DEF BackupInv, BackupHasItsFiles, Sound, HoldsSnapshot
  <2>2. RestoredWhole
    BY DEF BackupInv, Restoring, RestoredWhole, HoldsSnapshot
  <2> QED
    BY <2>1, <2>2 DEF BackupsAreWhole
<1> QED
  BY <1>1, BackupInvariant, PTL

\* No step of a restore drops or overwrites what it did not create: neither an object of
\* somebody else's nor rows that are there already.
THEOREM TargetIsKept == OperationsSpec => TargetKept
<1> DEFINE Kept == /\ target.foreign # "none" => target'.foreign = target.foreign
                   /\ target.rows # NoRows => target'.rows = target.rows
<1>1. BackupInv /\ [OperationsNext]_operationsVars => [Kept]_backupVars
  <2> SUFFICES ASSUME BackupInv, [OperationsNext]_operationsVars, ~UNCHANGED backupVars
               PROVE  Kept
    OBVIOUS
  <2>1. Next
    BY DEF OperationsNext, BackupStep, DescriptionStep, KnowledgeStep, TelemetryStep, AnswerStep,
       SpendingStep, AccessStep, GateStep, operationsVars
  <2>2. PICK t \in TargetShape : t = target
    BY TargetChanges
  <2>3. CASE Application \/ Backup
    BY <2>3 DEF Application, Backup
  <2>4. CASE \E kind \in ForeignKinds : Intrude(kind)
    BY <2>2, <2>4 DEF Intrude, TargetShape
  <2>5. CASE Restore
    <3>1. CASE target' = target
      BY <3>1
    <3>2. CASE DropPublic
      BY <2>2, <3>2 DEF DropPublic, TargetShape
    <3>3. CASE Initialize
      BY <2>2, <3>3 DEF Initialize, TargetShape
    <3>4. CASE PgRestore
      <4>1. target.rows = NoRows
        BY <3>4 DEF PgRestore
      <4>2. PICK rows :
              target' = [target EXCEPT
                !.rows = rows, !.sequence = Chosen.dump.sequence, !.public = TRUE,
                !.owner = target.login,
                !.schemaOwner = IF target.public THEN @ ELSE target.login]
        BY <3>4 DEF PgRestore
      <4> QED
        BY <2>2, <4>1, <4>2 DEF TargetShape
    <3>5. CASE RestoreKnowledge
      BY <2>2, <3>5 DEF RestoreKnowledge, TargetShape
    <3>6. CASE \E f \in Files : Extract(f)
      BY <2>2, <3>6 DEF Extract, TargetShape
    <3> QED
      BY <2>5, <3>1, <3>2, <3>3, <3>4, <3>5, <3>6
         DEF Restore, RestoreBegin, CheckTarget, Prepare, Compare, RestoreFails
  <2> QED
    BY <2>1, <2>3, <2>4, <2>5 DEF Next
<1> QED
  BY <1>1, BackupInvariant, PTL DEF OperationsSpec, TargetKept

-----------------------------------------------------------------------------
(* The gate of a release (ReleaseGate)                                     *)
(*                                                                         *)
(* What the collector writes names the requests it has made, of which a    *)
(* verdict marks at most one for its errors.                               *)

AllDefects == Gate!AnswerDefects \cup Gate!LogDefects \cup {Gate!Proxied}

MarkedRun(d, persistent) == [Gate!Run(d) EXCEPT !.persistent = persistent]
RunSet == {MarkedRun(d, persistent) : d \in SUBSET AllDefects, persistent \in BOOLEAN}
ProbeSet == {Gate!Probe(d) : d \in SUBSET Gate!ProbeDefects}
Paths == {"candidate-public-equivalent", "production-actual-public-direct"}
Verdicts == {"PASS", "PASS_WITH_WARNING", "FAIL", "HARD_FAIL"}
EvidenceShape ==
  [path : Paths \cup {"none"}, attested : BOOLEAN, probes : Seq(ProbeSet), runs : Seq(RunSet),
   verdict : Verdicts \cup {"none"}, failed : BOOLEAN]

Erring(collected) == {i \in DOMAIN collected : Gate!Has(collected[i].defects, "errors")}

GateShape ==
  /\ path \in Paths /\ attested \in BOOLEAN /\ exit \in {0, 1, 2, Missing}
  /\ collector \in {"probing", "setting_up", "collecting", "marking", "ended"}
  /\ probes \in Seq(ProbeSet) /\ runs \in Seq(RunSet) /\ evidence \in EvidenceShape

Limited ==
  /\ Len(probes) <= 2 /\ (collector = "probing" => Len(probes) < 2)
  /\ Len(runs) <= 5 /\ (collector = "collecting" => Len(runs) < 5)
  /\ collector \in {"probing", "setting_up"} => runs = << >>

\* Evidence that was judged has marked the errors of two runs.
Marking(e) ==
  e.verdict # "none" /\ Cardinality(Erring(e.runs)) >= 2 =>
    \A i \in Erring(e.runs) : e.runs[i].persistent

GateInv ==
  /\ GateShape /\ Limited /\ Marking(evidence)
  /\ collector # "ended" => exit = Missing
  /\ exit = 0 => /\ Gate!ReleaseAllowed(evidence) /\ evidence.path = path
                 /\ evidence.verdict # "none" /\ ~evidence.failed

LEMMA GateCardinality == \A S : Gate!Cardinality(S) = Cardinality(S)
BY DEF Gate!Cardinality, Cardinality

\* What is seen of a request, marked or not
LEMMA RunSays ==
  ASSUME NEW d, NEW persistent, NEW run, run = MarkedRun(d, persistent)
  PROVE  /\ run.status = Gate!Status(d) /\ run.transport = Gate!TransportError(d)
         /\ run.complete = Gate!Complete(d)
         /\ run.ownId = (~Gate!Has(d, "no_answer") /\ ~Gate!Has(d, "other_id"))
         /\ run.correct = (Gate!Correct(d) /\ ~Gate!Has(d, "other_id"))
         /\ run.logged = [s \in {"edge", "frontend", "completion"} |-> Gate!Logged(s, d)]
         /\ run.observed = Gate!Seen("normalization", d)
         /\ run.fallback = (Gate!Seen("normalization", d) /\ Gate!Has(d, "fallback"))
         /\ run.rag = (Gate!Parsed(d) /\ ~Gate!Has(d, "no_rag"))
         /\ run.history = (Gate!Parsed(d) /\ ~Gate!Has(d, "unsaved"))
         /\ run.metrics = (Gate!Parsed(d) /\ ~Gate!Has(d, "unmeasured"))
         /\ run.scanned = {l \in Gate!Layers : <<"unread", l>> \notin d}
         /\ run.errors = Gate!Has(d, "errors")
         /\ run.persistent = persistent /\ run.defects = d
BY DEF MarkedRun, Gate!Run

\* Only a fallback and errors in the logs escape the hard gate and correctness.
LEMMA SoundRun ==
  ASSUME NEW e, NEW d \in SUBSET AllDefects, NEW persistent \in BOOLEAN, NEW run,
         run = MarkedRun(d, persistent), Gate!RunHolds(e, run), run.correct
  PROVE  /\ d \subseteq {"fallback", "errors"} \X {"request"}
         /\ run.fallback <=> Gate!Has(d, "fallback")
         /\ ~persistent /\ run.defects = d
<1>1. /\ ~Gate!Has(d, "proxied") /\ ~Gate!Has(d, "no_answer") /\ ~Gate!Has(d, "cut")
  BY RunSays DEF Gate!RunHolds, Gate!TransportError
<1>2. ~Gate!Has(d, "error") /\ run.status = 200
  <2>1. run.status = Gate!Status(d) /\ run.status = 200
    BY RunSays DEF Gate!RunHolds, Gate!Is2xx
  <2> QED
    BY <1>1, <2>1 DEF Gate!Status
<1>3. /\ ~Gate!Has(d, "incomplete") /\ ~Gate!Has(d, "wrong") /\ ~Gate!Has(d, "no_rag")
      /\ ~Gate!Has(d, "other_id") /\ ~Gate!Has(d, "unsaved") /\ ~Gate!Has(d, "unmeasured")
  <2>1. run.ownId /\ run.history /\ run.metrics /\ run.correct
    BY DEF Gate!RunHolds
  <2>2. /\ ~Gate!Has(d, "other_id") /\ ~Gate!Has(d, "unsaved") /\ ~Gate!Has(d, "unmeasured")
        /\ Gate!Correct(d)
    BY <2>1, RunSays
  <2> QED
    BY <2>2 DEF Gate!Correct, Gate!Complete
<1>4. \A l \in Gate!Layers : <<"unread", l>> \notin d
  <2>1. run.scanned = Gate!Layers
    BY DEF Gate!RunHolds
  <2>2. run.scanned = {l \in Gate!Layers : <<"unread", l>> \notin d}
    BY RunSays
  <2> QED
    BY <2>1, <2>2
<1>5. \A s \in {"edge", "frontend", "completion"} :
        Gate!Seen(s, d) /\ <<"differs", s>> \notin d
  <2> SUFFICES ASSUME NEW s \in {"edge", "frontend", "completion"}
               PROVE  Gate!Seen(s, d) /\ <<"differs", s>> \notin d
    OBVIOUS
  <2>1. run.logged = [x \in {"edge", "frontend", "completion"} |-> Gate!Logged(x, d)]
    BY RunSays
  <2>2. Gate!Logged(s, d) = 200
    BY <1>2, <2>1 DEF Gate!RunHolds
  <2> QED
    BY <2>2, MissingAssumption DEF Gate!Logged
<1>6. Gate!Seen("normalization", d)
  BY RunSays DEF Gate!RunHolds
<1>7. \A s \in DOMAIN Gate!Sources : <<"unlogged", s>> \notin d /\ <<"repeated", s>> \notin d
  <2>1. \A s \in {"edge", "frontend", "completion", "normalization"} : Gate!Seen(s, d)
    BY <1>5, <1>6
  <2>2. DOMAIN Gate!Sources = {"edge", "frontend", "completion", "normalization"}
    BY DEF Gate!Sources
  <2>3. \A s : Gate!Seen(s, d) => <<"unlogged", s>> \notin d /\ <<"repeated", s>> \notin d
    BY DEF Gate!Seen, Gate!Lines
  <2> QED
    BY <2>1, <2>2, <2>3
<1>8. ~persistent /\ run.defects = d
  BY RunSays DEF Gate!RunHolds
<1>9. run.fallback <=> Gate!Has(d, "fallback")
  BY <1>6, RunSays
<1>10. \A x \in d : x \in {"fallback", "errors"} \X {"request"}
  <2> SUFFICES ASSUME NEW x \in d
               PROVE  x \in {"fallback", "errors"} \X {"request"}
    OBVIOUS
  <2>1. CASE x \in Gate!AnswerDefects
    <3>1. PICK kind \in {"no_answer", "cut", "error", "incomplete", "wrong", "no_rag", "other_id",
                         "unsaved", "unmeasured", "fallback", "errors"} : x = <<kind, "request">>
      BY <2>1 DEF Gate!AnswerDefects
    <3> QED
      BY <1>1, <1>2, <1>3, <3>1 DEF Gate!Has
  <2>2. CASE x \in Gate!LogDefects
    <3>1. CASE x \in {"unread"} \X Gate!Layers
      BY <1>4, <3>1
    <3>2. CASE x \in {"unlogged", "repeated"} \X DOMAIN Gate!Sources
      <4>1. PICK kind \in {"unlogged", "repeated"}, s \in DOMAIN Gate!Sources : x = <<kind, s>>
        BY <3>2
      <4> QED
        BY <1>7, <4>1
    <3>3. CASE x \in {"differs"} \X {"edge", "frontend", "completion"}
      BY <1>5, <3>3
    <3> QED
      BY <2>2, <3>1, <3>2, <3>3 DEF Gate!LogDefects
  <2>3. CASE x = Gate!Proxied
    BY <1>1, <2>3 DEF Gate!Proxied, Gate!Has
  <2> QED
    BY <2>1, <2>2, <2>3 DEF AllDefects
<1> QED
  BY <1>8, <1>9, <1>10

LEMMA RunIs ==
  ASSUME NEW run \in RunSet
  PROVE  \E d \in SUBSET AllDefects, persistent \in BOOLEAN : run = MarkedRun(d, persistent)
BY DEF RunSet

LEMMA VerifiedProbe ==
  ASSUME NEW probe \in ProbeSet, Gate!Verified(probe)
  PROVE  probe.defects = {}
<1>1. PICK d \in SUBSET Gate!ProbeDefects : probe = Gate!Probe(d)
  BY DEF ProbeSet
<1>2. /\ probe.direct = ~Gate!Has(d, "proxied") /\ probe.tls = ~Gate!Has(d, "no_tls")
      /\ probe.ok = ~Gate!Has(d, "error") /\ probe.nonempty = ~Gate!Has(d, "empty")
      /\ probe.defects = d
  BY <1>1 DEF Gate!Probe
<1>3. \A kind \in {"proxied", "no_tls", "error", "empty"} : <<kind, "request">> \notin d
  BY <1>2 DEF Gate!Verified, Gate!Has
<1>4. \A x \in d : FALSE
  BY <1>3 DEF Gate!ProbeDefects
<1> QED
  BY <1>2, <1>4

\* Evidence that allows a release has earned it.
LEMMA AllowedIsEarned ==
  ASSUME NEW e \in EvidenceShape, Marking(e), Gate!ReleaseAllowed(e)
  PROVE  /\ Gate!Earned(e)
         /\ e.verdict # "none" => Gate!Cardinality(Erring(e.runs)) <= 1
<1>1. ~Gate!HardFailure(e) /\ ~Gate!Failure(e)
  BY DEF Gate!ReleaseAllowed, Gate!Verdict
<1>2. Gate!ProbesHold(e) /\ e.attested /\ Len(e.runs) = 5
  BY <1>1 DEF Gate!HardFailure, Gate!RunCount
<1>3. e.runs \in Seq(RunSet) /\ e.probes \in Seq(ProbeSet)
  BY DEF EvidenceShape
<1>4. DOMAIN e.runs = 1 .. 5 /\ \A i \in 1 .. 5 : e.runs[i] \in RunSet
  BY <1>2, <1>3
<1>5. \A i \in 1 .. 5 : Gate!RunHolds(e, e.runs[i]) /\ e.runs[i].correct
  BY <1>1, <1>4 DEF Gate!HardFailure, Gate!Failure
<1>6. \A i \in 1 .. 5 :
        /\ e.runs[i].defects \subseteq {"fallback", "errors"} \X {"request"}
        /\ e.runs[i].fallback <=> Gate!Has(e.runs[i].defects, "fallback")
        /\ ~e.runs[i].persistent
  <2> SUFFICES ASSUME NEW i \in 1 .. 5
               PROVE  /\ e.runs[i].defects \subseteq {"fallback", "errors"} \X {"request"}
                      /\ e.runs[i].fallback <=> Gate!Has(e.runs[i].defects, "fallback")
                      /\ ~e.runs[i].persistent
    OBVIOUS
  <2>1. PICK d \in SUBSET AllDefects, persistent \in BOOLEAN :
          e.runs[i] = MarkedRun(d, persistent)
    BY <1>4, RunIs
  <2>2. e.runs[i].persistent = persistent
    BY <2>1 DEF MarkedRun, Gate!Run
  <2>3. /\ d \subseteq {"fallback", "errors"} \X {"request"}
        /\ e.runs[i].fallback <=> Gate!Has(d, "fallback")
        /\ ~persistent /\ e.runs[i].defects = d
    BY <1>5, <2>1, SoundRun
  <2> QED
    BY <2>2, <2>3
<1>7. \A S : S \subseteq 1 .. 5 => Cardinality(S) \in Nat /\ (S = {} <=> Cardinality(S) = 0)
  <2>1. IsFiniteSet(1 .. 5)
    <3>1. \A a, b \in Int : IsFiniteSet(a .. b)
      BY FS_Interval
    <3>2. PICK a, b \in Int : a = 1 /\ b = 5
      OBVIOUS
    <3>3. IsFiniteSet(a .. b)
      BY <3>1
    <3> QED
      BY <3>2, <3>3
  <2> QED
    BY <2>1, FS_Subset, FS_CardinalityType, FS_EmptySet
<1>8. Gate!Cardinality({i \in DOMAIN e.runs : Gate!Has(e.runs[i].defects, "fallback")}) <= 1
  <2>1. {i \in DOMAIN e.runs : Gate!Has(e.runs[i].defects, "fallback")} = Gate!Fallbacks(e)
    BY <1>4, <1>6 DEF Gate!Fallbacks
  <2>2. ~(Cardinality(Gate!Fallbacks(e)) >= 2)
    BY <1>1, GateCardinality DEF Gate!Failure
  <2>3. Cardinality(Gate!Fallbacks(e)) \in Nat
    BY <1>4, <1>7 DEF Gate!Fallbacks
  <2> QED
    BY <2>1, <2>2, <2>3, GateCardinality
<1>9. e.path = "production-actual-public-direct" =>
        Len(e.probes) = 2 /\ \A i \in 1 .. 2 : e.probes[i].defects = {}
  <2> SUFFICES ASSUME e.path = "production-actual-public-direct"
               PROVE  Len(e.probes) = 2 /\ \A i \in 1 .. 2 : e.probes[i].defects = {}
    OBVIOUS
  <2>1. Len(e.probes) = 2 /\ \A i \in 1 .. 2 : Gate!Verified(e.probes[i])
    BY <1>2 DEF Gate!ProbesHold
  <2>2. \A i \in 1 .. 2 : e.probes[i] \in ProbeSet
    BY <1>3, <2>1
  <2> QED
    BY <2>1, <2>2, VerifiedProbe
<1>10. Gate!Earned(e)
  BY <1>2, <1>4, <1>6, <1>8, <1>9 DEF Gate!Earned, Gate!RunCount
<1>11. ASSUME e.verdict # "none"
       PROVE  Gate!Cardinality(Erring(e.runs)) <= 1
  <2>1. Erring(e.runs) \subseteq 1 .. 5
    BY <1>4 DEF Erring
  <2>2. Cardinality(Erring(e.runs)) \in Nat /\ (Erring(e.runs) = {} <=> Cardinality(Erring(e.runs)) = 0)
    BY <1>7, <2>1
  <2>3. ~(Cardinality(Erring(e.runs)) >= 2)
    BY <1>6, <1>11, <2>1, <2>2 DEF Marking
  <2> QED
    BY <2>2, <2>3, GateCardinality
<1> QED
  BY <1>10, <1>11

LEMMA FewOf ==
  ASSUME NEW S
  PROVE  \A d \in Gate!Few(S) : d \subseteq S
BY DEF Gate!Few

LEMMA RunsAppend ==
  ASSUME NEW collected \in Seq(RunSet), NEW d \in SUBSET AllDefects
  PROVE  /\ Append(collected, Gate!Run(d)) \in Seq(RunSet)
         /\ Len(Append(collected, Gate!Run(d))) = Len(collected) + 1
<1>1. PICK persistent \in BOOLEAN : persistent = FALSE
  OBVIOUS
<1>2. Gate!Run(d) = MarkedRun(d, persistent)
  <2>1. PICK run : run = Gate!Run(d)
    OBVIOUS
  <2>2. run.persistent = FALSE
    BY <2>1 DEF Gate!Run
  <2>3. run \in [DOMAIN run -> {run[x] : x \in DOMAIN run}]
    BY <2>1 DEF Gate!Run
  <2>4. run = [run EXCEPT !.persistent = persistent]
    BY <1>1, <2>2, <2>3
  <2> QED
    BY <2>1, <2>4 DEF MarkedRun
<1>3. MarkedRun(d, persistent) \in RunSet
  BY DEF RunSet
<1> QED
  BY <1>2, <1>3, AppendProperties

\* The evidence of the collector's moves, which nothing has judged yet.
LEMMA GateMoves ==
  ASSUME GateInv, UNCHANGED <<path, attested>>,
         probes' \in Seq(ProbeSet), runs' \in Seq(RunSet), evidence' \in EvidenceShape,
         collector' \in {"probing", "setting_up", "collecting", "marking", "ended"},
         exit' \in {1, 2, Missing}, collector' # "ended" => exit' = Missing,
         evidence'.verdict = "none" \/ evidence' = evidence
           \/ evidence' = [evidence EXCEPT !.failed = TRUE],
         Limited'
  PROVE  GateInv'
<1>1. Marking(evidence)'
  <2>1. PICK e \in EvidenceShape : e = evidence
    BY DEF GateInv, GateShape
  <2>2. PICK n \in EvidenceShape : n = evidence'
    OBVIOUS
  <2>3. n.verdict = "none" \/ (n.verdict = e.verdict /\ n.runs = e.runs)
    BY <2>1, <2>2 DEF EvidenceShape
  <2>4. Marking(n)
    BY <2>1, <2>3 DEF GateInv, Marking
  <2> QED
    BY <2>2, <2>4 DEF Marking, Erring
<1>2. exit' # 0
  BY MissingAssumption
<1> QED
  BY <1>1, <1>2 DEF GateInv, GateShape

LEMMA EvidenceIs ==
  ASSUME GateInv, NEW checked \in Seq(ProbeSet), NEW collected \in Seq(RunSet),
         NEW judged \in Verdicts \cup {"none"}, NEW failed \in BOOLEAN
  PROVE  /\ Gate!Evidence(attested, checked, collected, judged, failed) \in EvidenceShape
         /\ Gate!Evidence(attested, checked, collected, judged, failed).verdict = judged
BY DEF GateInv, GateShape, Gate!Evidence, EvidenceShape

LEMMA NoRuns == << >> \in Seq(RunSet) /\ Len(<< >>) = 0
OBVIOUS

LEMMA ProbeKeeps ==
  ASSUME GateInv, Gate!ProbeDirect
  PROVE  GateInv'
<1>1. /\ collector = "probing" /\ Len(probes) < 2 /\ Len(probes) \in Nat /\ probes \in Seq(ProbeSet)
      /\ runs = << >> /\ exit = Missing
  BY DEF Gate!ProbeDirect, GateInv, Limited, GateShape
<1>2. PICK d \in Gate!Few(Gate!ProbeDefects) :
        /\ probes' = Append(probes, Gate!Probe(d))
        /\ IF Gate!Verified(Gate!Probe(d))
           THEN /\ evidence' = Gate!Evidence(attested, probes', << >>, "none", FALSE)
                /\ collector' = IF Len(probes') = 2 THEN "setting_up" ELSE "probing"
                /\ UNCHANGED exit
           ELSE /\ evidence' = Gate!Evidence(attested, probes', << >>, "none", TRUE)
                /\ collector' = "ended" /\ exit' = 2
  BY DEF Gate!ProbeDirect
<1>3. Gate!Probe(d) \in ProbeSet
  BY <1>2, FewOf DEF ProbeSet
<1>4. probes' \in Seq(ProbeSet) /\ Len(probes') = Len(probes) + 1
  BY <1>1, <1>2, <1>3, AppendProperties
<1>5. evidence' \in EvidenceShape /\ evidence'.verdict = "none"
  <2>1. PICK failed \in BOOLEAN :
          evidence' = Gate!Evidence(attested, probes', << >>, "none", failed)
    BY <1>2
  <2> QED
    BY <1>4, <2>1, EvidenceIs, NoRuns
<1>6. UNCHANGED <<path, attested, runs>> /\ runs' \in Seq(RunSet)
  BY DEF Gate!ProbeDirect, GateInv, GateShape
<1>7. /\ collector' \in {"setting_up", "probing", "ended"} /\ exit' \in {1, 2, Missing}
      /\ collector' # "ended" => exit' = Missing
      /\ collector' = "probing" => Len(probes') # 2
  BY <1>1, <1>2
<1>8. Limited'
  BY <1>1, <1>4, <1>6, <1>7 DEF Limited
<1> QED
  BY <1>4, <1>5, <1>6, <1>7, <1>8, GateMoves

LEMMA SetUpKeeps ==
  ASSUME GateInv, Gate!SetUp
  PROVE  GateInv'
<1>1. /\ collector = "setting_up" /\ collector' = "collecting" /\ exit = Missing
      /\ probes \in Seq(ProbeSet) /\ runs = << >> /\ Len(probes) <= 2
      /\ UNCHANGED <<path, attested, probes, runs, exit>>
      /\ evidence' = Gate!Evidence(attested, probes, << >>, "none", FALSE)
  BY DEF Gate!SetUp, GateInv, Limited, GateShape
<1>2. evidence' \in EvidenceShape /\ evidence'.verdict = "none"
  BY <1>1, EvidenceIs, NoRuns
<1>3. Limited'
  BY <1>1 DEF Limited
<1> QED
  BY <1>1, <1>2, <1>3, NoRuns, GateMoves

LEMMA CollectKeeps ==
  ASSUME GateInv, Gate!Collect
  PROVE  GateInv'
<1>1. /\ collector = "collecting" /\ exit = Missing /\ Len(runs) < 5 /\ runs \in Seq(RunSet)
      /\ Len(runs) \in Nat /\ probes \in Seq(ProbeSet) /\ Len(probes) <= 2
      /\ UNCHANGED <<path, attested, probes, exit>>
  BY DEF Gate!Collect, GateInv, Limited, GateShape
<1>2. PICK d \in Gate!Few(Gate!Defects) :
        /\ runs' = Append(runs, Gate!Run(d))
        /\ collector' = IF Gate!Stops(Gate!Run(d)) \/ Len(runs') = Gate!RunCount THEN "marking"
                        ELSE "collecting"
  BY DEF Gate!Collect
<1>3. d \in SUBSET AllDefects
  BY <1>2, FewOf DEF Gate!Defects, AllDefects
<1>4. runs' \in Seq(RunSet) /\ Len(runs') = Len(runs) + 1
  BY <1>1, <1>2, <1>3, RunsAppend
<1>5. evidence' = Gate!Evidence(attested, probes, runs', "none", FALSE)
  BY DEF Gate!Collect
<1>6. evidence' \in EvidenceShape /\ evidence'.verdict = "none"
  BY <1>1, <1>4, <1>5, EvidenceIs
<1>7. /\ collector' \in {"marking", "collecting"}
      /\ collector' = "collecting" => Len(runs') # 5
  BY <1>2 DEF Gate!RunCount
<1>8. Limited'
  BY <1>1, <1>4, <1>7 DEF Limited
<1> QED
  BY <1>1, <1>4, <1>6, <1>7, <1>8, GateMoves

LEMMA EndKeeps ==
  ASSUME GateInv, Gate!Raise \/ Gate!Killed
  PROVE  GateInv'
<1>1. collector' = "ended" /\ UNCHANGED <<path, attested, probes, runs>>
  BY DEF Gate!Raise, Gate!Killed
<1>2. exit' \in {2, Missing}
  BY DEF Gate!Raise, Gate!Killed, GateInv
<1>3. evidence' = evidence \/ evidence' = [evidence EXCEPT !.failed = TRUE]
  BY DEF Gate!Raise, Gate!Killed
<1>4. evidence' \in EvidenceShape
  BY <1>3 DEF GateInv, GateShape, EvidenceShape
<1>5. Limited'
  BY <1>1 DEF GateInv, Limited
<1> QED
  BY <1>1, <1>2, <1>3, <1>4, <1>5, GateMoves DEF GateInv, GateShape

LEMMA JudgeKeeps ==
  ASSUME GateInv, Gate!Judge
  PROVE  GateInv'
<1>1. /\ runs \in Seq(RunSet) /\ Len(runs) <= 5 /\ probes \in Seq(ProbeSet) /\ Len(probes) <= 2
      /\ attested \in BOOLEAN /\ path \in Paths
  BY DEF GateInv, GateShape, Limited
<1>2. PICK erring : erring = {i \in DOMAIN runs : runs[i].errors}
  OBVIOUS
<1>3. PICK marked : marked = [i \in DOMAIN runs |->
        [runs[i] EXCEPT !.persistent = Gate!Cardinality(erring) >= 2 /\ i \in erring]]
  OBVIOUS
<1>4. PICK verdict : verdict = Gate!Verdict(Gate!Evidence(attested, probes, marked, "none", FALSE))
  OBVIOUS
<1>5. PICK e : e = Gate!Evidence(attested, probes, marked, verdict, FALSE)
  OBVIOUS
<1>6. /\ collector' = "ended" /\ runs' = marked /\ evidence' = e
      /\ exit' = IF verdict = "HARD_FAIL" THEN 2 ELSE IF verdict = "FAIL" THEN 1 ELSE 0
      /\ UNCHANGED <<path, attested, probes>>
  BY <1>2, <1>3, <1>4, <1>5 DEF Gate!Judge
<1>7. \A i \in DOMAIN runs :
        /\ marked[i] \in RunSet /\ marked[i].defects = runs[i].defects
        /\ marked[i].persistent = (Gate!Cardinality(erring) >= 2 /\ i \in erring)
        /\ runs[i].errors = Gate!Has(runs[i].defects, "errors")
  <2> SUFFICES ASSUME NEW i \in DOMAIN runs
               PROVE  /\ marked[i] \in RunSet /\ marked[i].defects = runs[i].defects
                      /\ marked[i].persistent = (Gate!Cardinality(erring) >= 2 /\ i \in erring)
                      /\ runs[i].errors = Gate!Has(runs[i].defects, "errors")
    OBVIOUS
  <2>1. PICK d \in SUBSET AllDefects, persistent \in BOOLEAN : runs[i] = MarkedRun(d, persistent)
    BY <1>1, RunIs
  <2>2. PICK p \in BOOLEAN : p = (Gate!Cardinality(erring) >= 2 /\ i \in erring)
    OBVIOUS
  <2>3. marked[i] = [MarkedRun(d, persistent) EXCEPT !.persistent = p]
    BY <1>3, <2>1, <2>2
  <2>4. marked[i] = MarkedRun(d, p)
    BY <2>3 DEF MarkedRun, Gate!Run
  <2>5. marked[i].defects = d /\ marked[i].persistent = p
    BY <2>4 DEF MarkedRun, Gate!Run
  <2>6. runs[i].defects = d /\ runs[i].errors = Gate!Has(d, "errors")
    BY <2>1 DEF MarkedRun, Gate!Run
  <2>7. marked[i] \in RunSet
    BY <2>4 DEF RunSet
  <2> QED
    BY <2>2, <2>5, <2>6, <2>7
<1>8. marked \in Seq(RunSet) /\ Len(marked) = Len(runs) /\ DOMAIN marked = DOMAIN runs
  <2>1. DOMAIN runs = 1 .. Len(runs) /\ Len(runs) \in Nat
    BY <1>1
  <2>2. marked \in [1 .. Len(runs) -> RunSet]
    BY <1>3, <1>7, <2>1
  <2>3. marked \in Seq(RunSet)
    BY <2>1, <2>2 DEF Seq
  <2> QED
    BY <1>3, <2>1, <2>2, <2>3
<1>9. verdict \in Verdicts
  BY <1>4 DEF Gate!Verdict, Verdicts
<1>10. e \in EvidenceShape /\ e.verdict = verdict
  BY <1>1, <1>5, <1>8, <1>9, EvidenceIs
<1>11. e.runs = marked /\ e.path = path /\ ~e.failed /\ e.verdict # "none"
  BY <1>5, <1>9, <1>10 DEF Gate!Evidence, Verdicts
<1>12. Erring(marked) = erring
  BY <1>2, <1>7, <1>8 DEF Erring
<1>13. Marking(e)
  <2>1. Gate!Cardinality(erring) = Cardinality(erring)
    BY GateCardinality
  <2>2. \A i \in erring : i \in DOMAIN runs
    BY <1>2
  <2>3. Cardinality(erring) >= 2 => \A i \in erring : marked[i].persistent
    BY <1>7, <2>1, <2>2
  <2> QED
    BY <1>11, <1>12, <2>3 DEF Marking
<1>14. Marking(evidence)'
  BY <1>6, <1>13 DEF Marking, Erring
<1>15. Gate!Verdict(e) = verdict
  <2>1. PICK u : u = Gate!Evidence(attested, probes, marked, "none", FALSE)
    OBVIOUS
  <2>2. /\ e.path = u.path /\ e.attested = u.attested /\ e.probes = u.probes /\ e.runs = u.runs
    BY <1>5, <2>1 DEF Gate!Evidence
  <2>3. Gate!ProbesHold(e) <=> Gate!ProbesHold(u)
    BY <2>2 DEF Gate!ProbesHold
  <2>4. \A run : Gate!RunHolds(e, run) <=> Gate!RunHolds(u, run)
    BY <2>2 DEF Gate!RunHolds
  <2>5. Gate!HardFailure(e) <=> Gate!HardFailure(u)
    BY <2>2, <2>3, <2>4 DEF Gate!HardFailure
  <2>6. Gate!Fallbacks(e) = Gate!Fallbacks(u)
    BY <2>2 DEF Gate!Fallbacks
  <2>7. Gate!Failure(e) <=> Gate!Failure(u)
    BY <2>2, <2>6 DEF Gate!Failure
  <2> QED
    BY <1>4, <2>1, <2>5, <2>6, <2>7 DEF Gate!Verdict
<1>16. exit' = 0 => Gate!ReleaseAllowed(e)
  BY <1>6, <1>9, <1>15 DEF Gate!ReleaseAllowed, Verdicts
<1>17. exit' = 0 => Gate!ReleaseAllowed(evidence)'
  <2>1. \A x : Gate!ReleaseAllowed(x) => Gate!ReleaseAllowed(x)'
    BY DEF Gate!ReleaseAllowed, Gate!Verdict, Gate!HardFailure, Gate!Failure, Gate!Fallbacks,
       Gate!ProbesHold, Gate!RunHolds, Gate!Verified, Gate!Layers, Gate!RunCount, Gate!Is2xx
  <2> QED
    BY <1>6, <1>16, <2>1
<1>18. Limited'
  BY <1>1, <1>6, <1>8 DEF Limited
<1>19. GateShape'
  BY <1>1, <1>6, <1>8, <1>10 DEF GateShape
<1> QED
  BY <1>6, <1>11, <1>14, <1>17, <1>18, <1>19 DEF GateInv

LEMMA GateBegins ==
  ASSUME Gate!Init
  PROVE  GateInv
<1>1. \A d \in SUBSET AllDefects : Gate!Run(d) \in RunSet
  <2> SUFFICES ASSUME NEW d \in SUBSET AllDefects
               PROVE  Gate!Run(d) \in RunSet
    OBVIOUS
  <2>1. Append(<< >>, Gate!Run(d)) \in Seq(RunSet)
    BY RunsAppend, NoRuns
  <2>2. Append(<< >>, Gate!Run(d)) = <<Gate!Run(d)>>
    OBVIOUS
  <2> QED
    BY <2>1, <2>2
<1>2. [i \in 1 .. 5 |-> Gate!Run({})] \in Seq(RunSet)
  <2>1. Gate!Run({}) \in RunSet
    BY <1>1
  <2>2. [i \in 1 .. 5 |-> Gate!Run({})] \in [1 .. 5 -> RunSet]
    BY <2>1
  <2> QED
    BY <2>2 DEF Seq
<1>3. << >> \in Seq(ProbeSet) /\ << >> \in Seq(RunSet) /\ Len(<< >>) = 0
  OBVIOUS
<1>4. Gate!NothingWritten \in EvidenceShape /\ Marking(Gate!NothingWritten)
  BY <1>3 DEF Gate!NothingWritten, EvidenceShape, Marking
<1>5. Gate!Earlier \in EvidenceShape
  BY <1>2, <1>3 DEF Gate!Earlier, Gate!RunCount, EvidenceShape, Paths, Verdicts
<1>6. Marking(Gate!Earlier)
  <2>1. Gate!Earlier.runs = [i \in 1 .. 5 |-> Gate!Run({})]
    BY DEF Gate!Earlier, Gate!RunCount
  <2>2. Gate!Run({}).defects = {}
    BY DEF Gate!Run
  <2>3. \A i \in 1 .. 5 : ~Gate!Has(Gate!Earlier.runs[i].defects, "errors")
    BY <2>1, <2>2 DEF Gate!Has
  <2>4. Erring(Gate!Earlier.runs) = {}
    BY <2>1, <2>3 DEF Erring
  <2> QED
    BY <2>4 DEF Marking
<1>7. evidence \in EvidenceShape /\ Marking(evidence)
  BY <1>4, <1>5, <1>6 DEF Gate!Init
<1>8. GateShape /\ Limited
  BY <1>3, <1>7 DEF Gate!Init, GateShape, Limited, Paths
<1> QED
  BY <1>7, <1>8, MissingAssumption DEF Gate!Init, GateInv

LEMMA GateStays ==
  ASSUME GateInv, UNCHANGED gateVars
  PROVE  GateInv'
<1>1. \A x : Gate!ReleaseAllowed(x) => Gate!ReleaseAllowed(x)'
  BY DEF Gate!ReleaseAllowed, Gate!Verdict, Gate!HardFailure, Gate!Failure, Gate!Fallbacks,
     Gate!ProbesHold, Gate!RunHolds, Gate!Verified, Gate!Layers, Gate!RunCount, Gate!Is2xx
<1>2. Gate!ReleaseAllowed(evidence) => Gate!ReleaseAllowed(evidence)'
  BY <1>1 DEF gateVars
<1> QED
  BY <1>2 DEF GateInv, GateShape, Limited, Marking, Erring, gateVars

LEMMA GateInvariant == OperationsSpec => [](part = "gate" => GateInv)
<1> DEFINE Inv == part = "gate" => GateInv
<1>1. OperationsInit => Inv
  BY GateBegins DEF OperationsInit
<1>2. Inv /\ [OperationsNext]_operationsVars => Inv'
  <2> SUFFICES ASSUME Inv, [OperationsNext]_operationsVars
               PROVE  Inv'
    OBVIOUS
  <2>1. CASE GateStep
    <3>1. part' = part /\ part = "gate" /\ Gate!Next
      BY <2>1 DEF GateStep
    <3>2. GateInv'
      BY <3>1, ProbeKeeps, SetUpKeeps, CollectKeeps, JudgeKeeps, EndKeeps DEF Gate!Next
    <3> QED
      BY <3>2
  <2>2. CASE UNCHANGED operationsVars
    BY <2>2, GateStays DEF operationsVars
  <2>3. CASE BackupStep \/ DescriptionStep \/ TelemetryStep \/ AnswerStep \/ SpendingStep
             \/ AccessStep \/ KnowledgeStep
    BY <2>3, GateStays DEF BackupStep, DescriptionStep, TelemetryStep, AnswerStep,
       SpendingStep, AccessStep, KnowledgeStep
  <2> QED
    BY <2>1, <2>2, <2>3 DEF OperationsNext
<1> QED
  BY <1>1, <1>2, PTL DEF OperationsSpec

\* No release without five sound requests that were all observed, whatever failed; the two
\* gaps of the evaluator - a collector killed before it marked repeated errors, one that
\* raised over the file of an earlier collection - are excepted (ops/release_gate).
THEOREM ReleasesAreEarned == OperationsSpec => []ReleaseIsEarned
<1>1. (part = "gate" => GateInv) => ReleaseIsEarned
  <2> SUFFICES ASSUME GateInv
               PROVE  Gate!ReleaseIsEarned
    BY DEF ReleaseIsEarned
  <2>1. evidence \in EvidenceShape /\ Marking(evidence)
    BY DEF GateInv, GateShape
  <2>2. Gate!ReleaseAllowed(evidence) =>
          /\ Gate!Earned(evidence)
          /\ evidence.verdict # "none" => Gate!Cardinality(Erring(evidence.runs)) <= 1
    BY <2>1, AllowedIsEarned
  <2> QED
    BY <2>2 DEF GateInv, Erring, Gate!ReleaseIsEarned
<1> QED
  BY <1>1, GateInvariant, PTL

-----------------------------------------------------------------------------
(* The bounds of the tables (OperationsTypeOK)                             *)
(*                                                                         *)
(* The invariants above say of what kind the rows are; what is left are    *)
(* the bounds, each of which stands on where its numbers come from.        *)

\* Sessions: whatever a row will be given was read from the clock or from a row.
RowInTime(s) ==
  /\ s.seen <= LastTime /\ s.absolute <= LastTime + Access!Longest /\ s.knew <= MaxPassword
RequestInTime(r) ==
  /\ r.at = "compared" => r.knew <= MaxPassword
  /\ r.at \in {"serving", "revoking"} => r.touch.seen <= LastTime

AccessBounds ==
  /\ now <= LastTime /\ password <= MaxPassword /\ Len(session) <= MaxSessions
  /\ \A s \in DOMAIN session : RowInTime(session[s])
  /\ \A a \in Addresses : attempt[a].until <= LastTime + Access!Longest
  /\ \A p \in Threads : RequestInTime(request[p])

LEMMA LongestOfThree ==
  /\ Access!Longest \in Nat /\ RememberTime <= Access!Longest
  /\ AbsoluteTimeout <= Access!Longest /\ LockoutTime <= Access!Longest
<1> DEFINE S == {RememberTime, AbsoluteTimeout, LockoutTime}
<1>1. RememberTime \in Nat /\ AbsoluteTimeout \in Nat /\ LockoutTime \in Nat
  BY AccessAssumption
<1>2. \E x \in S : \A y \in S : x >= y
  <2>1. CASE RememberTime >= AbsoluteTimeout /\ RememberTime >= LockoutTime
    BY <1>1, <2>1
  <2>2. CASE AbsoluteTimeout >= RememberTime /\ AbsoluteTimeout >= LockoutTime
    BY <1>1, <2>2
  <2>3. CASE LockoutTime >= RememberTime /\ LockoutTime >= AbsoluteTimeout
    BY <1>1, <2>3
  <2> QED
    BY <1>1, <2>1, <2>2, <2>3
<1>3. Access!Longest \in S /\ \A y \in S : Access!Longest >= y
  BY <1>2 DEF Access!Longest, Access!Max
<1> QED
  BY <1>1, <1>3

LEMMA AccessBoundsMove ==
  ASSUME AccessInv, AccessBounds, now' <= LastTime, password' <= MaxPassword,
         Len(session') <= MaxSessions, \A s \in DOMAIN session' : RowInTime(session'[s]),
         \A a \in Addresses : attempt'[a].until <= LastTime + Access!Longest,
         \/ request' = request
         \/ \E p \in Threads : \E r : request' = [request EXCEPT ![p] = r] /\ RequestInTime(r)
  PROVE  AccessBounds'
<1>1. \A q \in Threads : RequestInTime(request'[q])
  <2>1. CASE request' = request
    BY <2>1 DEF AccessBounds
  <2>2. ASSUME NEW p \in Threads, NEW r, request' = [request EXCEPT ![p] = r], RequestInTime(r)
        PROVE  \A q \in Threads : RequestInTime(request'[q])
    <3>1. request'[p] = r /\ \A q \in Threads \ {p} : request'[q] = request[q]
      BY <2>2 DEF AccessInv, AccessShape
    <3> QED
      BY <2>2, <3>1 DEF AccessBounds
  <2> QED
    BY <2>1, <2>2
<1>2. /\ \A s \in DOMAIN session' : RowInTime(session[s])'
      /\ \A q \in Threads : RequestInTime(request[q])'
  BY <1>1 DEF RowInTime, RequestInTime, Access!Longest, Access!Max
<1> QED
  BY <1>2 DEF AccessBounds, Access!Longest, Access!Max

LEMMA IdleInTime == RequestInTime(Access!Idle)
BY DEF RequestInTime, Access!Idle

LEMMA RevokedInTime ==
  ASSUME AccessInv, AccessBounds, NEW ids, NEW s \in DOMAIN session
  PROVE  RowInTime(Access!Revoked(ids)[s])
<1>1. session[s] \in SessionShape /\ RowInTime(session[s])
  BY SessionIndices DEF AccessBounds
<1>2. Access!Revoked(ids)[s] = [session[s] EXCEPT !.revoked = @ \/ s \in ids]
  BY DEF Access!Revoked
<1>3. PICK marked : marked = Access!Revoked(ids)[s]
  OBVIOUS
<1>4. marked.seen = session[s].seen /\ marked.absolute = session[s].absolute
      /\ marked.knew = session[s].knew
  BY <1>1, <1>2, <1>3 DEF SessionShape
<1> QED
  BY <1>1, <1>3, <1>4 DEF RowInTime

LEMMA WrittenInTime ==
  ASSUME AccessInv, AccessBounds, NEW p \in Threads, request[p].at \in {"serving", "revoking"},
         NEW rows \in Seq(SessionShape), DOMAIN rows = DOMAIN session,
         \A s \in DOMAIN rows : RowInTime(rows[s])
  PROVE  \A s \in DOMAIN Access!Written(p, rows) : RowInTime(Access!Written(p, rows)[s])
<1> DEFINE t == request[p].touch
           s0 == request[p].session
           touched == [rows[s0] EXCEPT !.seen = t.seen, !.idle = t.idle]
<1>1. s0 \in DOMAIN rows /\ t \in [seen : Nat, idle : Nat]
  BY RequestIs DEF ServingShape, RevokingShape
<1>2. t.seen <= LastTime
  BY DEF AccessBounds, RequestInTime
<1>3. CASE ~request[p].touches
  BY <1>3 DEF Access!Written
<1>4. CASE request[p].touches
  <2>1. Access!Written(p, rows) = [rows EXCEPT ![s0] = touched]
    BY <1>4 DEF Access!Written
  <2>2. rows[s0] \in SessionShape
    BY <1>1
  <2>3. touched.seen = t.seen /\ touched.absolute = rows[s0].absolute
        /\ touched.knew = rows[s0].knew
    BY <1>1, <2>2 DEF SessionShape
  <2>4. RowInTime(touched)
    BY <1>1, <1>2, <2>3 DEF RowInTime
  <2> HIDE DEF touched, t, s0
  <2>5. PICK w : w = [rows EXCEPT ![s0] = touched]
    OBVIOUS
  <2>6. DOMAIN w = DOMAIN rows /\ w[s0] = touched /\ \A s \in DOMAIN rows \ {s0} : w[s] = rows[s]
    BY <1>1, <2>5
  <2> QED
    BY <2>1, <2>4, <2>5, <2>6
<1> QED
  BY <1>3, <1>4

LEMMA NewInTime ==
  ASSUME AccessInv, AccessBounds, NEW p \in Threads, NEW remember \in BOOLEAN
  PROVE  /\ Access!NewSession(p, remember).seen <= LastTime
         /\ Access!NewSession(p, remember).absolute <= LastTime + Access!Longest
         /\ Access!NewSession(p, remember).knew = request[p].knew
<1>1. now \in Nat /\ now <= LastTime /\ LastTime \in Nat
  BY OperationBoundsAssumption DEF AccessInv, AccessShape, AccessBounds
<1>2. PICK longest : longest = Access!Longest
  OBVIOUS
<1>3. longest \in Nat /\ RememberTime <= longest /\ AbsoluteTimeout <= longest
      /\ RememberTime \in Nat /\ AbsoluteTimeout \in Nat
  BY <1>2, LongestOfThree, AccessAssumption
<1>4. PICK absolute : absolute = now + IF remember THEN RememberTime ELSE AbsoluteTimeout
  OBVIOUS
<1>5. absolute <= LastTime + longest
  BY <1>1, <1>3, <1>4
<1>6. Access!NewSession(p, remember).absolute = absolute
  BY <1>4 DEF Access!NewSession
<1>7. Access!NewSession(p, remember).seen = now /\ Access!NewSession(p, remember).knew = request[p].knew
  BY DEF Access!NewSession
<1> QED
  BY <1>1, <1>2, <1>5, <1>6, <1>7

LEMMA AddedInTime ==
  ASSUME NEW rows \in Seq(SessionShape), \A s \in DOMAIN rows : RowInTime(rows[s]), NEW new,
         RowInTime(new)
  PROVE  \A s \in DOMAIN Append(rows, new) : RowInTime(Append(rows, new)[s])
<1>1. Len(rows) \in Nat /\ DOMAIN rows = 1 .. Len(rows)
  OBVIOUS
<1>2. PICK added : added = Append(rows, new)
  OBVIOUS
<1>3. DOMAIN added = 1 .. (Len(rows) + 1) /\ added[Len(rows) + 1] = new
      /\ \A s \in 1 .. Len(rows) : added[s] = rows[s]
  BY <1>1, <1>2
<1>4. \A s \in DOMAIN added : s \in 1 .. Len(rows) \/ s = Len(rows) + 1
  BY <1>1, <1>3
<1> QED
  BY <1>1, <1>2, <1>3, <1>4

LEMMA BoundsAccess ==
  ASSUME AccessInv, AccessBounds
  PROVE  /\ now \in Nat /\ password \in Nat /\ Len(session) \in Nat /\ DOMAIN request = Threads
         /\ session \in Seq(SessionShape) /\ DOMAIN session = 1 .. Len(session)
         /\ now <= LastTime /\ password <= MaxPassword /\ Len(session) <= MaxSessions
         /\ LastTime \in Nat
         /\ \A s \in DOMAIN session : RowInTime(session[s])
         /\ \A a \in Addresses : attempt[a].until <= LastTime + Access!Longest
BY SessionIndices, OperationBoundsAssumption DEF AccessInv, AccessShape, AccessBounds

LEMMA ClockKeepsBounds ==
  ASSUME AccessInv, AccessBounds, Access!Tick
  PROVE  AccessBounds'
<1>1. now' <= LastTime
  BY BoundsAccess DEF Access!Tick
<1> QED
  BY <1>1, BoundsAccess, AccessBoundsMove DEF Access!Tick

\* A request goes on, and nothing is written
LEMMA GoingKeepsBounds ==
  ASSUME AccessInv, AccessBounds, NEW p \in Threads, NEW r, Access!Goto(p, r), RequestInTime(r),
         UNCHANGED <<now, password, session, attempt, refused, ended>>
  PROVE  AccessBounds'
BY BoundsAccess, AccessBoundsMove DEF Access!Goto

LEMMA CheckKeepsBounds ==
  ASSUME AccessInv, AccessBounds, NEW p \in Threads, NEW a, NEW right,
         NEW remember, NEW previous, Access!Check(p, a, right, remember, previous)
  PROVE  AccessBounds'
<1> DEFINE r == [at |-> "compared", address |-> a, right |-> right, held |-> Access!Exists(a),
                 reset |-> attempt[a].until > 0, knew |-> password,
                 remember |-> remember, previous |-> previous]
<1>1. RequestInTime(r)
  BY BoundsAccess DEF RequestInTime
<1>2. Access!Goto(p, r) /\ UNCHANGED <<now, password, session, attempt, refused, ended>>
  BY DEF Access!Check
<1> HIDE DEF r
<1> QED
  BY <1>1, <1>2, GoingKeepsBounds

LEMMA FirstKeepsBounds ==
  ASSUME AccessInv, AccessBounds, NEW p \in Threads, Access!FailureFirst(p)
  PROVE  AccessBounds'
<1>1. RequestInTime([at |-> "inserting", address |-> request[p].address])
  BY DEF RequestInTime
<1> QED
  BY <1>1, GoingKeepsBounds DEF Access!FailureFirst

LEMMA CountedKeepsBounds ==
  ASSUME AccessInv, AccessBounds, NEW p \in Threads, NEW a, NEW before, Access!Counted(a, before),
         Access!Goto(p, Access!Idle), UNCHANGED <<now, password, session, ended>>
  PROVE  AccessBounds'
<1>1. PICK longest : longest = Access!Longest
  OBVIOUS
<1>2. longest \in Nat /\ LockoutTime <= longest /\ LockoutTime \in Nat
  BY <1>1, LongestOfThree, AccessAssumption
<1>3. ASSUME NEW b \in Addresses
      PROVE  attempt'[b].until <= LastTime + longest
  <2>1. PICK until : until = IF before + 1 >= MaxFailed THEN now + LockoutTime ELSE 0
    OBVIOUS
  <2>2. until <= LastTime + longest
    BY <1>2, <2>1, BoundsAccess
  <2>3. attempt'[b] = attempt[b] \/ attempt'[b] = [count |-> before + 1, until |-> until]
    BY <2>1 DEF Access!Counted, AccessInv, AccessShape
  <2> QED
    BY <1>1, <2>2, <2>3, BoundsAccess
<1> QED
  BY <1>1, <1>3, BoundsAccess, AccessBoundsMove, IdleInTime DEF Access!Goto

\* Rows of sessions are written, and the request ends
LEMMA RowsKeepBounds ==
  ASSUME AccessInv, AccessBounds, Len(session') = Len(session),
         \A s \in DOMAIN session' : RowInTime(session'[s]),
         request' = request \/ \E p \in Threads : Access!Goto(p, Access!Idle),
         UNCHANGED <<now, password, attempt>>
  PROVE  AccessBounds'
BY BoundsAccess, AccessBoundsMove, IdleInTime DEF Access!Goto

LEMMA RevokingInTime ==
  ASSUME AccessInv, AccessBounds, NEW p \in Threads, request[p].at \in {"serving", "revoking"},
         NEW ids
  PROVE  LET rows == Access!Written(p, Access!Revoked(ids))
         IN  /\ rows \in Seq(SessionShape) /\ Len(rows) = Len(session)
             /\ \A s \in DOMAIN rows : RowInTime(rows[s])
<1>1. PICK marked : marked = Access!Revoked(ids)
  OBVIOUS
<1>2. marked \in Seq(SessionShape) /\ Follows(marked) /\ DOMAIN marked = DOMAIN session
      /\ Len(marked) = Len(session)
  BY <1>1, RevokedRows
<1>3. \A s \in DOMAIN marked : RowInTime(marked[s])
  BY <1>1, <1>2, RevokedInTime
<1>4. Access!Written(p, marked) \in Seq(SessionShape)
      /\ Len(Access!Written(p, marked)) = Len(session)
  BY <1>2, WrittenRows
<1>5. \A s \in DOMAIN Access!Written(p, marked) : RowInTime(Access!Written(p, marked)[s])
  BY <1>2, <1>3, WrittenInTime
<1> QED
  BY <1>1, <1>4, <1>5

LEMMA StatusKeepsBounds ==
  ASSUME AccessInv, AccessBounds, NEW s \in 1 .. MaxSessions, Access!SessionStatus(s)
  PROVE  AccessBounds'
<1>1. PICK rows : rows = Access!Revoked({s})
  OBVIOUS
<1>2. Len(rows) = Len(session) /\ DOMAIN rows = DOMAIN session
  BY <1>1, RevokedRows
<1>3. \A i \in DOMAIN rows : RowInTime(rows[i])
  BY <1>1, <1>2, RevokedInTime
<1> QED
  BY <1>1, <1>2, <1>3, RowsKeepBounds DEF Access!SessionStatus

LEMMA CommitKeepsBounds ==
  ASSUME AccessInv, AccessBounds, NEW p \in Threads, Access!Commit(p)
  PROVE  AccessBounds'
<1>1. session \in Seq(SessionShape) /\ Follows(session)
  BY DEF AccessInv, AccessShape, Ending, Follows
<1>2. request[p].at \in {"serving", "revoking"}
  BY DEF Access!Commit, Access!At
<1>3. session' = Access!Written(p, session)
  BY DEF Access!Commit
<1>4. Len(session') = Len(session)
  BY <1>1, <1>2, <1>3, WrittenRows
<1>5. \A s \in DOMAIN session' : RowInTime(session'[s])
  BY <1>1, <1>2, <1>3, WrittenInTime, BoundsAccess
<1> QED
  BY <1>4, <1>5, RowsKeepBounds DEF Access!Commit

LEMMA LogoutKeepsBounds ==
  ASSUME AccessInv, AccessBounds, NEW p \in Threads, Access!Logout(p) \/ Access!LogoutAll(p)
  PROVE  AccessBounds'
<1>1. PICK ids : session' = Access!Written(p, Access!Revoked(ids))
  BY DEF Access!Logout, Access!LogoutAll
<1>2. request[p].at \in {"serving", "revoking"}
  BY DEF Access!Logout, Access!LogoutAll, Access!At
<1>3. Len(session') = Len(session) /\ \A s \in DOMAIN session' : RowInTime(session'[s])
  BY <1>1, <1>2, RevokingInTime
<1> QED
  BY <1>3, RowsKeepBounds DEF Access!Logout, Access!LogoutAll

\* A session is added
LEMMA AddingKeepsBounds ==
  ASSUME AccessInv, AccessBounds, NEW p \in Threads, NEW rows \in Seq(SessionShape),
         Len(rows) = Len(session), \A s \in DOMAIN rows : RowInTime(rows[s]),
         NEW new, RowInTime(new), session' = Append(rows, new), Len(session) < MaxSessions,
         Access!Goto(p, Access!Idle), now' = now, password' <= MaxPassword,
         \A a \in Addresses : attempt'[a].until <= LastTime + Access!Longest
  PROVE  AccessBounds'
<1>1. Len(session') = Len(session) + 1
  OBVIOUS
<1>2. Len(session') <= MaxSessions
  BY <1>1, BoundsAccess, AccessAssumption
<1>3. \A s \in DOMAIN session' : RowInTime(session'[s])
  BY AddedInTime
<1> QED
  BY <1>2, <1>3, BoundsAccess, AccessBoundsMove, IdleInTime DEF Access!Goto

LEMMA LoginKeepsBounds ==
  ASSUME AccessInv, AccessBounds, NEW p \in Threads, Access!Success(p)
  PROVE  AccessBounds'
<1>1. request[p] \in ComparedShape(DOMAIN session) /\ request[p].at = "compared"
  BY RequestIs DEF Access!Success, Access!At
<1>2. PICK rows : rows = Access!Revoked(request[p].previous)
  OBVIOUS
<1>3. rows \in Seq(SessionShape) /\ Len(rows) = Len(session) /\ DOMAIN rows = DOMAIN session
  BY <1>2, RevokedRows
<1>4. \A s \in DOMAIN rows : RowInTime(rows[s])
  BY <1>2, <1>3, RevokedInTime
<1>5. PICK new : new = Access!NewSession(p, request[p].remember)
  OBVIOUS
<1>6. request[p].remember \in BOOLEAN /\ request[p].knew <= MaxPassword
  BY <1>1 DEF ComparedShape, AccessBounds, RequestInTime
<1>7. RowInTime(new)
  BY <1>5, <1>6, NewInTime DEF RowInTime
<1>8. \A a \in Addresses : attempt'[a].until <= LastTime + Access!Longest
  <2>1. \A a \in Addresses : attempt'[a].until = 0
    BY DEF Access!Success, Access!NoRow
  <2>2. PICK longest : longest = Access!Longest
    OBVIOUS
  <2>3. 0 <= LastTime + longest
    BY <2>2, LongestOfThree, OperationBoundsAssumption
  <2> QED
    BY <2>1, <2>2, <2>3
<1>9. session' = Append(rows, new) /\ Len(session) < MaxSessions /\ Access!Goto(p, Access!Idle)
      /\ now' = now /\ password' = password
  BY <1>2, <1>5 DEF Access!Success
<1> QED
  BY <1>3, <1>4, <1>7, <1>8, <1>9, BoundsAccess, AddingKeepsBounds

LEMMA AuthenticateKeepsBounds ==
  ASSUME AccessInv, AccessBounds, NEW p \in Threads, NEW s, Access!Authenticate(p, s)
  PROVE  AccessBounds'
<1> DEFINE r == [at |-> "serving", session |-> s,
                 touches |-> now >= session[s].seen + TouchInterval,
                 touch |-> Access!Touched(s), knew |-> password]
<1>1. s \in DOMAIN session
  BY DEF Access!Authenticate
<1>2. session[s].seen <= LastTime
  BY <1>1, BoundsAccess DEF RowInTime
<1>3. Access!Touched(s).seen <= LastTime
  BY <1>2, BoundsAccess DEF Access!Touched
<1>4. RequestInTime(r)
  BY <1>3 DEF RequestInTime
<1>5. Access!Goto(p, r) /\ UNCHANGED <<now, password, session, attempt, refused, ended>>
  BY DEF Access!Authenticate
<1> HIDE DEF r
<1> QED
  BY <1>4, <1>5, GoingKeepsBounds

LEMMA RevokeKeepsBounds ==
  ASSUME AccessInv, AccessBounds, NEW p \in Threads, NEW changes, Access!RevokeBegin(p, changes)
  PROVE  AccessBounds'
<1> DEFINE r == [at |-> "revoking", session |-> request[p].session,
                 touches |-> request[p].touches, touch |-> request[p].touch,
                 knew |-> request[p].knew, changes |-> changes, ids |-> Access!ActiveSessions(p)]
<1>1. request[p].touch.seen <= LastTime
  BY DEF Access!RevokeBegin, Access!At, AccessBounds, RequestInTime
<1>2. RequestInTime(r)
  BY <1>1 DEF RequestInTime
<1>3. Access!Goto(p, r) /\ UNCHANGED <<now, password, session, attempt, refused, ended>>
  BY DEF Access!RevokeBegin
<1> HIDE DEF r
<1> QED
  BY <1>2, <1>3, GoingKeepsBounds

LEMMA ChangeKeepsBounds ==
  ASSUME AccessInv, AccessBounds, NEW p \in Threads, Access!ChangePassword(p)
  PROVE  AccessBounds'
<1>1. request[p].at \in {"serving", "revoking"}
  BY DEF Access!ChangePassword, Access!At
<1>2. PICK rows : rows = Access!Written(p, Access!Revoked(request[p].ids))
  OBVIOUS
<1>3. rows \in Seq(SessionShape) /\ Len(rows) = Len(session)
      /\ \A s \in DOMAIN rows : RowInTime(rows[s])
  BY <1>1, <1>2, RevokingInTime
<1>4. PICK fresh : fresh = Access!NewSession(p, FALSE)
  OBVIOUS
<1>5. PICK new : new = [fresh EXCEPT !.knew = password + 1]
  OBVIOUS
<1>6. fresh.seen <= LastTime /\ fresh.absolute <= LastTime + Access!Longest
  BY <1>4, NewInTime
<1>7. DOMAIN fresh = {"seen", "idle", "absolute", "revoked", "knew", "late"}
  BY <1>4 DEF Access!NewSession
<1>8. new.seen = fresh.seen /\ new.absolute = fresh.absolute /\ new.knew = password + 1
  BY <1>5, <1>7
<1>9. password + 1 <= MaxPassword
  BY BoundsAccess, AccessAssumption DEF Access!ChangePassword
<1>10. RowInTime(new)
  BY <1>6, <1>8, <1>9 DEF RowInTime
<1>11. session' = Append(rows, new) /\ Len(session) < MaxSessions /\ Access!Goto(p, Access!Idle)
       /\ now' = now /\ password' = password + 1 /\ attempt' = attempt
  BY <1>2, <1>4, <1>5 DEF Access!ChangePassword
<1> QED
  BY <1>3, <1>9, <1>10, <1>11, BoundsAccess, AddingKeepsBounds

LEMMA AccessBoundsKept ==
  ASSUME AccessInv, AccessBounds, Access!Next
  PROVE  AccessBounds'
<1>1. ASSUME NEW p \in Threads, Access!Dies(p)
      PROVE  AccessBounds'
  BY <1>1, IdleInTime, GoingKeepsBounds DEF Access!Dies
<1>2. ASSUME NEW p \in Threads, Access!Failure(p) \/ Access!InsertAttempt(p)
      PROVE  AccessBounds'
  BY <1>2, CountedKeepsBounds DEF Access!Failure, Access!InsertAttempt
<1> QED
  BY <1>1, <1>2, ClockKeepsBounds, CheckKeepsBounds, FirstKeepsBounds, StatusKeepsBounds,
     CommitKeepsBounds, LogoutKeepsBounds, LoginKeepsBounds, AuthenticateKeepsBounds,
     RevokeKeepsBounds, ChangeKeepsBounds DEF Access!Next

LEMMA AccessBoundsBegin ==
  ASSUME Access!Init
  PROVE  AccessBounds
<1>1. \A p \in Threads : request[p] = Access!Idle
  BY DEF Access!Init
<1>2. \A a \in Addresses : attempt[a].until = 0
  BY DEF Access!Init, Access!NoRow
<1>3. PICK longest : longest = Access!Longest
  OBVIOUS
<1>4. 0 <= LastTime + longest
  BY <1>3, LongestOfThree, OperationBoundsAssumption
<1>5. now = 0 /\ password = 0 /\ Len(session) = 0 /\ DOMAIN session = {}
  BY DEF Access!Init
<1> QED
  BY <1>1, <1>2, <1>3, <1>4, <1>5, IdleInTime, OperationBoundsAssumption, AccessAssumption
     DEF AccessBounds

LEMMA AccessBoundsStay ==
  ASSUME AccessBounds, UNCHANGED sessionVars
  PROVE  AccessBounds'
BY DEF AccessBounds, RowInTime, RequestInTime, Access!Longest, Access!Max, sessionVars

LEMMA AccessTyped ==
  ASSUME AccessInv, AccessBounds
  PROVE  Access!TypeOK
<1>1. PICK longest : longest = Access!Longest
  OBVIOUS
<1>2. longest \in Nat /\ LastTime \in Nat
  BY <1>1, LongestOfThree, OperationBoundsAssumption
<1>3. PICK last : last = LastTime + longest
  OBVIOUS
<1>4. Access!Times = 0 .. last
  BY <1>1, <1>3 DEF Access!Times
<1>5. ASSUME NEW s \in DOMAIN session
      PROVE  session[s] \in Access!SessionRow
  <2>1. session[s] \in SessionShape
    BY SessionIndices
  <2>2. PICK row1 \in SessionShape : row1 = session[s]
    BY <2>1
  <2>3. row1.seen <= LastTime /\ row1.absolute <= last /\ row1.knew <= MaxPassword
    BY <1>1, <1>3, <2>2, BoundsAccess DEF RowInTime
  <2>4. row1.idle <= row1.absolute
    BY <2>2 DEF AccessInv, Ending
  <2>5. row1.seen \in Nat /\ row1.idle \in Nat /\ row1.absolute \in Nat /\ row1.knew \in Nat
        /\ last \in Nat /\ MaxPassword \in Nat
    BY <1>2, <1>3, AccessAssumption DEF SessionShape
  <2>6. row1.seen \in 0 .. last /\ row1.idle \in 0 .. last /\ row1.absolute \in 0 .. last
        /\ row1.knew \in 0 .. MaxPassword
    BY <1>2, <1>3, <2>3, <2>4, <2>5
  <2>7. row1 = [seen |-> row1.seen, idle |-> row1.idle, absolute |-> row1.absolute,
                revoked |-> row1.revoked, knew |-> row1.knew, late |-> row1.late]
        /\ row1.revoked \in BOOLEAN /\ row1.late \in BOOLEAN
    BY DEF SessionShape
  <2> QED
    BY <1>4, <2>2, <2>6, <2>7 DEF Access!SessionRow
<1>6. ASSUME NEW a \in Addresses
      PROVE  attempt[a] \in Access!AttemptRow
  <2>1. PICK row1 \in [count : Nat, until : Nat] : row1 = attempt[a]
    BY DEF AccessInv, AccessShape
  <2>2. PICK most : most = MaxFailed + Cardinality(Threads)
    OBVIOUS
  <2>3. Cardinality(Threads) \in Nat /\ MaxFailed \in Nat
    BY AccessAssumption, FS_CardinalityType
  <2>4. Unheld(a) \subseteq Threads
    BY DEF Unheld
  <2>5. Cardinality(Unheld(a)) \in Nat
    BY <2>4, UnheldAreFew, AccessAssumption
  <2>6. row1.count + Cardinality(Unheld(a)) < most
    BY <2>1, <2>2 DEF AccessInv, Counting
  <2>7. row1.count \in 0 .. most
    BY <2>2, <2>3, <2>5, <2>6
  <2>8. row1.until \in 0 .. last
    BY <1>1, <1>2, <1>3, <2>1, BoundsAccess
  <2>9. row1 = [count |-> row1.count, until |-> row1.until]
    OBVIOUS
  <2> QED
    BY <1>4, <2>1, <2>2, <2>7, <2>8, <2>9, SameCardinality DEF Access!AttemptRow
<1>7. attempt \in [Addresses -> Access!AttemptRow]
  BY <1>6 DEF AccessInv, AccessShape
<1>8. now \in 0 .. LastTime /\ password \in 0 .. MaxPassword
  BY BoundsAccess, AccessAssumption
<1> QED
  BY <1>5, <1>7, <1>8, BoundsAccess DEF Access!TypeOK, AccessInv, AccessShape

\* Job Descriptions: an answer is one of three, and a row of the ledger is completed with one.
Answers(response) == response.status \in {201, 409} \/ response = Descriptions!TooLarge

KeyBounds(kept) ==
  /\ kept.id >= 1 /\ kept.token.create \in Descriptions!Ids
  /\ kept.status = "processing" => kept.response = Descriptions!Unstored
  /\ kept.status = "completed" => Answers(kept.response)

SenderBounds(s) ==
  /\ s.at \in {"claiming", "reading", "claimed", "classifying"} => s.create \in Descriptions!Ids
  /\ s.at \in {"claimed", "classifying"} => s.row >= 1

RowBounds(d) ==
  /\ d.by >= 1 /\ d.current <= MaxVersions
  /\ \A v \in DOMAIN d.versions : d.versions[v].read <= MaxVersions

ToldBounds(answer) == answer.row >= 1 /\ Answers(answer.response)

DescriptionBounds ==
  /\ claims.creates <= MaxRequests /\ claims.rows <= MaxRequests
  /\ \A d \in DOMAIN described : RowBounds(described[d])
  /\ \A k \in Keys : keyRow[k] # NoKey => KeyBounds(keyRow[k])
  /\ \A c \in Threads : SenderBounds(sender[c])
  /\ \A answer \in told : ToldBounds(answer)

\* These say nothing of the state.
LEMMA DescriptionBoundsMove ==
  ASSUME DescriptionBounds, claims'.creates <= MaxRequests, claims'.rows <= MaxRequests,
         \A d \in DOMAIN described' : RowBounds(described'[d]),
         \A k \in Keys : keyRow'[k] # NoKey => KeyBounds(keyRow'[k]),
         \A c \in Threads : SenderBounds(sender'[c]),
         \A answer \in told' : ToldBounds(answer)
  PROVE  DescriptionBounds'
BY DEF DescriptionBounds, KeyBounds, SenderBounds, RowBounds, ToldBounds, Answers,
   Descriptions!TooLarge, Descriptions!Unstored, Descriptions!Ids

LEMMA SendersBounded ==
  ASSUME DescriptionsInv, DescriptionBounds, NEW c \in Threads, NEW r, SenderBounds(r),
         Descriptions!Goto(c, r)
  PROVE  \A b \in Threads : SenderBounds(sender'[b])
<1>1. sender'[c] = r /\ \A b \in Threads \ {c} : sender'[b] = sender[b]
  BY DEF DescriptionsInv, DescriptionsShape, Descriptions!Goto
<1> QED
  BY <1>1 DEF DescriptionBounds

LEMMA KeysBounded ==
  ASSUME DescriptionsInv, DescriptionBounds, NEW k \in Keys, NEW n, KeyBounds(n),
         Descriptions!Keep(k, n)
  PROVE  \A l \in Keys : keyRow'[l] # NoKey => KeyBounds(keyRow'[l])
<1>1. keyRow'[k] = n /\ \A l \in Keys \ {k} : keyRow'[l] = keyRow[l]
  BY DEF DescriptionsInv, DescriptionsShape, Descriptions!Keep
<1> QED
  BY <1>1 DEF DescriptionBounds

LEMMA StillBounded ==
  ASSUME DescriptionBounds
  PROVE  /\ claims.creates <= MaxRequests /\ claims.rows <= MaxRequests
         /\ \A d \in DOMAIN described : RowBounds(described[d])
         /\ \A k \in Keys : keyRow[k] # NoKey => KeyBounds(keyRow[k])
         /\ \A c \in Threads : SenderBounds(sender[c])
         /\ \A answer \in told : ToldBounds(answer)
BY DEF DescriptionBounds

LEMMA RestingBounded ==
  SenderBounds(Descriptions!Idle) /\ SenderBounds([at |-> "answered"])
BY DEF SenderBounds, Descriptions!Idle

\* What a sender works on, with its bounds
LEMMA WorkBounded ==
  ASSUME DescriptionsInv, DescriptionBounds, NEW c \in Threads,
         sender[c].at \in {"claiming", "reading", "claimed", "classifying"}
  PROVE  /\ sender[c] \in WorkShape /\ sender[c].key \in Keys
         /\ sender[c].create \in Descriptions!Ids
         /\ sender[c].at \in {"claimed", "classifying"} => sender[c].row >= 1
<1>1. sender[c] \in WorkShape
  BY WorkIs
<1>2. sender[c].key \in Keys
  BY <1>1 DEF WorkShape
<1> QED
  BY <1>1, <1>2 DEF DescriptionBounds, SenderBounds

\* A sender goes on with the same create.
LEMMA GoesOnBounded ==
  ASSUME NEW s \in WorkShape, s.create \in Descriptions!Ids
  PROVE  /\ SenderBounds([s EXCEPT !.at = "reading"])
         /\ s.row >= 1 => SenderBounds([s EXCEPT !.at = "classifying"])
         /\ SenderBounds([s EXCEPT !.at = "claiming", !.try = 2, !.row = 0])
         /\ \A id \in Nat : id >= 1 => SenderBounds([s EXCEPT !.at = "claimed", !.row = id])
<1>1. DOMAIN s = {"at", "key", "posting", "create", "try", "row"}
  BY DEF WorkShape
<1>2. PICK r : r = [s EXCEPT !.at = "reading"]
  OBVIOUS
<1>3. r.at = "reading" /\ r.create = s.create
  BY <1>1, <1>2
<1>4. SenderBounds(r)
  BY <1>3 DEF SenderBounds
<1>5. PICK q : q = [s EXCEPT !.at = "classifying"]
  OBVIOUS
<1>6. q.at = "classifying" /\ q.create = s.create /\ q.row = s.row
  BY <1>1, <1>5
<1>7. s.row >= 1 => SenderBounds(q)
  BY <1>6 DEF SenderBounds
<1>8. PICK t : t = [s EXCEPT !.at = "claiming", !.try = 2, !.row = 0]
  OBVIOUS
<1>9. t.at = "claiming" /\ t.create = s.create
  BY <1>1, <1>8
<1>10. SenderBounds(t)
  BY <1>9 DEF SenderBounds
<1>11. ASSUME NEW id \in Nat, id >= 1
       PROVE  SenderBounds([s EXCEPT !.at = "claimed", !.row = id])
  <2>1. PICK w : w = [s EXCEPT !.at = "claimed", !.row = id]
    OBVIOUS
  <2>2. w.at = "claimed" /\ w.create = s.create /\ w.row = id
    BY <1>1, <2>1
  <2>3. SenderBounds(w)
    BY <1>11, <2>2 DEF SenderBounds
  <2> QED
    BY <2>1, <2>3
<1> QED
  BY <1>2, <1>4, <1>5, <1>7, <1>8, <1>10, <1>11

LEMMA SendBounded ==
  ASSUME DescriptionsInv, DescriptionBounds, NEW c \in Threads, Descriptions!Send(c)
  PROVE  DescriptionBounds'
<1>1. claims \in [creates : Nat, rows : Nat] /\ claims.creates < MaxRequests
      /\ MaxRequests \in Nat
  BY StandsStill, OperationBoundsAssumption DEF Descriptions!Send
<1>2. claims' = [claims EXCEPT !.creates = @ + 1] /\ UNCHANGED <<described, keyRow, told>>
  BY DEF Descriptions!Send
<1>3. claims'.creates = claims.creates + 1 /\ claims'.rows = claims.rows
  BY <1>1, <1>2
<1>4. claims'.creates \in Descriptions!Ids /\ claims'.creates <= MaxRequests
  BY <1>1, <1>3 DEF Descriptions!Ids
<1>5. PICK k \in Keys, p \in Postings :
        Descriptions!Goto(c, [at |-> "claiming", key |-> k, posting |-> p,
                              create |-> claims.creates + 1, try |-> 1, row |-> 0])
  BY DEF Descriptions!Send
<1>6. PICK r : r = [at |-> "claiming", key |-> k, posting |-> p,
                    create |-> claims.creates + 1, try |-> 1, row |-> 0]
  OBVIOUS
<1>7. SenderBounds(r)
  BY <1>3, <1>4, <1>6 DEF SenderBounds
<1>8. \A b \in Threads : SenderBounds(sender'[b])
  BY <1>5, <1>6, <1>7, SendersBounded
<1> QED
  BY <1>2, <1>3, <1>4, <1>8, StillBounded, DescriptionBoundsMove

LEMMA ClaimBounded ==
  ASSUME DescriptionsInv, DescriptionBounds, NEW c \in Threads, Descriptions!Claim(c)
  PROVE  DescriptionBounds'
<1>1. sender[c] \in WorkShape /\ sender[c].key \in Keys /\ sender[c].create \in Descriptions!Ids
  BY WorkBounded DEF Descriptions!Claim, Descriptions!At
<1>2. claims \in [creates : Nat, rows : Nat] /\ claims.rows < MaxRequests /\ MaxRequests \in Nat
  BY StandsStill, OperationBoundsAssumption DEF Descriptions!Claim
<1>3. PICK id \in Nat : id = claims.rows + 1
  BY <1>2
<1>4. id >= 1 /\ id <= MaxRequests
  BY <1>2, <1>3
<1>5. PICK n : n = [id |-> id, posting |-> sender[c].posting, status |-> "processing",
                    token |-> Descriptions!Token(c), live |-> TRUE, kept |-> TRUE,
                    response |-> Descriptions!Unstored]
  OBVIOUS
<1>6. /\ Descriptions!Keep(sender[c].key, n) /\ claims' = [claims EXCEPT !.rows = @ + 1]
      /\ Descriptions!Goto(c, [sender[c] EXCEPT !.at = "claimed", !.row = id])
      /\ UNCHANGED <<described, told>>
  BY <1>3, <1>5 DEF Descriptions!Claim, Descriptions!Claimed
<1>7. KeyBounds(n)
  BY <1>1, <1>4, <1>5 DEF KeyBounds, Descriptions!Token
<1>8. claims'.creates = claims.creates /\ claims'.rows = id
  BY <1>2, <1>3, <1>6
<1>9. SenderBounds([sender[c] EXCEPT !.at = "claimed", !.row = id])
  BY <1>1, <1>4, GoesOnBounded
<1>10. \A b \in Threads : SenderBounds(sender'[b])
  BY <1>6, <1>9, SendersBounded
<1>11. \A l \in Keys : keyRow'[l] # NoKey => KeyBounds(keyRow'[l])
  BY <1>1, <1>6, <1>7, KeysBounded
<1> QED
  BY <1>4, <1>6, <1>8, <1>10, <1>11, StillBounded, DescriptionBoundsMove

\* A sender goes on, and nothing else changes.
LEMMA OnlySenderBounded ==
  ASSUME DescriptionsInv, DescriptionBounds, NEW c \in Threads, NEW r, SenderBounds(r),
         Descriptions!Goto(c, r), UNCHANGED <<described, keyRow, claims, told>>
  PROVE  DescriptionBounds'
<1>1. \A b \in Threads : SenderBounds(sender'[b])
  BY SendersBounded
<1> QED
  BY <1>1, StillBounded, DescriptionBoundsMove

LEMMA QuietBounded ==
  ASSUME DescriptionsInv, DescriptionBounds, NEW c \in Threads,
         \/ Descriptions!KeyConflict(c) \/ Descriptions!ClaimRefused(c)
         \/ Descriptions!ClassifyFails(c) \/ Descriptions!OwnershipLost(c) \/ Descriptions!Dies(c)
         \/ Descriptions!FinalizeConflict(c)
  PROVE  DescriptionBounds'
<1>1. CASE Descriptions!KeyConflict(c)
  <2>1. sender[c] \in WorkShape /\ sender[c].create \in Descriptions!Ids
    BY <1>1, WorkBounded DEF Descriptions!KeyConflict, Descriptions!At
  <2> QED
    BY <1>1, <2>1, GoesOnBounded, OnlySenderBounded DEF Descriptions!KeyConflict
<1>2. CASE Descriptions!ClaimRefused(c) \/ Descriptions!ClassifyFails(c)
  BY <1>2, RestingBounded, OnlySenderBounded
     DEF Descriptions!ClaimRefused, Descriptions!ClassifyFails, Descriptions!Answered
<1>3. CASE Descriptions!OwnershipLost(c)
  <2>1. sender[c] \in WorkShape /\ sender[c].create \in Descriptions!Ids
    BY <1>3, WorkBounded DEF Descriptions!OwnershipLost, Descriptions!At
  <2>2. PICK r : r = [sender[c] EXCEPT !.at = "claiming", !.try = 2, !.row = 0]
    OBVIOUS
  <2>3. SenderBounds(r)
    BY <2>1, <2>2, GoesOnBounded
  <2>4. Descriptions!Goto(c, r) \/ Descriptions!Goto(c, [at |-> "answered"])
    BY <1>3, <2>2 DEF Descriptions!OwnershipLost, Descriptions!Answered
  <2>5. UNCHANGED <<described, keyRow, claims, told>>
    BY <1>3 DEF Descriptions!OwnershipLost
  <2> QED
    BY <2>3, <2>4, <2>5, RestingBounded, OnlySenderBounded
<1>4. CASE Descriptions!Dies(c)
  BY <1>4, RestingBounded, OnlySenderBounded DEF Descriptions!Dies
<1>5. CASE Descriptions!FinalizeConflict(c)
  <2>1. sender[c] \in WorkShape /\ sender[c].create \in Descriptions!Ids /\ sender[c].row >= 1
    BY <1>5, WorkBounded DEF Descriptions!FinalizeConflict, Descriptions!Finalizes, Descriptions!At
  <2> QED
    BY <1>5, <2>1, GoesOnBounded, OnlySenderBounded DEF Descriptions!FinalizeConflict
<1> QED
  BY <1>1, <1>2, <1>3, <1>4, <1>5

\* An answer is told from a row, and the sender has it.
LEMMA TellingBounded ==
  ASSUME DescriptionsInv, DescriptionBounds, NEW c \in Threads, NEW id, NEW response,
         id >= 1, Answers(response), Descriptions!Tell(c, id, response)
  PROVE  \A answer \in told' : ToldBounds(answer)
<1>1. PICK x : x = [row |-> id, posting |-> sender[c].posting, response |-> response]
  OBVIOUS
<1>2. told' = told \cup {x}
  BY <1>1 DEF Descriptions!Tell
<1>3. ToldBounds(x)
  BY <1>1 DEF ToldBounds
<1> QED
  BY <1>2, <1>3, StillBounded

LEMMA AnsweredBounded ==
  ASSUME DescriptionsInv, DescriptionBounds, NEW c \in Threads, Descriptions!Answered(c)
  PROVE  \A b \in Threads : SenderBounds(sender'[b])
BY RestingBounded, SendersBounded DEF Descriptions!Answered

LEMMA ReplayBounded ==
  ASSUME DescriptionsInv, DescriptionBounds, NEW c \in Threads, Descriptions!Replay(c)
  PROVE  DescriptionBounds'
<1> DEFINE kept == keyRow[sender[c].key]
<1>1. sender[c].key \in Keys
  BY WorkBounded DEF Descriptions!Replay, Descriptions!Reads, Descriptions!At
<1>2. kept # NoKey /\ kept.status = "completed" /\ Descriptions!Tell(c, kept.id, kept.response)
      /\ Descriptions!Answered(c) /\ UNCHANGED <<described, keyRow, claims>>
  BY DEF Descriptions!Replay, Descriptions!SameRequest
<1>3. KeyBounds(kept)
  BY <1>1, <1>2, StillBounded
<1>4. kept.id >= 1 /\ Answers(kept.response)
  BY <1>2, <1>3 DEF KeyBounds
<1>5. \A answer \in told' : ToldBounds(answer)
  BY <1>2, <1>4, TellingBounded
<1>6. \A b \in Threads : SenderBounds(sender'[b])
  BY <1>2, AnsweredBounded
<1> QED
  BY <1>2, <1>5, <1>6, StillBounded, DescriptionBoundsMove

LEMMA TakeOverBounded ==
  ASSUME DescriptionsInv, DescriptionBounds, NEW c \in Threads, Descriptions!TakeOver(c)
  PROVE  DescriptionBounds'
<1> DEFINE kept == keyRow[sender[c].key]
<1>1. sender[c] \in WorkShape /\ sender[c].key \in Keys /\ sender[c].create \in Descriptions!Ids
  BY WorkBounded DEF Descriptions!TakeOver, Descriptions!Reads, Descriptions!At
<1>2. kept # NoKey /\ kept.status = "processing"
      /\ Descriptions!Goto(c, [sender[c] EXCEPT !.at = "claimed", !.row = kept.id])
      /\ UNCHANGED <<described, claims, told>>
  BY DEF Descriptions!TakeOver, Descriptions!SameRequest, Descriptions!Claimed
<1>3. PICK n : n = [kept EXCEPT !.token = Descriptions!Token(c), !.live = TRUE]
  OBVIOUS
<1>4. Descriptions!Keep(sender[c].key, n)
  BY <1>3 DEF Descriptions!TakeOver
<1>5. kept \in KeyRowShape /\ KeyBounds(kept)
  BY <1>1, <1>2, KeyRowIs, StillBounded
<1>6. PICK k0 : k0 = kept
  OBVIOUS
<1>7. DOMAIN k0 = {"id", "posting", "status", "token", "live", "kept", "response"} /\ k0.id \in Nat
  BY <1>5, <1>6 DEF KeyRowShape
<1>8. n.id = k0.id /\ n.token = Descriptions!Token(c) /\ n.status = k0.status
      /\ n.response = k0.response
  BY <1>3, <1>6, <1>7
<1>9. KeyBounds(n)
  BY <1>1, <1>5, <1>6, <1>8 DEF KeyBounds, Descriptions!Token
<1>10. SenderBounds([sender[c] EXCEPT !.at = "claimed", !.row = k0.id])
  BY <1>1, <1>5, <1>6, <1>7, GoesOnBounded DEF KeyBounds
<1>11. \A b \in Threads : SenderBounds(sender'[b])
  BY <1>2, <1>6, <1>10, SendersBounded
<1>12. \A l \in Keys : keyRow'[l] # NoKey => KeyBounds(keyRow'[l])
  BY <1>1, <1>4, <1>9, KeysBounded
<1> QED
  BY <1>2, <1>11, <1>12, StillBounded, DescriptionBoundsMove

LEMMA CompleteBounded ==
  ASSUME DescriptionsInv, DescriptionBounds, NEW c \in Threads,
         Descriptions!Finalizes(c) \/ Descriptions!At(c, "classifying"),
         NEW response, Answers(response), Descriptions!Complete(c, response),
         claims' = claims, \A d \in DOMAIN described' : RowBounds(described'[d])
  PROVE  DescriptionBounds'
<1> DEFINE s == sender[c]
           kept == keyRow[s.key]
<1>1. s \in WorkShape /\ s.at \in {"claimed", "classifying"} /\ Owned(s, kept)
  BY FinalizerOwns
<1>2. s.key \in Keys /\ s.row >= 1 /\ kept # NoKey
  BY <1>1, WorkBounded DEF Owned
<1>3. PICK n : n = [kept EXCEPT !.status = "completed", !.kept = TRUE, !.response = response]
  OBVIOUS
<1>4. Descriptions!Keep(s.key, n) /\ Descriptions!Tell(c, s.row, response)
      /\ Descriptions!Answered(c)
  BY <1>3 DEF Descriptions!Complete
<1>5. kept \in KeyRowShape /\ KeyBounds(kept)
  BY <1>2, KeyRowIs, StillBounded
<1>6. PICK k0 : k0 = kept
  OBVIOUS
<1>7. DOMAIN k0 = {"id", "posting", "status", "token", "live", "kept", "response"}
  BY <1>5, <1>6 DEF KeyRowShape
<1>8. n.id = k0.id /\ n.token = k0.token /\ n.status = "completed" /\ n.response = response
  BY <1>3, <1>6, <1>7
<1>9. KeyBounds(n)
  BY <1>5, <1>6, <1>8 DEF KeyBounds
<1>10. \A l \in Keys : keyRow'[l] # NoKey => KeyBounds(keyRow'[l])
  BY <1>2, <1>4, <1>9, KeysBounded
<1>11. \A answer \in told' : ToldBounds(answer)
  BY <1>2, <1>4, TellingBounded
<1>12. \A b \in Threads : SenderBounds(sender'[b])
  BY <1>4, AnsweredBounded
<1> QED
  BY <1>10, <1>11, <1>12, StillBounded, DescriptionBoundsMove

LEMMA FinalizeBounded ==
  ASSUME DescriptionsInv, DescriptionBounds, NEW c \in Threads,
         Descriptions!FinalizeTooLarge(c) \/ Descriptions!Classify(c)
  PROVE  DescriptionBounds'
<1>1. PICK response : Answers(response) /\ Descriptions!Complete(c, response)
  <2>1. CASE Descriptions!FinalizeTooLarge(c)
    BY <2>1 DEF Descriptions!FinalizeTooLarge, Answers
  <2>2. CASE Descriptions!Classify(c)
    <3>1. PICK d : Descriptions!Complete(c, Descriptions!Exists(d))
      BY <2>2 DEF Descriptions!Classify
    <3>2. Answers(Descriptions!Exists(d))
      BY DEF Answers, Descriptions!Exists
    <3> QED
      BY <3>1, <3>2
  <2> QED
    BY <2>1, <2>2
<1>2. UNCHANGED <<described, claims>>
      /\ (Descriptions!Finalizes(c) \/ Descriptions!At(c, "classifying"))
  BY DEF Descriptions!FinalizeTooLarge, Descriptions!Classify
<1> QED
  BY <1>1, <1>2, StillBounded, CompleteBounded

LEMMA CreateBounded ==
  ASSUME DescriptionsInv, DescriptionBounds, NEW c \in Threads, Descriptions!FinalizeCreates(c)
  PROVE  DescriptionBounds'
<1> DEFINE s == sender[c]
<1>1. described \in Seq(DescribedShape) /\ Len(described) \in Nat
      /\ DOMAIN described = 1 .. Len(described)
  BY DEF DescriptionsInv, DescriptionsShape
<1>2. PICK last \in Nat : last = Len(described) + 1
  BY <1>1
<1>3. PICK response : response = Descriptions!Created(last)
  OBVIOUS
<1>4. Answers(response)
  BY <1>3 DEF Answers, Descriptions!Created
<1>5. Descriptions!Finalizes(c) /\ Descriptions!Complete(c, response) /\ claims' = claims
  BY <1>2, <1>3 DEF Descriptions!FinalizeCreates
<1>6. s.row >= 1
  BY <1>5, WorkBounded DEF Descriptions!Finalizes, Descriptions!At
<1>7. PICK version : version = [number |-> 1, posting |-> s.posting, read |-> 0]
  OBVIOUS
<1>8. PICK versions : versions = <<version>>
  OBVIOUS
<1>9. PICK new : new = [by |-> s.row, current |-> 1, lock |-> 0, versions |-> versions]
  OBVIOUS
<1>10. described' = Append(described, new)
  BY <1>7, <1>8, <1>9 DEF Descriptions!FinalizeCreates
<1>11. version.read = 0 /\ DOMAIN versions = {1} /\ versions[1] = version
  BY <1>7, <1>8
<1>12. RowBounds(new)
  BY <1>6, <1>9, <1>11, OperationBoundsAssumption DEF RowBounds
<1>13. DOMAIN described' = 1 .. last /\ described'[last] = new
       /\ \A d \in DOMAIN described : described'[d] = described[d]
  BY <1>1, <1>2, <1>10
<1>14. \A d \in DOMAIN described' : d = last \/ d \in DOMAIN described
  BY <1>1, <1>2, <1>13
<1>15. \A d \in DOMAIN described' : RowBounds(described'[d])
  BY <1>12, <1>13, <1>14, StillBounded
<1> QED
  BY <1>4, <1>5, <1>15, CompleteBounded

LEMMA LeavingBounded ==
  ASSUME DescriptionsInv, DescriptionBounds, NEW c \in Threads, Descriptions!Cleanup(c)
  PROVE  DescriptionBounds'
<1>1. Descriptions!Goto(c, Descriptions!Idle) /\ UNCHANGED <<described, claims, told>>
      /\ \A k \in Keys : keyRow'[k] = keyRow[k] \/ keyRow'[k] = NoKey
  BY DEF Descriptions!Cleanup
<1>2. \A b \in Threads : SenderBounds(sender'[b])
  BY <1>1, RestingBounded, SendersBounded
<1>3. \A l \in Keys : keyRow'[l] # NoKey => KeyBounds(keyRow'[l])
  BY <1>1, StillBounded
<1> QED
  BY <1>1, <1>2, <1>3, StillBounded, DescriptionBoundsMove

LEMMA ExpiryBounded ==
  ASSUME DescriptionsInv, DescriptionBounds, NEW k \in Keys,
         Descriptions!LeaseExpires(k) \/ Descriptions!RetentionExpires(k)
  PROVE  DescriptionBounds'
<1>1. keyRow[k] # NoKey /\ UNCHANGED <<described, sender, claims, told>>
  BY DEF Descriptions!LeaseExpires, Descriptions!RetentionExpires
<1>2. PICK k0 : k0 = keyRow[k]
  OBVIOUS
<1>3. DOMAIN k0 = {"id", "posting", "status", "token", "live", "kept", "response"} /\ KeyBounds(k0)
  BY <1>1, <1>2, KeyRowIs, StillBounded DEF KeyRowShape
<1>4. PICK n : /\ Descriptions!Keep(k, n)
               /\ n = [k0 EXCEPT !.live = FALSE] \/ n = [k0 EXCEPT !.kept = FALSE]
  BY <1>2 DEF Descriptions!LeaseExpires, Descriptions!RetentionExpires
<1>5. n.id = k0.id /\ n.token = k0.token /\ n.status = k0.status /\ n.response = k0.response
  BY <1>3, <1>4
<1>6. KeyBounds(n)
  BY <1>3, <1>5 DEF KeyBounds
<1>7. \A l \in Keys : keyRow'[l] # NoKey => KeyBounds(keyRow'[l])
  BY <1>4, <1>6, KeysBounded
<1> QED
  BY <1>1, <1>7, StillBounded, DescriptionBoundsMove

LEMMA ReplaceBounded ==
  ASSUME DescriptionsInv, DescriptionBounds, NEW d \in DOMAIN described, NEW p \in Postings,
         NEW read \in 0 .. MaxVersions, Descriptions!Replace(d, p, read)
  PROVE  DescriptionBounds'
<1> DEFINE old == described[d]
<1>1. described \in Seq(DescribedShape)
  BY DEF DescriptionsInv, DescriptionsShape
<1>2. /\ old.versions \in Seq(VersionShape) /\ old.current \in Nat
      /\ DOMAIN old.versions = 1 .. old.current /\ Len(old.versions) = old.current
      /\ old.lock = old.current - 1 /\ RowBounds(old)
  BY DescribedIs, StillBounded DEF DescriptionsInv, Describing, Versioned
<1>3. old.lock + 1 < MaxVersions /\ UNCHANGED <<keyRow, sender, claims, told>>
  BY DEF Descriptions!Replace
<1>4. PICK version : version = [number |-> old.versions[old.current].number + 1, posting |-> p,
                                read |-> read]
  OBVIOUS
<1>5. PICK versions : versions = Append(old.versions, version)
  OBVIOUS
<1>6. PICK new : new = [by |-> old.by, current |-> old.current + 1, lock |-> old.lock + 1,
                        versions |-> versions]
  OBVIOUS
<1>7. described' = [described EXCEPT ![d] = new]
  BY <1>4, <1>5, <1>6 DEF Descriptions!Replace
<1>8. PICK o : o = old
  OBVIOUS
<1>9. version.read <= MaxVersions
  BY <1>4, OperationBoundsAssumption
<1>10. /\ DOMAIN versions = 1 .. o.current + 1 /\ versions[o.current + 1] = version
       /\ \A v \in 1 .. o.current : versions[v] = o.versions[v]
  BY <1>2, <1>5, <1>8
<1>11. \A v \in DOMAIN versions : v \in 1 .. o.current \/ v = o.current + 1
  BY <1>2, <1>8, <1>10
<1>12. \A v \in 1 .. o.current : o.versions[v].read <= MaxVersions
  BY <1>2, <1>8 DEF RowBounds
<1>13. \A v \in DOMAIN versions : versions[v].read <= MaxVersions
  BY <1>9, <1>10, <1>11, <1>12
<1>14. o.current + 1 <= MaxVersions
  BY <1>2, <1>3, <1>8, OperationBoundsAssumption
<1>15. o.by >= 1
  BY <1>2, <1>8 DEF RowBounds
<1>16. new.by = o.by /\ new.current = o.current + 1 /\ new.versions = versions
  BY <1>6, <1>8
<1>17. RowBounds(new)
  BY <1>13, <1>14, <1>15, <1>16 DEF RowBounds
<1>18. DOMAIN described' = DOMAIN described /\ described'[d] = new
       /\ \A e \in DOMAIN described \ {d} : described'[e] = described[e]
  BY <1>1, <1>7
<1>19. \A e \in DOMAIN described' : RowBounds(described'[e])
  BY <1>17, <1>18, StillBounded
<1> QED
  BY <1>3, <1>19, StillBounded, DescriptionBoundsMove

LEMMA DescriptionBoundsKept ==
  ASSUME DescriptionsInv, DescriptionBounds, Descriptions!Next
  PROVE  DescriptionBounds'
BY SendBounded, ClaimBounded, QuietBounded, ReplayBounded, TakeOverBounded, FinalizeBounded,
   CreateBounded, LeavingBounded, ExpiryBounded, ReplaceBounded
   DEF Descriptions!Next, Descriptions!Create

LEMMA DescriptionBoundsBegin ==
  ASSUME Descriptions!Init
  PROVE  DescriptionBounds
<1>1. \A c \in Threads : SenderBounds(sender[c])
  BY RestingBounded DEF Descriptions!Init
<1> QED
  BY <1>1, OperationBoundsAssumption DEF Descriptions!Init, DescriptionBounds

LEMMA DescriptionBoundsStay ==
  ASSUME DescriptionBounds, UNCHANGED descriptionVars
  PROVE  DescriptionBounds'
BY StillBounded, DescriptionBoundsMove DEF descriptionVars

\* Each Job Description has a row of the ledger of its own.
LEMMA FewDescribed ==
  ASSUME DescriptionsInv, DescriptionBounds
  PROVE  \A d \in DOMAIN described : d \in Descriptions!Ids
<1>1. /\ described \in Seq(DescribedShape) /\ Len(described) \in Nat
      /\ DOMAIN described = 1 .. Len(described) /\ claims.rows \in Nat
  BY DEF DescriptionsInv, DescriptionsShape
<1>2. PICK all, rows \in Nat : all = Len(described) /\ rows = claims.rows
  BY <1>1
<1>3. ASSUME NEW d \in 1 .. all
      PROVE  described[d].by \in 1 .. rows
  <2>1. described[d] \in DescribedShape /\ described[d].by <= rows /\ RowBounds(described[d])
    BY <1>1, <1>2, DescribedIs, StillBounded DEF DescriptionsInv, Numbered
  <2> QED
    BY <1>2, <2>1 DEF DescribedShape, RowBounds
<1>4. PICK by : by = [d \in 1 .. all |-> described[d].by]
  OBVIOUS
<1>5. by \in Injection(1 .. all, 1 .. rows)
  <2>1. by \in [1 .. all -> 1 .. rows]
    BY <1>3, <1>4
  <2>2. \A d, e \in 1 .. all : d # e => by[d] # by[e]
    BY <1>1, <1>2, <1>4 DEF DescriptionsInv, Describing
  <2> QED
    BY <2>1, <2>2, <1>4 DEF Injection, IsInjective
<1>6. IsFiniteSet(1 .. rows) /\ Cardinality(1 .. rows) = rows /\ Cardinality(1 .. all) = all
  <2>1. PICK a \in Int, b \in Int, z \in Int : a = 1 /\ b = rows /\ z = all
    BY <1>2
  <2>2. /\ IsFiniteSet(a .. b)
        /\ Cardinality(a .. b) = IF a > b THEN 0 ELSE b - a + 1
        /\ Cardinality(a .. z) = IF a > z THEN 0 ELSE z - a + 1
    BY FS_Interval
  <2> QED
    BY <1>2, <2>1, <2>2
<1>7. all <= rows
  BY <1>5, <1>6, FS_Injection
<1> QED
  BY <1>1, <1>2, <1>7, StillBounded, OperationBoundsAssumption DEF Descriptions!Ids

LEMMA AnswersAreResponses ==
  ASSUME DescriptionsInv, DescriptionBounds, NEW response \in ResponseShape, Answers(response),
         NEW id, NEW posting, Truthful(described, response, id, posting)
  PROVE  response \in Descriptions!Responses
<1>1. response = [status |-> response.status, description |-> response.description]
  BY DEF ResponseShape
<1>2. response.status \in {201, 409} => response.description \in Descriptions!Ids
  BY FewDescribed DEF Truthful
<1> QED
  BY <1>1, <1>2
     DEF Answers, Descriptions!Responses, Descriptions!Created, Descriptions!Exists

LEMMA DescriptionsTyped ==
  ASSUME DescriptionsInv, DescriptionBounds
  PROVE  Descriptions!TypeOK
<1>1. MaxRequests \in Nat /\ MaxVersions \in Nat \ {0} /\ claims \in [creates : Nat, rows : Nat]
      /\ claims.rows <= MaxRequests /\ claims.creates <= MaxRequests
  BY StandsStill, StillBounded, OperationBoundsAssumption
<1>2. ASSUME NEW id \in Nat, id >= 1, id <= claims.rows
      PROVE  id \in Descriptions!Ids
  BY <1>1, <1>2 DEF Descriptions!Ids
<1>3. ASSUME NEW d \in DOMAIN described
      PROVE  /\ [by |-> described[d].by, current |-> described[d].current,
                 lock |-> described[d].lock] \in Descriptions!Description
             /\ \A v \in DOMAIN described[d].versions :
                  described[d].versions[v] \in Descriptions!Version
  <2>1. PICK old \in DescribedShape : old = described[d]
    BY DescribedIs
  <2>2. /\ old.by \in Nat /\ old.by <= claims.rows /\ old.current \in Nat /\ old.current >= 1
        /\ old.lock = old.current - 1 /\ RowBounds(old)
        /\ old.versions \in Seq(VersionShape) /\ DOMAIN old.versions = 1 .. old.current
        /\ \A v \in 1 .. old.current : old.versions[v].number = v
    BY <2>1, DescribedIs, StillBounded
       DEF DescribedShape, DescriptionsInv, Numbered, Describing, Versioned
  <2>3. old.current <= MaxVersions /\ old.by >= 1
        /\ \A v \in 1 .. old.current : old.versions[v].read <= MaxVersions
    BY <2>2 DEF RowBounds
  <2>4. old.by \in Descriptions!Ids /\ old.current \in 1 .. MaxVersions
        /\ old.lock \in 0 .. (MaxVersions - 1)
    BY <1>1, <1>2, <2>2, <2>3
  <2>5. ASSUME NEW v \in 1 .. old.current
        PROVE  old.versions[v] \in Descriptions!Version
    <3>1. PICK x \in VersionShape : x = old.versions[v]
      BY <2>2
    <3>2. x.number = v /\ x.read <= MaxVersions /\ x.read \in Nat /\ v \in Nat /\ v >= 1
          /\ v <= MaxVersions
      BY <1>1, <2>2, <2>3, <3>1 DEF VersionShape
    <3>3. x.number \in 1 .. MaxVersions /\ x.read \in 0 .. MaxVersions
      BY <1>1, <3>2
    <3> QED
      BY <3>1, <3>3 DEF VersionShape, Descriptions!Version
  <2> QED
    BY <2>1, <2>2, <2>4, <2>5 DEF Descriptions!Description
<1>4. ASSUME NEW k \in Keys, keyRow[k] # NoKey
      PROVE  keyRow[k] \in Descriptions!KeyRow
  <2>1. PICK kept \in KeyRowShape : kept = keyRow[k]
    BY <1>4, KeyRowIs
  <2>2. kept.id \in Nat /\ kept.id <= claims.rows /\ KeyBounds(kept)
    BY <1>4, <2>1, StillBounded DEF KeyRowShape, DescriptionsInv, Numbered
  <2>3. kept.id \in Descriptions!Ids /\ kept.token.create \in Descriptions!Ids
    BY <1>2, <2>2 DEF KeyBounds
  <2>4. kept.response \in Descriptions!Responses \cup {Descriptions!Unstored}
    <3>1. CASE kept.status = "processing"
      BY <2>2, <3>1 DEF KeyBounds
    <3>2. CASE kept.status = "completed"
      <4>1. Answers(kept.response) /\ kept.response \in ResponseShape
        BY <2>2, <3>2 DEF KeyBounds, KeyRowShape
      <4>2. Truthful(described, kept.response, kept.id, kept.posting)
        BY <1>4, <2>1, <3>2 DEF DescriptionsInv, Answering
      <4> QED
        BY <4>1, <4>2, AnswersAreResponses
    <3> QED
      BY <3>1, <3>2 DEF KeyRowShape
  <2>5. kept.token \in Descriptions!Tokens
    <3>1. PICK token \in [create : Nat, try : {1, 2}] : token = kept.token
      BY DEF KeyRowShape
    <3>2. token = [create |-> token.create, try |-> token.try] /\ token.try \in 1 .. 2
      OBVIOUS
    <3> QED
      BY <2>3, <3>1, <3>2 DEF Descriptions!Tokens
  <2> QED
    BY <2>1, <2>3, <2>4, <2>5 DEF KeyRowShape, Descriptions!KeyRow
<1>5. ASSUME NEW answer \in told
      PROVE  answer.row \in Descriptions!Ids /\ answer.response \in Descriptions!Responses
  <2>1. answer \in [row : Nat, posting : Postings, response : ResponseShape]
        /\ answer.row <= claims.rows /\ ToldBounds(answer)
        /\ Truthful(described, answer.response, answer.row, answer.posting)
    BY StillBounded DEF DescriptionsInv, DescriptionsShape, Numbered, Answering
  <2>2. answer.row \in Nat /\ answer.response \in ResponseShape
        /\ answer.row >= 1 /\ Answers(answer.response)
    BY <2>1 DEF ToldBounds
  <2> QED
    BY <1>2, <2>1, <2>2, AnswersAreResponses
<1>6. claims.creates \in 0 .. MaxRequests /\ claims.rows \in 0 .. MaxRequests
  BY <1>1
<1> QED
  BY <1>3, <1>4, <1>5, <1>6 DEF Descriptions!TypeOK

\* Project Knowledge: a search answers with rows of the index, whose documents have
\* identifiers that were drawn.
KnowledgeBounds ==
  /\ drawn <= MaxDocuments /\ found.method \in {"none", "postgresql_fts", "fallback"}
  /\ found.chunks \subseteq Knowledge!ChunkRow

LEMMA IndexedRows ==
  ASSUME KnowledgeInv, KnowledgeBounds
  PROVE  chunk \subseteq Knowledge!ChunkRow
<1>1. ASSUME NEW x \in chunk
      PROVE  x \in Knowledge!ChunkRow
  <2>1. PICK y \in ChunkRowShape : y = x
    BY DEF KnowledgeInv, KnowledgeShape
  <2>2. x.document \in DOMAIN document /\ DOMAIN document \subseteq 1 .. drawn /\ drawn \in Nat
    BY DEF KnowledgeInv, KnowledgeShape, Indexed
  <2>3. x.document \in 1 .. MaxDocuments
    BY <2>2, OperationBoundsAssumption DEF KnowledgeBounds
  <2>4. y = [document |-> y.document, index |-> y.index, content |-> y.content]
        /\ y.index \in Nat /\ y.content \in Editions
    BY DEF ChunkRowShape
  <2> QED
    BY <2>1, <2>3, <2>4 DEF Knowledge!ChunkRow
<1> QED
  BY <1>1

LEMMA KnowledgeBoundsKept ==
  ASSUME KnowledgeInv, KnowledgeBounds, Knowledge!Next
  PROVE  KnowledgeBounds'
<1>1. PICK t \in Threads :
        \/ \E c \in Editions : Knowledge!Upload(t, c)
        \/ Knowledge!Rebuild(t) \/ Knowledge!ReadFile(t) \/ Knowledge!InsertDocument(t)
        \/ Knowledge!SelectDocuments(t) \/ Knowledge!SeeChunks(t) \/ Knowledge!Lock(t)
        \/ Knowledge!CommitRebuild(t) \/ Knowledge!Fails(t) \/ Knowledge!Search(t)
        \/ Knowledge!SecondStatus(t) \/ Knowledge!FullTextSearch(t)
        \/ Knowledge!FallbackSearch(t)
  BY DEF Knowledge!Next
<1>2. \A d : Knowledge!ChunksOf(d) \subseteq Knowledge!ChunkRow
  BY IndexedRows DEF Knowledge!ChunksOf
<1>3. Knowledge!ChunkRow' = Knowledge!ChunkRow
  BY DEF Knowledge!ChunkRow
<1>4. drawn' <= MaxDocuments
  <2>1. drawn' = drawn \/ (drawn < MaxDocuments /\ drawn' = drawn + 1)
    BY <1>1 DEF Knowledge!Upload, Knowledge!Rebuild, Knowledge!ReadFile,
       Knowledge!InsertDocument, Knowledge!SelectDocuments, Knowledge!SeeChunks,
       Knowledge!Lock, Knowledge!CommitRebuild, Knowledge!Fails, Knowledge!Search,
       Knowledge!SecondStatus, Knowledge!FullTextSearch, Knowledge!FallbackSearch
  <2>2. drawn \in Nat
    BY DEF KnowledgeInv, KnowledgeShape
  <2> QED
    BY <2>1, <2>2, OperationBoundsAssumption DEF KnowledgeBounds
<1>5. \/ found' = found \/ found' = Knowledge!NothingFound
      \/ \E top : found' = [method |-> "postgresql_fts", chunks |-> top]
                  /\ top \subseteq Knowledge!Hits(thread[t].document, FullText)
      \/ found' = [method |-> "fallback",
                   chunks |-> Knowledge!Hits(thread[t].document, Scanned)]
  <2>1. CASE Knowledge!FullTextSearch(t)
    BY <2>1 DEF Knowledge!FullTextSearch
  <2>2. CASE ~Knowledge!FullTextSearch(t)
    BY <1>1, <2>2 DEF Knowledge!Upload, Knowledge!Rebuild, Knowledge!ReadFile,
       Knowledge!InsertDocument, Knowledge!SelectDocuments, Knowledge!SeeChunks,
       Knowledge!Lock, Knowledge!CommitRebuild, Knowledge!Fails, Knowledge!Search,
       Knowledge!SecondStatus, Knowledge!FallbackSearch
  <2> QED
    BY <2>1, <2>2
<1>6. \A d, contents : Knowledge!Hits(d, contents) \subseteq Knowledge!ChunkRow
  BY <1>2 DEF Knowledge!Hits
<1>7. /\ found'.method \in {"none", "postgresql_fts", "fallback"}
      /\ found'.chunks \subseteq Knowledge!ChunkRow
  <2>1. CASE found' = found \/ found' = Knowledge!NothingFound
    BY <2>1 DEF KnowledgeBounds, Knowledge!NothingFound
  <2>2. ASSUME NEW top, found' = [method |-> "postgresql_fts", chunks |-> top],
               top \subseteq Knowledge!Hits(thread[t].document, FullText)
        PROVE  /\ found'.method \in {"none", "postgresql_fts", "fallback"}
               /\ found'.chunks \subseteq Knowledge!ChunkRow
    BY <1>6, <2>2
  <2>3. CASE found' = [method |-> "fallback",
                       chunks |-> Knowledge!Hits(thread[t].document, Scanned)]
    BY <1>6, <2>3
  <2> QED
    BY <1>5, <2>1, <2>2, <2>3
<1> QED
  BY <1>3, <1>4, <1>7 DEF KnowledgeBounds

LEMMA KnowledgeBoundsBegin ==
  ASSUME Knowledge!Init
  PROVE  KnowledgeBounds
BY OperationBoundsAssumption DEF Knowledge!Init, Knowledge!NothingFound, KnowledgeBounds

LEMMA KnowledgeBoundsStay ==
  ASSUME KnowledgeBounds, UNCHANGED knowledgeVars
  PROVE  KnowledgeBounds'
BY DEF KnowledgeBounds, Knowledge!ChunkRow, knowledgeVars

LEMMA KnowledgeTyped ==
  ASSUME KnowledgeInv, KnowledgeBounds
  PROVE  Knowledge!TypeOK
<1>1. drawn \in 0 .. MaxDocuments
  BY OperationBoundsAssumption DEF KnowledgeInv, KnowledgeShape, KnowledgeBounds
<1>2. \A d \in DOMAIN document : document[d] \in Nat
  BY ChunksAssumption DEF KnowledgeInv, Indexed
<1> QED
  BY <1>1, <1>2, IndexedRows DEF Knowledge!TypeOK, Knowledge!DocumentRow, KnowledgeInv,
     KnowledgeShape, KnowledgeBounds

\* Backup and restore: every part is there once the manifest is written, whole or damaged.
AllWritten(d) == d.stage \in {"manifest", "complete"} => d.present \cup d.damaged = Parts

BackupBounds ==
  /\ sequence <= MaxSequence /\ Len(backup) <= MaxBackups /\ restore.attempts <= MaxRestores
  /\ \A b \in DOMAIN backup : AllWritten(backup[b])

LEMMA DirectoryWritten ==
  ASSUME BackupInv, BackupBounds, NEW b \in DOMAIN backup, NEW e, AllWritten(e),
         backup' = [backup EXCEPT ![b] = e], UNCHANGED <<sequence, restore>>
  PROVE  BackupBounds'
<1>1. /\ backup \in Seq(DirectoryShape) /\ DOMAIN backup' = DOMAIN backup /\ backup'[b] = e
      /\ \A c \in DOMAIN backup \ {b} : backup'[c] = backup[c]
  BY DEF BackupInv, BackupShape
<1>2. Len(backup') = Len(backup)
  BY <1>1
<1>3. \A c \in DOMAIN backup' : AllWritten(backup'[c])
  BY <1>1 DEF BackupBounds
<1>4. \A c \in DOMAIN backup' : AllWritten(backup[c])'
  BY <1>3 DEF AllWritten
<1> QED
  BY <1>2, <1>4 DEF BackupBounds

LEMMA BackupWritten ==
  ASSUME BackupInv, BackupBounds, Backup
  PROVE  BackupBounds'
<1>1. UNCHANGED <<sequence, restore>>
  BY DEF Backup, sourceVars
<1>2. CASE BackupBegin
  <2>1. PICK d : backup' = Append(backup, d) /\ d.stage = "begun"
    BY <1>2 DEF BackupBegin
  <2>2. backup \in Seq(DirectoryShape) /\ Len(backup) < MaxBackups
    BY <1>2 DEF BackupBegin, BackupInv, BackupShape
  <2>3. PICK n \in Nat : n = Len(backup)
    BY <2>2
  <2>4. Len(backup') = n + 1 /\ DOMAIN backup' = 1 .. n + 1 /\ DOMAIN backup = 1 .. n
    BY <2>1, <2>2, <2>3
  <2>5. \A c \in 1 .. n + 1 : backup'[c] = IF c <= n THEN backup[c] ELSE d
    BY <2>1, <2>2, <2>3
  <2>6. \A c \in 1 .. n + 1 : AllWritten(backup[c])'
    BY <2>1, <2>4, <2>5 DEF BackupBounds, AllWritten
  <2>7. n + 1 <= MaxBackups
    BY <2>2, <2>3, OperationBoundsAssumption
  <2> QED
    BY <1>1, <2>4, <2>6, <2>7 DEF BackupBounds
<1>3. ASSUME NEW b \in 1 .. MaxBackups,
             \/ Snapshot(b) \/ DatabaseInventory(b) \/ PgDump(b) \/ SafeFiles(b)
             \/ \E entry \in Files \X {"temporary", "whole"} : AddFile(b, entry)
             \/ Manifest(b) \/ Publish(b) \/ BackupFails(b) \/ BackupDies(b)
             \/ \E piece \in Parts : Damage(b, piece)
      PROVE  BackupBounds'
  <2>1. b \in DOMAIN backup
    BY <1>3 DEF Snapshot, DatabaseInventory, PgDump, SafeFiles, AddFile, Manifest, Publish,
       BackupFails, BackupDies, Damage, At
  <2>2. PICK d \in DirectoryShape : d = backup[b]
    BY <2>1, DirectoryIs
  <2>3. AllWritten(d)
    BY <2>1, <2>2 DEF BackupBounds
  <2>4. \E e : backup' = [backup EXCEPT ![b] = e] /\ AllWritten(e)
    <3>1. CASE Snapshot(b)
      <4>1. PICK x : backup' = [backup EXCEPT ![b] = [d EXCEPT !.stage = "snapshot", !.snapshot = x]]
        BY <2>2, <3>1 DEF Snapshot, Becomes
      <4>2. [d EXCEPT !.stage = "snapshot", !.snapshot = x].stage = "snapshot"
        BY DEF DirectoryShape
      <4> QED
        BY <4>1, <4>2 DEF AllWritten
    <3>2. CASE DatabaseInventory(b)
      <4>1. PICK x : backup' = [backup EXCEPT ![b] = [d EXCEPT !.stage = "inventory", !.inventory = x]]
        BY <2>2, <3>2 DEF DatabaseInventory, Becomes
      <4>2. [d EXCEPT !.stage = "inventory", !.inventory = x].stage = "inventory"
        BY DEF DirectoryShape
      <4> QED
        BY <4>1, <4>2 DEF AllWritten
    <3>3. CASE PgDump(b)
      <4>1. PICK schema \in BOOLEAN :
              backup' = [backup EXCEPT ![b] =
                [d EXCEPT !.stage = "dumped", !.named = schema,
                          !.dump = [rows |-> d.snapshot, sequence |-> sequence],
                          !.present = {"postgres.dump"}]]
        BY <2>2, <3>3 DEF PgDump, Becomes
      <4>2. PICK e : e = [d EXCEPT !.stage = "dumped", !.named = schema,
                                   !.dump = [rows |-> d.snapshot, sequence |-> sequence],
                                   !.present = {"postgres.dump"}]
        OBVIOUS
      <4>3. e.stage = "dumped"
        BY <4>2 DEF DirectoryShape
      <4> QED
        BY <4>1, <4>2, <4>3 DEF AllWritten
    <3>4. CASE SafeFiles(b)
      <4>1. PICK x : backup' = [backup EXCEPT ![b] = [d EXCEPT !.stage = "listed", !.listed = x]]
        BY <2>2, <3>4 DEF SafeFiles, Becomes
      <4>2. [d EXCEPT !.stage = "listed", !.listed = x].stage = "listed"
        BY DEF DirectoryShape
      <4> QED
        BY <4>1, <4>2 DEF AllWritten
    <3>5. ASSUME NEW entry \in Files \X {"temporary", "whole"}, AddFile(b, entry)
          PROVE  \E e : backup' = [backup EXCEPT ![b] = e] /\ AllWritten(e)
      <4>1. d.stage = "listed"
        BY <2>2, <3>5 DEF AddFile, At
      <4>2. PICK l, k : backup' = [backup EXCEPT ![b] = [d EXCEPT !.listed = l, !.tar = k]]
        BY <2>2, <3>5 DEF AddFile, Becomes
      <4>3. [d EXCEPT !.listed = l, !.tar = k].stage = "listed"
        BY <4>1 DEF DirectoryShape
      <4> QED
        BY <4>2, <4>3 DEF AllWritten
    <3>6. CASE Manifest(b)
      <4>1. PICK e : e = [d EXCEPT !.stage = "manifest", !.present = Parts]
        OBVIOUS
      <4>2. e.present = Parts /\ e.damaged = d.damaged /\ d.damaged \subseteq Parts
        BY <4>1 DEF DirectoryShape
      <4> QED
        BY <2>2, <3>6, <4>1, <4>2 DEF Manifest, Becomes, AllWritten
    <3>7. CASE Publish(b)
      <4>1. PICK e : e = [d EXCEPT !.stage = "complete"]
        OBVIOUS
      <4>2. e.present = d.present /\ e.damaged = d.damaged /\ d.stage = "manifest"
        BY <2>2, <3>7, <4>1 DEF DirectoryShape, Publish, At
      <4> QED
        BY <2>2, <2>3, <3>7, <4>1, <4>2 DEF Publish, Becomes, AllWritten
    <3>8. CASE BackupFails(b)
      <4>1. PICK e : e = [d EXCEPT !.stage = "removed", !.present = {}]
        OBVIOUS
      <4>2. e.stage = "removed"
        BY <4>1 DEF DirectoryShape
      <4> QED
        BY <2>2, <3>8, <4>1, <4>2 DEF BackupFails, Becomes, AllWritten
    <3>9. CASE BackupDies(b)
      <4>1. PICK e : e = [d EXCEPT !.stage = "incomplete"]
        OBVIOUS
      <4>2. e.stage = "incomplete"
        BY <4>1 DEF DirectoryShape
      <4> QED
        BY <2>2, <3>9, <4>1, <4>2 DEF BackupDies, Becomes, AllWritten
    <3>10. ASSUME NEW piece \in Parts, Damage(b, piece)
           PROVE  \E e : backup' = [backup EXCEPT ![b] = e] /\ AllWritten(e)
      <4>1. PICK e : e = [d EXCEPT !.present = @ \ {piece}, !.damaged = @ \cup {piece}]
        OBVIOUS
      <4>2. e.present = d.present \ {piece} /\ e.damaged = d.damaged \cup {piece}
            /\ e.stage = d.stage
        BY <4>1 DEF DirectoryShape
      <4>3. e.present \cup e.damaged = d.present \cup d.damaged
        BY <2>2, <3>10, <4>2 DEF Damage
      <4>4. AllWritten(e)
        BY <2>3, <4>2, <4>3 DEF AllWritten
      <4> QED
        BY <2>2, <3>10, <4>1, <4>4 DEF Damage, Becomes
    <3> QED
      BY <1>3, <3>1, <3>2, <3>3, <3>4, <3>5, <3>6, <3>7, <3>8, <3>9, <3>10
  <2>5. PICK e : backup' = [backup EXCEPT ![b] = e] /\ AllWritten(e)
    BY <2>4
  <2> QED
    BY <1>1, <2>1, <2>5, DirectoryWritten
<1> QED
  BY <1>2, <1>3 DEF Backup

\* The attempts count the restores that began; no other step of one writes them.
LEMMA AttemptsBounded ==
  ASSUME BackupInv, BackupBounds, Restore
  PROVE  restore'.attempts <= MaxRestores
<1>1. PICK r \in RestoreShape : r = restore
  BY DEF BackupInv, BackupShape
<1>2. r.attempts <= MaxRestores /\ r.attempts \in Nat
  BY <1>1 DEF BackupBounds, RestoreShape
<1>3. \A to : [r EXCEPT !.stage = to].attempts = r.attempts
  BY DEF RestoreShape
<1>4. [r EXCEPT !.stage = "failed", !.backup = 0].attempts = r.attempts
  BY DEF RestoreShape
<1>5. CASE \E b \in 1 .. MaxBackups, policy \in Policies : RestoreBegin(b, policy)
  <2>1. restore'.attempts = r.attempts + 1 /\ r.attempts < MaxRestores
    BY <1>1, <1>5 DEF RestoreBegin
  <2> QED
    BY <1>2, <2>1, OperationBoundsAssumption
<1>6. CASE CheckTarget \/ DropPublic \/ Initialize \/ Compare \/ RestoreKnowledge
  <2>1. Fails \/ \E to : restore' = [r EXCEPT !.stage = to]
    BY <1>1, <1>6 DEF CheckTarget, DropPublic, Initialize, Compare, RestoreKnowledge, Stage
  <2> QED
    BY <1>1, <1>2, <1>3, <1>4, <2>1 DEF Fails
<1>7. CASE Prepare
  <2>1. PICK to : restore' = [r EXCEPT !.stage = to]
    BY <1>1, <1>7 DEF Prepare
  <2> QED
    BY <1>2, <1>3, <2>1
<1>8. CASE PgRestore
  <2>1. restore' = [r EXCEPT !.stage = "restored"]
    BY <1>1, <1>8 DEF PgRestore
  <2> QED
    BY <1>2, <1>3, <2>1
<1>9. CASE \E f \in Files : Extract(f)
  BY <1>1, <1>2, <1>9 DEF Extract
<1>10. CASE RestoreFails
  BY <1>1, <1>2, <1>4, <1>10 DEF RestoreFails, Fails
<1> QED
  BY <1>5, <1>6, <1>7, <1>8, <1>9, <1>10 DEF Restore

LEMMA BackupBoundsKept ==
  ASSUME BackupInv, BackupBounds, Next
  PROVE  BackupBounds'
<1>1. CASE Application
  <2>1. sequence' = sequence \/ (sequence < MaxSequence /\ sequence' = sequence + 1)
    BY <1>1 DEF Application, WriteBegin, WriteEnd, WriteUndone, RowCommit, DrawKey
  <2>2. sequence \in Nat
    BY DEF BackupInv, BackupShape
  <2>3. sequence' <= MaxSequence
    BY <2>1, <2>2, OperationBoundsAssumption DEF BackupBounds
  <2> QED
    BY <1>1, <2>3 DEF Application, BackupBounds, AllWritten
<1>2. CASE Backup
  BY <1>2, BackupWritten
<1>3. CASE Restore
  BY <1>3, AttemptsBounded DEF Restore, BackupBounds, AllWritten, sourceVars
<1>4. CASE \E kind \in ForeignKinds : Intrude(kind)
  BY <1>4 DEF Intrude, BackupBounds, AllWritten, sourceVars
<1> QED
  BY <1>1, <1>2, <1>3, <1>4 DEF Next

LEMMA BackupBoundsBegin ==
  ASSUME Init
  PROVE  BackupBounds
BY OperationBoundsAssumption DEF Init, BackupBounds

LEMMA BackupBoundsStay ==
  ASSUME BackupBounds, UNCHANGED backupVars
  PROVE  BackupBounds'
BY DEF BackupBounds, AllWritten, backupVars

LEMMA BackupTyped ==
  ASSUME BackupInv, BackupBounds
  PROVE  TypeOK
<1>1. sequence \in 0 .. MaxSequence
  BY OperationBoundsAssumption DEF BackupInv, BackupShape, BackupBounds
<1>2. restore.attempts \in 0 .. MaxRestores
  <2>1. PICK n : n = restore.attempts
    OBVIOUS
  <2>2. n \in Nat
    BY <2>1 DEF BackupInv, BackupShape, RestoreShape
  <2>3. n \in 0 .. MaxRestores
    BY <2>1, <2>2, OperationBoundsAssumption DEF BackupBounds
  <2> QED
    BY <2>1, <2>3
<1>3. ASSUME NEW b \in DOMAIN backup
      PROVE  /\ backup[b].present \subseteq Parts /\ backup[b].damaged \subseteq Parts
             /\ backup[b].tar \subseteq Files
             /\ backup[b].stage = "complete" => backup[b].present \cup backup[b].damaged = Parts
  BY <1>3, DirectoryIs DEF DirectoryShape, BackupBounds, AllWritten
<1>4. /\ target.owner \in Roles /\ target.schemaOwner \in Roles
      /\ target.foreign \in ForeignKinds \cup {"none"}
  BY DEF BackupInv, BackupShape, TargetShape
<1> QED
  BY <1>1, <1>2, <1>3, <1>4 DEF TypeOK, BackupInv, BackupShape, BackupBounds

\* The other parts have no bounds but those of their invariants.
LEMMA SpendingTyped ==
  ASSUME BudgetInv
  PROVE  Spending!TypeOK
<1>1. ASSUME NEW s \in Steps
      PROVE  work[s].attempt \in 0 .. MaxAttempts
  <2>1. PICK w \in StepShape : w = work[s]
    BY DEF BudgetInv, BudgetShape
  <2>2. w.attempt \in 0 .. MaxAttempts
    BY DEF StepShape, RestingStep, BegunStep, HoldingStep, FailingStep
  <2> QED
    BY <2>1, <2>2
<1> QED
  BY <1>1 DEF Spending!TypeOK, BudgetInv, BudgetShape

LEMMA AnswerTyped == AnswerInv => Answered!TypeOK
<1>1. ASSUME AnswerInv
      PROVE  draft.matched \cup draft.missing \cup draft.unknown
               \subseteq Answered!Considered \cup {NoSkill}
  <2>1. stage \in Drafting \cup {"reconcile_evidence"} \cup Final
    BY <1>1 DEF AnswerInv, AnswerStages, Drafting, Final
  <2>2. CASE stage \in Drafting
    BY <1>1, <2>2, SkillsByKeyword DEF AnswerInv, Begun
  <2>3. CASE stage = "reconcile_evidence"
    BY <1>1, <2>3, SkillsByKeyword DEF AnswerInv, Looked
  <2>4. CASE stage \in Final
    BY <1>1, <2>4 DEF AnswerInv, Accounted
  <2> QED
    BY <2>1, <2>2, <2>3, <2>4
<1> QED
  BY <1>1, PTL DEF AnswerInv, Answered!TypeOK, Actions

LEMMA TelemetryTyped ==
  ASSUME TelemetryInv
  PROVE  Observed!TypeOK
<1>1. \A w \in Workflows :
        analysis[w].at \in {"idle", "saved", "answered", "metric", "recorded", "lost"}
  BY DEF TelemetryInv, TelemetryShape, AnalysisShape
<1> QED
  BY <1>1 DEF Observed!TypeOK, TelemetryInv, TelemetryShape

LEMMA GateTyped ==
  ASSUME GateInv
  PROVE  Gate!TypeOK
<1>1. ASSUME NEW i \in DOMAIN runs
      PROVE  runs[i].defects \subseteq AllDefects
  <2>1. runs[i] \in RunSet
    BY DEF GateInv, GateShape
  <2>2. PICK d \in SUBSET AllDefects, persistent \in BOOLEAN : runs[i] = MarkedRun(d, persistent)
    BY <2>1, RunIs
  <2>3. PICK run : run = runs[i]
    OBVIOUS
  <2>4. run.defects = d
    BY <2>2, <2>3 DEF MarkedRun, Gate!Run
  <2> QED
    BY <2>3, <2>4
<1>2. evidence.verdict \in {"none", "PASS", "PASS_WITH_WARNING", "FAIL", "HARD_FAIL"}
  BY DEF GateInv, GateShape, EvidenceShape, Verdicts
<1> QED
  BY <1>1, <1>2 DEF Gate!TypeOK, Gate!RunCount, GateInv, GateShape, Limited, Paths, AllDefects

\* A bound of one part, kept by its steps, is kept by the others too.
LEMMA AccessBounded ==
  OperationsSpec => [](part \in {"sessions", "lockouts"} => AccessInv /\ AccessBounds)
<1> DEFINE Inv == part \in {"sessions", "lockouts"} => AccessInv
           Bounds == part \in {"sessions", "lockouts"} => AccessBounds
<1>1. OperationsInit => Bounds
  BY AccessBoundsBegin DEF OperationsInit
<1>2. Inv /\ Bounds /\ [OperationsNext]_operationsVars => Bounds'
  <2> SUFFICES ASSUME Inv, Bounds, [OperationsNext]_operationsVars
               PROVE  Bounds'
    OBVIOUS
  <2>1. CASE AccessStep
    BY <2>1, AccessBoundsKept DEF AccessStep
  <2>2. CASE UNCHANGED operationsVars
    BY <2>2, AccessBoundsStay DEF operationsVars
  <2>3. CASE BackupStep \/ KnowledgeStep \/ TelemetryStep \/ AnswerStep \/ SpendingStep
             \/ DescriptionStep \/ GateStep
    BY <2>3, AccessBoundsStay DEF BackupStep, KnowledgeStep, TelemetryStep, AnswerStep,
       SpendingStep, DescriptionStep, GateStep
  <2> QED
    BY <2>1, <2>2, <2>3 DEF OperationsNext
<1>3. Inv /\ Bounds => (part \in {"sessions", "lockouts"} => AccessInv /\ AccessBounds)
  OBVIOUS
<1> QED
  BY <1>1, <1>2, <1>3, AccessInvariant, PTL DEF OperationsSpec

LEMMA DescriptionsBounded ==
  OperationsSpec => [](part = "descriptions" => DescriptionsInv /\ DescriptionBounds)
<1> DEFINE Inv == part = "descriptions" => DescriptionsInv
           Bounds == part = "descriptions" => DescriptionBounds
<1>1. OperationsInit => Bounds
  BY DescriptionBoundsBegin DEF OperationsInit
<1>2. Inv /\ Bounds /\ [OperationsNext]_operationsVars => Bounds'
  <2> SUFFICES ASSUME Inv, Bounds, [OperationsNext]_operationsVars
               PROVE  Bounds'
    OBVIOUS
  <2>1. CASE DescriptionStep
    BY <2>1, DescriptionBoundsKept DEF DescriptionStep
  <2>2. CASE UNCHANGED operationsVars
    BY <2>2, DescriptionBoundsStay DEF operationsVars
  <2>3. CASE BackupStep \/ KnowledgeStep \/ TelemetryStep \/ AnswerStep \/ SpendingStep
             \/ AccessStep \/ GateStep
    BY <2>3, DescriptionBoundsStay DEF BackupStep, KnowledgeStep, TelemetryStep, AnswerStep,
       SpendingStep, AccessStep, GateStep
  <2> QED
    BY <2>1, <2>2, <2>3 DEF OperationsNext
<1>3. Inv /\ Bounds => (part = "descriptions" => DescriptionsInv /\ DescriptionBounds)
  OBVIOUS
<1> QED
  BY <1>1, <1>2, <1>3, DescriptionsInvariant, PTL DEF OperationsSpec

LEMMA KnowledgeBounded ==
  OperationsSpec => [](part = "knowledge" => KnowledgeInv /\ KnowledgeBounds)
<1> DEFINE Inv == part = "knowledge" => KnowledgeInv
           Bounds == part = "knowledge" => KnowledgeBounds
<1>1. OperationsInit => Bounds
  BY KnowledgeBoundsBegin DEF OperationsInit
<1>2. Inv /\ Bounds /\ [OperationsNext]_operationsVars => Bounds'
  <2> SUFFICES ASSUME Inv, Bounds, [OperationsNext]_operationsVars
               PROVE  Bounds'
    OBVIOUS
  <2>1. CASE KnowledgeStep
    BY <2>1, KnowledgeBoundsKept DEF KnowledgeStep
  <2>2. CASE UNCHANGED operationsVars
    BY <2>2, KnowledgeBoundsStay DEF operationsVars
  <2>3. CASE BackupStep \/ DescriptionStep \/ TelemetryStep \/ AnswerStep \/ SpendingStep
             \/ AccessStep \/ GateStep
    BY <2>3, KnowledgeBoundsStay DEF BackupStep, DescriptionStep, TelemetryStep, AnswerStep,
       SpendingStep, AccessStep, GateStep
  <2> QED
    BY <2>1, <2>2, <2>3 DEF OperationsNext
<1>3. Inv /\ Bounds => (part = "knowledge" => KnowledgeInv /\ KnowledgeBounds)
  OBVIOUS
<1> QED
  BY <1>1, <1>2, <1>3, KnowledgeInvariant, PTL DEF OperationsSpec

LEMMA BackupBounded == OperationsSpec => [](BackupInv /\ BackupBounds)
<1>1. OperationsInit => BackupBounds
  BY BackupBoundsBegin DEF OperationsInit
<1>2. BackupInv /\ BackupBounds /\ [OperationsNext]_operationsVars => BackupBounds'
  <2> SUFFICES ASSUME BackupInv, BackupBounds, [OperationsNext]_operationsVars
               PROVE  BackupBounds'
    OBVIOUS
  <2>1. CASE BackupStep
    BY <2>1, BackupBoundsKept DEF BackupStep
  <2>2. CASE UNCHANGED operationsVars
    BY <2>2, BackupBoundsStay DEF operationsVars
  <2>3. CASE DescriptionStep \/ KnowledgeStep \/ TelemetryStep \/ AnswerStep \/ SpendingStep
             \/ AccessStep \/ GateStep
    BY <2>3, BackupBoundsStay DEF DescriptionStep, KnowledgeStep, TelemetryStep, AnswerStep,
       SpendingStep, AccessStep, GateStep
  <2> QED
    BY <2>1, <2>2, <2>3 DEF OperationsNext
<1> QED
  BY <1>1, <1>2, BackupInvariant, PTL DEF OperationsSpec

\* Whatever the requests, the crashes and the damage, every row, file and message of these
\* parts is one their tables can hold, within the bounds of the model.
THEOREM OperationsTypeCorrect == OperationsSpec => []OperationsTypeOK
<1>1. BackupInv /\ BackupBounds => TypeOK
  BY BackupTyped
<1>2. KnowledgeInv /\ KnowledgeBounds => Knowledge!TypeOK
  BY KnowledgeTyped
<1>3. TelemetryInv => Observed!TypeOK
  BY TelemetryTyped
<1>4. AccessInv /\ AccessBounds => Access!TypeOK
  BY AccessTyped
<1>5. BudgetInv => Spending!TypeOK
  BY SpendingTyped
<1>6. DescriptionsInv /\ DescriptionBounds => Descriptions!TypeOK
  BY DescriptionsTyped
<1>7. GateInv => Gate!TypeOK
  BY GateTyped
<1> QED
  BY <1>1, <1>2, <1>3, <1>4, <1>5, <1>6, <1>7, AnswerTyped, BackupBounded, KnowledgeBounded,
     TelemetryInvariant, AnswerInvariant, AccessBounded, BudgetInvariant, DescriptionsBounded,
     GateInvariant, PTL DEF OperationsTypeOK
=============================================================================
