----------------------------- MODULE ReleaseGate ------------------------------
(***************************************************************************)
(* The Analyze gate of a release (ops/release_gate): a collector sends     *)
(* five requests to a deployment, gathers what the client, the containers' *)
(* logs and the API say of each, and keeps it in a file; the evaluator     *)
(* decides on it, at the end of the collection or later from the file.     *)
(*                                                                         *)
(* What is wrong with a request, or with what can be observed of it, is    *)
(* its set of defects.  The collector sees their traces, never the         *)
(* defects; they are in the evidence for the properties alone.  Request    *)
(* ids are drawn at random, and differ.                                    *)
(***************************************************************************)
EXTENDS Naturals, Sequences, FiniteSets, FiniteSetsExt

CONSTANTS
  MaxDefects,  \* bound: defects in one collection
  Missing      \* an observation that was not made

VARIABLES
  path,     \* acceptance_path
  attested, \* whether the operator's file has every hard gate as true
  stage,    \* where the collector is
  probes,   \* direct_path_probes
  runs,     \* the runs of the evidence
  file,     \* what the output file holds
  exit      \* the collector's exit status

gateVars == <<path, attested, stage, probes, runs, file, exit>>

RunCount == 5
Direct == path = "production-actual-public-direct"

-----------------------------------------------------------------------------
(* What can be wrong *)

Layers == {"edge", "frontend", "backend", "java"}
\* The log lines that are matched with a request, and the container they are in
Sources == [edge |-> "edge", frontend |-> "frontend",
            completion |-> "backend", normalization |-> "backend"]

\* A defect is of a kind, and of the request itself, of a container or of a source.
Has(d, kind) == <<kind, "request">> \in d

AnswerDefects ==
  {"no_answer", "cut", "error", "incomplete", "wrong", "no_rag", "other_id", "unsaved",
   "unmeasured", "fallback", "errors"} \X {"request"}
LogDefects ==
  ({"unread"} \X Layers) \cup ({"unlogged", "repeated"} \X DOMAIN Sources)
  \cup ({"differs"} \X {"edge", "frontend", "completion"})
\* A socket that is not the target's, or a route that is not the interface's
Proxied == <<"proxied", "request">>
Defects == AnswerDefects \cup LogDefects \cup (IF Direct THEN {Proxied} ELSE {})

ProbeDefects == {"proxied", "no_tls", "error", "empty"} \X {"request"}

-----------------------------------------------------------------------------
(* What the collector sees of a request *)

\* curl's http_code
Status(d) == IF Has(d, "no_answer") THEN Missing ELSE IF Has(d, "error") THEN 500 ELSE 200

TransportError(d) ==
  IF Has(d, "proxied") THEN "proxy_path_detected"
  ELSE IF Has(d, "no_answer") THEN "empty_reply"
  ELSE IF Has(d, "cut") THEN "connection_failure" ELSE "none"

\* The body is the JSON of an analysis
Parsed(d) == ~Has(d, "no_answer") /\ ~Has(d, "cut") /\ ~Has(d, "error")
\* response_is_complete, output_is_correct
Complete(d) == Parsed(d) /\ ~Has(d, "incomplete")
Correct(d) == Complete(d) /\ ~Has(d, "wrong") /\ ~Has(d, "no_rag")

\* docker_logs, json_lines and matching: the lines of a source about the request
Lines(s, d) ==
  IF <<"unread", Sources[s]>> \in d \/ <<"unlogged", s>> \in d THEN 0
  ELSE IF <<"repeated", s>> \in d THEN 2 ELSE 1

\* Mutant: of several lines one is taken.
SeenAtAll(s, d) == Lines(s, d) > 0

\* Only a line that is the only one counts.
Seen(s, d) == Lines(s, d) = 1

\* The status a source logged: the answer's, if the answer was what it sent; an answer
\* that was lost on its way is logged as sent.
Logged(s, d) ==
  IF ~Seen(s, d) THEN Missing
  ELSE IF <<"differs", s>> \in d THEN 502
  ELSE IF Has(d, "error") THEN 500 ELSE 200

Run(d) ==
  [ status     |-> Status(d),
    transport  |-> TransportError(d),
    direct     |-> ~Has(d, "proxied"),
    complete   |-> Complete(d),
    ownId      |-> ~Has(d, "no_answer") /\ ~Has(d, "other_id"),
    correct    |-> Correct(d) /\ ~Has(d, "other_id"),
    logged     |-> [s \in {"edge", "frontend", "completion"} |-> Logged(s, d)],
    observed   |-> Seen("normalization", d),
    fallback   |-> Seen("normalization", d) /\ Has(d, "fallback"),
    rag        |-> Parsed(d) /\ ~Has(d, "no_rag"),
    history    |-> Parsed(d) /\ ~Has(d, "unsaved"),
    metrics    |-> Parsed(d) /\ ~Has(d, "unmeasured"),
    scanned    |-> {l \in Layers : <<"unread", l>> \notin d},
    errors     |-> Has(d, "errors"),
    persistent |-> FALSE,
    defects    |-> d ]

\* curl_direct_probe
Probe(d) ==
  [ direct |-> ~Has(d, "proxied"), tls |-> ~Has(d, "no_tls"), ok |-> ~Has(d, "error"),
    nonempty |-> ~Has(d, "empty"), defects |-> d ]
Verified(probe) == probe.direct /\ probe.tls /\ probe.ok /\ probe.nonempty

-----------------------------------------------------------------------------
(* analyze_gate.evaluate, of the evidence e *)

Is2xx(status) == status = 200

ProbesHold(e) ==
  e.path = "production-actual-public-direct" =>
    Len(e.probes) = 2 /\ \A i \in 1..2 : Verified(e.probes[i])

\* No hard failure of one run
RunHolds(e, run) ==
  /\ e.path = "production-actual-public-direct" => run.direct
  /\ run.transport = "none" /\ Is2xx(run.status)
  /\ run.complete /\ run.ownId
  /\ \A s \in DOMAIN run.logged : run.logged[s] = run.status
  /\ run.history /\ run.rag /\ run.metrics /\ run.observed
  /\ run.scanned = Layers
  /\ ~run.persistent

HardFailure(e) ==
  \/ ~ProbesHold(e) \/ ~e.attested \/ Len(e.runs) # RunCount
  \/ \E i \in DOMAIN e.runs : ~RunHolds(e, e.runs[i])

Fallbacks(e) == {i \in DOMAIN e.runs : e.runs[i].fallback}

\* The statistical gate
Failure(e) ==
  \/ \E i \in DOMAIN e.runs : ~e.runs[i].correct
  \/ Cardinality(Fallbacks(e)) >= 2
  \/ \E i \in Fallbacks(e) : i + 1 \in Fallbacks(e)

Verdict(e) ==
  IF HardFailure(e) THEN "HARD_FAIL"
  ELSE IF Failure(e) THEN "FAIL"
  ELSE IF Fallbacks(e) # {} THEN "PASS_WITH_WARNING" ELSE "PASS"

ReleaseAllowed(e) == Verdict(e) \in {"PASS", "PASS_WITH_WARNING"}

-----------------------------------------------------------------------------
(* The collector *)

Evidence(gates, checked, collected, judged, failed) ==
  [ path |-> path, attested |-> gates, probes |-> checked, runs |-> collected,
    verdict |-> judged, failed |-> failed ]

NothingWritten == [path |-> "none", attested |-> FALSE, probes |-> << >>, runs |-> << >>,
           verdict |-> "none", failed |-> FALSE]
\* The file an earlier collection left where this one writes
Earlier == [path |-> "candidate-public-equivalent", attested |-> TRUE, probes |-> << >>,
            runs |-> [i \in 1..RunCount |-> Run({})], verdict |-> "PASS", failed |-> FALSE]

TypeOK ==
  /\ path \in {"candidate-public-equivalent", "production-actual-public-direct"}
  /\ attested \in BOOLEAN /\ exit \in {0, 1, 2, Missing}
  /\ stage \in {"probing", "setting_up", "collecting", "marking", "ended"}
  /\ Len(probes) <= 2 /\ Len(runs) <= RunCount
  /\ file.verdict \in {"none", "PASS", "PASS_WITH_WARNING", "FAIL", "HARD_FAIL"}
  /\ \A i \in DOMAIN runs : runs[i].defects \subseteq AnswerDefects \cup LogDefects \cup {Proxied}

Init ==
  /\ path \in {"candidate-public-equivalent", "production-actual-public-direct"}
  /\ attested \in BOOLEAN
  /\ stage = IF Direct THEN "probing" ELSE "setting_up"
  /\ probes = << >> /\ runs = << >>
  /\ file \in {NothingWritten, Earlier}
  /\ exit = Missing

DefectsSoFar == MapThenSumSet(LAMBDA i : Cardinality(runs[i].defects), DOMAIN runs)
                + MapThenSumSet(LAMBDA i : Cardinality(probes[i].defects), DOMAIN probes)
\* The defects one more request, or probe, may have: two at most
Few(defects) ==
  LET left == MaxDefects - DefectsSoFar IN
  {{}} \cup (IF left > 0 THEN {{x} : x \in defects} ELSE {})
       \cup (IF left > 1 THEN {{x, y} : x, y \in defects} ELSE {})

\* main: an exception ends the collection; its code is added to what the file holds.
Raise ==
  /\ stage # "ended"
  /\ file' = [file EXCEPT !.failed = TRUE]
  /\ exit' = 2 /\ stage' = "ended"
  /\ UNCHANGED <<path, attested, probes, runs>>

\* The process is killed, and writes nothing more.
Killed ==
  /\ stage # "ended" /\ stage' = "ended"
  /\ UNCHANGED <<path, attested, probes, runs, file, exit>>

\* A probe is written to the file before it is looked at; one that is not verified
\* is the exception's.
ProbeDirect ==
  /\ stage = "probing"
  /\ \E d \in Few(ProbeDefects) :
       /\ probes' = Append(probes, Probe(d))
       /\ IF Verified(Probe(d))
          THEN /\ file' = Evidence(attested, probes', << >>, "none", FALSE)
               /\ stage' = IF Len(probes') = 2 THEN "setting_up" ELSE "probing"
               /\ UNCHANGED exit
          ELSE /\ file' = Evidence(attested, probes', << >>, "none", TRUE)
               /\ stage' = "ended" /\ exit' = 2
  /\ UNCHANGED <<path, attested, runs>>

\* Login, the resume and the rebuild of the knowledge; the evidence of this
\* collection begins here.
SetUp ==
  /\ stage = "setting_up" /\ stage' = "collecting"
  /\ file' = Evidence(attested, probes, << >>, "none", FALSE)
  /\ UNCHANGED <<path, attested, probes, runs, exit>>

\* A public failure ends the collection.
Stops(run) == run.transport # "none" \/ ~Is2xx(run.status) \/ ~run.complete

Collect ==
  /\ stage = "collecting"
  /\ \E d \in Few(Defects) :
       /\ runs' = Append(runs, Run(d))
       /\ stage' = IF Stops(Run(d)) \/ Len(runs') = RunCount THEN "marking" ELSE "collecting"
  /\ file' = Evidence(attested, probes, runs', "none", FALSE)
  /\ UNCHANGED <<path, attested, probes, exit>>

\* Errors in the logs of two runs are persistent in both; then the gate is evaluated.
Judge ==
  LET erring == {i \in DOMAIN runs : runs[i].errors}
      marked == [i \in DOMAIN runs |->
                   [runs[i] EXCEPT !.persistent = Cardinality(erring) >= 2 /\ i \in erring]]
      verdict == Verdict(Evidence(attested, probes, marked, "none", FALSE))
  IN
  /\ stage = "marking" /\ stage' = "ended"
  /\ runs' = marked
  /\ file' = Evidence(attested, probes, marked, verdict, FALSE)
  /\ exit' = IF verdict = "HARD_FAIL" THEN 2 ELSE IF verdict = "FAIL" THEN 1 ELSE 0
  /\ UNCHANGED <<path, attested, probes>>

Next == ProbeDirect \/ SetUp \/ Collect \/ Judge \/ Raise \/ Killed

Spec == Init /\ [][Next]_gateVars

-----------------------------------------------------------------------------
\* What a release needs, of the requests themselves and of what was observed of them
Earned(e) ==
  /\ e.attested /\ Len(e.runs) = RunCount
  /\ \A i \in DOMAIN e.runs : e.runs[i].defects \subseteq {"fallback", "errors"} \X {"request"}
  /\ Cardinality({i \in DOMAIN e.runs : Has(e.runs[i].defects, "fallback")}) <= 1
  /\ e.path = "production-actual-public-direct" =>
       Len(e.probes) = 2 /\ \A i \in 1..2 : e.probes[i].defects = {}

\* No release without its evidence, whatever was not answered, not observed or observed
\* twice, and wherever the collector failed or was killed: exit 0, and every file a later
\* evaluation would pass, unless the file itself says that its collection failed, stands
\* for five requests with nothing wrong, no observation missing and one fallback at most.
\* Errors in two runs are seen unless the collector was killed before it marked them.
ReleaseIsEarned ==
  /\ exit = 0 => Earned(file) /\ file.path = path /\ file.verdict # "none" /\ ~file.failed
  /\ ReleaseAllowed(file) /\ ~file.failed =>
       /\ Earned(file)
       /\ file.verdict # "none" =>
            Cardinality({i \in DOMAIN file.runs : Has(file.runs[i].defects, "errors")}) <= 1
=============================================================================
