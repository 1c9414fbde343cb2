---------------------------- MODULE AnalyzeAttempt ----------------------------
(***************************************************************************)
(* One request of POST /api/analyze from its arrival to its answer: the    *)
(* steps of the workflow, the time the provider phase may take, the calls  *)
(* it pays for, the ledger row of its Idempotency-Key and what the         *)
(* middleware does when the handler fails (backend/legacy_application.py,  *)
(* provider_deadline.py, agent_workflow.py and backend/app/analyze).       *)
(*                                                                         *)
(* Several requests with one key are the subject of AnalyzeIdempotency,    *)
(* which this module implements for the request it follows.                *)
(***************************************************************************)
EXTENDS Integers, FiniteSets, Sequences

CONSTANTS
  SafetyDeadline,  \* ANALYZE_TOTAL_SAFETY_DEADLINE_SECONDS, from the arrival
  PhaseLimit,      \* provider_overall_deadline_seconds
  Reserve,         \* PROVIDER_FALLBACK_FINALIZATION_RESERVE_SECONDS
  RetryReserve, RepairReserve, MinBudget,
  CallLimit,       \* request_timeout_seconds
  Backoff,         \* provider_retry_backoff_seconds
  Overrun,         \* how long a cancelled transport may outlive the deadline
  LocalWork,       \* what the local work around and after the calls may take
  Horizon          \* bound on the clock

ASSUME TimeAssumption ==
  /\ {SafetyDeadline, PhaseLimit, Reserve, RetryReserve, RepairReserve, MinBudget,
      CallLimit, Backoff, Overrun, LocalWork, Horizon} \subseteq Nat
  /\ MinBudget > 0 /\ LocalWork + Overrun <= Reserve /\ Reserve <= SafetyDeadline

VARIABLES
  req,      \* what was asked for, and how the provider is configured
  pc,       \* where the handler is: a step of the workflow, or between two
  steps,    \* the workflow's steps
  warned,   \* has_warnings
  now,      \* monotonic clock
  phase,    \* when the provider phase began; -1 before
  worked,   \* time spent on local work since then
  wake,     \* end of a back-off
  calls,    \* provider calls that were made
  result,   \* analysis_status
  row,      \* the ledger row of the key
  history,  \* History rows written
  observed, \* monitoring rows written
  answer    \* what the client was told

vars == <<req, pc, steps, warned, now, phase, worked, wake, calls, result, row, history,
          observed, answer>>
clock   == <<now, phase, worked, wake>>
outcome == <<calls, result>>
stored  == <<row, history>>
told    == <<observed, answer>>

-----------------------------------------------------------------------------

StepOrder == << "validate_input", "parse_resume", "acquire_job_description",
  "scan_untrusted_input", "retrieve_project_evidence", "scan_project_evidence",
  "build_safe_prompt", "run_llm_analysis", "scan_llm_output", "parse_model_json",
  "validate_structured_output", "validate_evidence_references", "reconcile_evidence",
  "recommend_next_action", "final_output_scan", "save_application", "finalize_result" >>

Steps == {StepOrder[i] : i \in DOMAIN StepOrder}
Position(k) == CHOOSE i \in DOMAIN StepOrder : StepOrder[i] = k
After(k) == {StepOrder[i] : i \in (Position(k) + 1)..Len(StepOrder)}

\* save: save_to_history; rag: the resolved rag_mode is "project"
Request == [keyed: BOOLEAN, save: BOOLEAN, rag: BOOLEAN,
            provider: {"real", "mock", "unconfigured"}]

Sources == {"local", "java", "fallback_local"}
Row == [ status: {"none", "processing", "completed", "failed", "indeterminate"},
         started: BOOLEAN, bound: Sources \cup {"none"} ]

Between == {"claim", "normalize", "start", "attempt", "calling", "backoff", "repair",
            "repair_call", "repairing", "deadline_check", "settle", "respond", "error",
            "answered", "dead"}

\* The handler is at one of its steps or at one of the points between them.
TypeOK ==
  /\ req \in Request
  /\ pc \in Steps \cup Between
  /\ steps \in [Steps -> {"open", "completed", "skipped", "failed"}]
  /\ warned \in BOOLEAN
  /\ now \in 0..Horizon /\ phase \in -1..Horizon
  /\ worked \in 0..LocalWork /\ wake \in 0..(Horizon + Backoff)
  /\ calls \subseteq [kind: {"primary", "retry", "repair"}, at: 0..Horizon]
  /\ result \in {"none", "complete", "repaired", "partial", "fallback"}
  /\ row \in Row /\ history \in 0..1 /\ observed \in 0..1
  /\ answer \in {"none", "ok", "replay", "error"}

Init ==
  /\ req \in Request
  /\ pc = "validate_input" /\ steps = [k \in Steps |-> "open"] /\ warned = FALSE
  /\ now = 0 /\ phase = -1 /\ worked = 0 /\ wake = 0
  /\ calls = {} /\ result = "none"
  /\ row = [status |-> "none", started |-> FALSE, bound |-> "none"]
  /\ history = 0 /\ observed = 0 /\ answer = "none"

-----------------------------------------------------------------------------
(* Time: ProviderDeadline *)

Least(a, b) == IF a <= b THEN a ELSE b

\* Mutant: the request's own safety deadline is forgotten.
PhaseDeadlineOnly == phase + PhaseLimit

\* ProviderDeadline.for_phase
Deadline == Least(phase + PhaseLimit, SafetyDeadline - Reserve)

Expired == now >= Deadline

ContinuationReserve(kind) ==
  CASE kind = "retry" -> RetryReserve [] kind = "repair" -> RepairReserve [] OTHER -> 0

\* call_timeout: the reserve is kept a second time, besides the one in the deadline.
Budget(kind) == Least(CallLimit, Deadline - now - Reserve - ContinuationReserve(kind))
Covered(kind) == Budget(kind) >= MinBudget

Waiting == pc \in {"calling", "repairing"}
Gone == pc \in {"answered", "dead"}

\* A call lasts until the transport is cut at the absolute deadline; a back-off has its
\* end; the local work of the provider phase and behind it fits into its share of the
\* reserve.  Nothing bounds the time that reading the input may take.
TimePasses ==
  /\ ~Gone /\ now < Horizon
  /\ now' = now + 1
  /\ CASE Waiting -> now < Deadline + Overrun /\ UNCHANGED worked
       [] pc = "backoff" -> now < wake /\ UNCHANGED worked
       [] phase = -1 -> UNCHANGED worked
       [] OTHER -> worked < LocalWork /\ worked' = worked + 1
  /\ UNCHANGED <<req, pc, steps, warned, phase, wake, outcome, stored, told>>

-----------------------------------------------------------------------------
(* AgentWorkflow, and the ways a step ends *)

Finish(k, status) == steps' = [steps EXCEPT ![k] = status]

MayWarn == warned' \in {warned, TRUE}

\* A step that only reads and prepares: it completes, perhaps with a warning.
Completes(k, next) ==
  /\ pc = k /\ pc' = next /\ Finish(k, "completed") /\ MayWarn
  /\ UNCHANGED <<req, clock, outcome, stored, told>>

Skips(k, next) ==
  /\ pc = k /\ pc' = next /\ Finish(k, "skipped")
  /\ UNCHANGED <<req, warned, clock, outcome, stored, told>>

\* persist_analysis_metrics_best_effort: an exception while the row is written is logged
\* and swallowed, and the row is missing.
Observes == observed' \in {observed, observed + 1}

\* fail_analysis_and_raise
StepFails(k) ==
  /\ pc' = "error" /\ Finish(k, "failed") /\ Observes
  /\ UNCHANGED <<req, warned, clock, outcome, stored, answer>>

\* skip_workflow_steps_after
SkippedAfter(k) == [s \in Steps |-> IF s \in After(k) THEN "skipped" ELSE steps[s]]

\* fail_step, skip_steps_after and raise_security_blocked
Blocked(k) ==
  /\ pc' = "error" /\ steps' = [SkippedAfter(k) EXCEPT ![k] = "failed"]
  /\ Observes
  /\ UNCHANGED <<req, warned, clock, outcome, stored, answer>>

\* Mutant: an attempt that fails is closed as failed whatever it has done.
AnswerCloses ==
  /\ pc = "error" /\ pc' = "answered" /\ answer' = "error"
  /\ row' = IF row.status = "processing" THEN [row EXCEPT !.status = "failed"] ELSE row
  /\ UNCHANGED <<req, steps, warned, clock, outcome, history, observed>>

\* AnalyzeIdempotencyFailureMiddleware around the handler's exception; fail_unfinalized
\* gives up silently when the database does, and is not reached at all by an exception
\* that is no HTTPException.
AnswerError ==
  /\ pc = "error" /\ pc' = "answered" /\ answer' = "error"
  /\ \/ row.status = "processing"
        /\ row' = [row EXCEPT !.status = IF row.started THEN "indeterminate" ELSE "failed"]
     \/ UNCHANGED row
  /\ UNCHANGED <<req, steps, warned, clock, outcome, history, observed>>

\* An IdempotencyError of any operation of the ledger becomes an answer at once
\* (idempotency_http_exception): the running step stays open, nothing is observed.
LedgerRefuses ==
  /\ req.keyed
  /\ pc \in {"validate_input", "claim", "normalize", "start", "repair", "settle"}
  /\ pc' = "error"
  /\ UNCHANGED <<req, steps, warned, clock, outcome, stored, told>>

\* The process ends and its memory with it; what the database holds stays.
Crash ==
  /\ ~Gone /\ pc' = "dead"
  /\ steps' = [k \in Steps |-> "open"] /\ warned' = FALSE /\ result' = "none"
  /\ worked' = 0 /\ wake' = 0
  /\ UNCHANGED <<req, now, phase, calls, stored, told>>

-----------------------------------------------------------------------------
(* Reading the input *)

\* _validate_resume_source, _validate_job_source: exactly one of each
ValidSources(upload, version, text, url) == upload # version /\ text # url

ValidateInput ==
  /\ pc = "validate_input"
  /\ \E upload, version, text, url \in BOOLEAN :
       IF ValidSources(upload, version, text, url)
         THEN Completes("validate_input", "parse_resume")
         ELSE StepFails("validate_input")

\* _extract_uploaded_resume; the name has been checked, the parser may still fail.
ExtractsText(bytes, parses, text) == bytes = "some" /\ parses /\ text

\* _load_stored_resume: of a signed-in user, under a valid id, and with content
LoadsVersion(user, version) == user /\ version = "content"

ParseResume ==
  /\ pc = "parse_resume"
  /\ \/ \E bytes \in {"none", "some", "too_many"}, parses, text \in BOOLEAN :
          IF ExtractsText(bytes, parses, text)
            THEN Completes("parse_resume", "acquire_job_description")
            ELSE StepFails("parse_resume")
     \/ \E user \in BOOLEAN, version \in {"invalid", "missing", "empty", "content"} :
          IF LoadsVersion(user, version)
            THEN Completes("parse_resume", "acquire_job_description")
            ELSE StepFails("parse_resume")

\* The text that was pasted, or the page behind the URL
AcquireJobDescription ==
  /\ pc = "acquire_job_description"
  /\ \/ Completes("acquire_job_description",
                  IF req.keyed THEN "claim" ELSE "scan_untrusted_input")
     \/ StepFails("acquire_job_description")

\* AnalyzeIdempotencyService.claim: the insert wins, or a completed row is replayed.
ClaimWon ==
  /\ pc = "claim" /\ pc' = "scan_untrusted_input"
  /\ row' = [row EXCEPT !.status = "processing"]
  /\ UNCHANGED <<req, steps, warned, clock, outcome, history, told>>

Replays ==
  /\ pc = "claim" /\ pc' = "answered" /\ answer' = "replay"
  /\ UNCHANGED <<req, steps, warned, clock, outcome, stored, observed>>

ScanUntrustedInput ==
  /\ pc = "scan_untrusted_input"
  /\ \/ Completes("scan_untrusted_input", "normalize")
     \/ Blocked("scan_untrusted_input") \/ StepFails("scan_untrusted_input")

-----------------------------------------------------------------------------
(* Normalization and evidence *)

\* validate_normalization_response, in the order in which it looks
ResponseFaults == {"invalid_schema", "hash_mismatch", "policy_mismatch", "dictionary_mismatch"}

\* JavaNormalizationClient.normalize
ClientOutcomes ==
  {"success", "request_id_mismatch", "client_error", "unauthorized", "server_error",
   "oversized_response", "invalid_json", "total_timeout", "connect_timeout",
   "response_timeout", "unavailable"} \cup ResponseFaults

\* observe_shadow_normalization: sampled or not, what it sees changes nothing.
ShadowSource == "local"

\* select_effective_normalization: one attempt, and a second scan of what came back
EffectiveSource(mode, outcome1, scan) ==
  CASE mode = "local" -> "local"
    [] mode = "shadow" -> ShadowSource
    [] mode = "java" -> IF outcome1 = "success" /\ scan = "accepted" THEN "java"
                                                                     ELSE "fallback_local"

\* The choice, and bind_execution for a keyed request
Normalize ==
  /\ pc = "normalize" /\ pc' = "retrieve_project_evidence" /\ MayWarn
  /\ \E mode \in {"local", "shadow", "java"}, o \in ClientOutcomes,
        scan \in {"accepted", "rejected", "error"} :
       row' = IF req.keyed THEN [row EXCEPT !.bound = EffectiveSource(mode, o, scan)] ELSE row
  /\ UNCHANGED <<req, steps, clock, outcome, history, told>>

\* The step it belongs to has completed before.
NormalizeFails == pc = "normalize" /\ StepFails("scan_untrusted_input")

RetrieveEvidence ==
  /\ pc = "retrieve_project_evidence"
  /\ IF req.rag
       THEN \/ Completes("retrieve_project_evidence", "scan_project_evidence")
            \/ StepFails("retrieve_project_evidence")
       ELSE Skips("retrieve_project_evidence", "scan_project_evidence")

ScanEvidence ==
  /\ pc = "scan_project_evidence"
  /\ IF req.rag
       THEN \/ Completes("scan_project_evidence", "build_safe_prompt")
            \/ Blocked("scan_project_evidence") \/ StepFails("scan_project_evidence")
       ELSE Skips("scan_project_evidence", "build_safe_prompt")

BuildSafePrompt ==
  /\ pc = "build_safe_prompt"
  /\ \/ Completes("build_safe_prompt", "run_llm_analysis")
     \/ StepFails("build_safe_prompt")

-----------------------------------------------------------------------------
(* The provider phase *)

\* _select_provider_fallback, and the steps the handler closes around it
SelectFallback ==
  /\ pc' = "validate_evidence_references" /\ result' = "fallback" /\ warned' = TRUE
  /\ steps' = [k \in Steps |->
       IF k \in {"run_llm_analysis", "parse_model_json", "validate_structured_output"}
         THEN "completed"
         ELSE IF k = "scan_llm_output" /\ steps[k] = "open" THEN "skipped" ELSE steps[k]]
  /\ UNCHANGED <<req, now, worked, wake, calls, stored, told>>

\* The phase begins; nothing is called for a client that is gone.
StartPhase ==
  /\ pc = "run_llm_analysis" /\ phase' = now
  /\ \/ SelectFallback
     \/ /\ pc' = "start"
        /\ UNCHANGED <<req, steps, warned, now, worked, wake, outcome, stored, told>>

\* Mutant: only the repair is marked.
StartUnmarked ==
  /\ pc \in {"start", "repair"}
  /\ pc' = IF pc = "start" THEN "attempt" ELSE "repair_call"
  /\ row' = IF req.keyed /\ pc = "repair" THEN [row EXCEPT !.started = TRUE] ELSE row
  /\ UNCHANGED <<req, steps, warned, clock, outcome, history, told>>

\* provider_started, for a keyed request
ProviderStarted ==
  /\ pc \in {"start", "repair"}
  /\ pc' = IF pc = "start" THEN "attempt" ELSE "repair_call"
  /\ row' = IF req.keyed THEN [row EXCEPT !.started = TRUE] ELSE row
  /\ UNCHANGED <<req, steps, warned, clock, outcome, history, told>>

Primaries == {c \in calls : c.kind # "repair"}
NextKind == IF Primaries = {} THEN "primary" ELSE "retry"

Pay(kind) == calls' = calls \cup {[kind |-> kind, at |-> now]}

\* call_deepseek_raw: the mock needs no call, a missing key ends it.
CallMock ==
  /\ pc = "attempt" /\ req.provider = "mock"
  /\ pc' = "scan_llm_output" /\ Finish("run_llm_analysis", "completed")
  /\ UNCHANGED <<req, warned, clock, outcome, stored, told>>

CallPrimary ==
  /\ pc = "attempt" /\ req.provider = "real" /\ Covered(NextKind)
  /\ Pay(NextKind) /\ pc' = "calling"
  /\ UNCHANGED <<req, steps, warned, clock, result, stored, told>>

\* _provider_deadline_error before a call, and the missing key
NoCall ==
  /\ pc = "attempt" \/ (pc = "repair_call" /\ ~Covered("repair"))
  /\ pc = "attempt" =>
       req.provider = "unconfigured" \/ (req.provider = "real" /\ ~Covered(NextKind))
  /\ SelectFallback /\ UNCHANGED phase

\* adapt_provider_completion accepts the content before the deadline.
CallAnswers ==
  /\ pc = "calling" /\ ~Expired
  /\ pc' = "scan_llm_output" /\ Finish("run_llm_analysis", "completed")
  /\ UNCHANGED <<req, warned, clock, outcome, stored, told>>

\* provider_retry_reason names a transient failure, and there is room for another call.
CallRetries ==
  /\ pc = "calling" /\ ~Expired /\ Cardinality(Primaries) < 2 /\ Covered("retry")
  /\ pc' = "backoff" /\ wake' = now + Least(Backoff, Deadline - now)
  /\ UNCHANGED <<req, steps, warned, now, phase, worked, outcome, stored, told>>

BackoffEnds ==
  /\ pc = "backoff" /\ now >= wake /\ pc' = "attempt"
  /\ UNCHANGED <<req, steps, warned, clock, outcome, stored, told>>

\* A failure that is not transient or comes a second time; an answer that is too late
CallFails ==
  /\ Waiting
  /\ SelectFallback /\ UNCHANGED phase

\* Mutant: the transport is cut one tick too late.
CallIsCutLate == now > Deadline + Overrun /\ CallFails

\* DeadlineHttpxClient cuts the transport at the absolute deadline.
CallIsCut == Expired /\ CallFails

ScanOutput ==
  /\ pc = "scan_llm_output"
  /\ \/ Completes("scan_llm_output", "parse_model_json")
     \/ Blocked("scan_llm_output") \/ StepFails("scan_llm_output")

-----------------------------------------------------------------------------
(* Parsing, one format repair, and the deadline once more *)

\* json: how the object is found; usable: some narrative or legacy judgment is left;
\* salvaged: a field was dropped, bounded or defaulted; grounded: no sentence is removed
Response == [json: {"object", "wrapped", "embedded", "none", "too_deep"}, usable: BOOLEAN,
             salvaged: BOOLEAN, grounded: BOOLEAN]

\* parse_model_json_result
Parses(r) == r.json \in {"object", "wrapped", "embedded"}
Normalized(r) == r.json \in {"wrapped", "embedded"}

\* validate_compact_analysis, compact_has_meaningful_analysis
Usable(r) == Parses(r) /\ r.usable

\* model_response_to_result
Status(r, repaired) ==
  CASE r.salvaged -> "partial"
    [] ~r.salvaged /\ (repaired \/ Normalized(r)) -> "repaired"
    [] OTHER -> "complete"

\* sanitize_provider_result_narratives
Grounded(status, r) == IF status = "complete" /\ ~r.grounded THEN "partial" ELSE status

\* The mock's content is a valid object of the active contract.
MayRespond(r) == req.provider = "mock" => r.json = "object" /\ r.usable /\ ~r.salvaged

Accept(r, repaired) ==
  /\ Usable(r)
  /\ result' = Grounded(Status(r, repaired), r)
  /\ warned' = (warned \/ result' # "complete")
  /\ steps' = [steps EXCEPT !["parse_model_json"] = "completed",
                            !["validate_structured_output"] = "completed"]
  /\ pc' = "deadline_check"
  /\ UNCHANGED <<req, clock, calls, stored, told>>

ParseOutput ==
  /\ pc = "parse_model_json"
  /\ \E r \in Response :
       /\ MayRespond(r)
       /\ \/ Accept(r, FALSE)
          \/ /\ r.json = "too_deep" /\ SelectFallback /\ UNCHANGED phase
          \/ /\ ~Usable(r) /\ r.json # "too_deep" /\ pc' = "repair"
             /\ UNCHANGED <<req, steps, warned, clock, outcome, stored, told>>

\* call_deepseek_repair
CallRepair ==
  /\ pc = "repair_call" /\ Covered("repair")
  /\ Pay("repair") /\ pc' = "repairing"
  /\ UNCHANGED <<req, steps, warned, clock, result, stored, told>>

\* The repaired content is scanned, and parsed like the first; what it lacks is not
\* repaired again (CallFails).
RepairAnswers ==
  /\ pc = "repairing" /\ ~Expired
  /\ \/ \E r \in Response : Accept(r, TRUE)
     \/ Blocked("parse_model_json")

DeadlineCheck ==
  /\ pc = "deadline_check"
  /\ IF Expired
       THEN SelectFallback /\ UNCHANGED phase
       ELSE /\ pc' = "validate_evidence_references"
            /\ UNCHANGED <<req, steps, warned, clock, outcome, stored, told>>

-----------------------------------------------------------------------------
(* Refinement of the result *)

\* A reference or a claim that nothing supports is dropped, with a warning.
Downgrades(k, next) ==
  /\ pc = k /\ pc' = next /\ Finish(k, "completed") /\ warned' = TRUE
  /\ result' = IF result = "complete" THEN "partial" ELSE result
  /\ UNCHANGED <<req, clock, calls, stored, told>>

ValidateReferences ==
  /\ pc = "validate_evidence_references"
  /\ \/ Completes("validate_evidence_references", "reconcile_evidence")
     \/ Downgrades("validate_evidence_references", "reconcile_evidence")
     \/ StepFails("validate_evidence_references")

ReconcileEvidence ==
  /\ pc = "reconcile_evidence"
  /\ \/ Completes("reconcile_evidence", "recommend_next_action")
     \/ Downgrades("reconcile_evidence", "recommend_next_action")
     \/ StepFails("reconcile_evidence")

RecommendNextAction ==
  /\ pc = "recommend_next_action"
  /\ \/ Completes("recommend_next_action", "final_output_scan")
     \/ StepFails("recommend_next_action")

ScanFinalOutput ==
  /\ pc = "final_output_scan"
  /\ \/ Completes("final_output_scan", "save_application")
     \/ Blocked("final_output_scan") \/ StepFails("final_output_scan")

-----------------------------------------------------------------------------
(* Storing and answering *)

\* Without a key the History row is inserted at once; with one it waits for finalize.
SaveApplication ==
  /\ pc = "save_application"
  /\ \/ ~req.save /\ Skips("save_application", "finalize_result")
     \/ req.save /\ req.keyed /\ Completes("save_application", "finalize_result")
     \/ /\ req.save /\ ~req.keyed /\ history' = history + 1
        /\ pc' = "finalize_result" /\ Finish("save_application", "completed")
        /\ UNCHANGED <<req, warned, clock, outcome, row, told>>
     \/ req.save /\ ~req.keyed /\ StepFails("save_application")

FinalizeResult ==
  /\ pc = "finalize_result"
  /\ \/ Completes("finalize_result", "settle")
     \/ StepFails("finalize_result")

\* Mutant: the History row is written in a transaction of its own, before the row of
\* the key is checked and completed.
HistoryFirst ==
  /\ pc = "settle" /\ req.keyed
  /\ IF history = 0 /\ req.save
       THEN history' = 1 /\ UNCHANGED <<pc, row>>
       ELSE pc' = "respond" /\ row' = [row EXCEPT !.status = "completed"] /\ UNCHANGED history
  /\ UNCHANGED <<req, steps, warned, clock, outcome, told>>

\* AnalyzeIdempotencyService.finalize
Settle ==
  /\ pc = "settle" /\ req.keyed /\ pc' = "respond"
  /\ row' = [row EXCEPT !.status = "completed"]
  /\ history' = IF req.save THEN history + 1 ELSE history
  /\ UNCHANGED <<req, steps, warned, clock, outcome, told>>

\* update_application_workflow_steps of the row inserted before; if it fails, nobody
\* closes the request.
UpdateSteps ==
  /\ pc = "settle" /\ ~req.keyed
  /\ pc' = "respond" \/ (history = 1 /\ pc' = "error")
  /\ UNCHANGED <<req, steps, warned, clock, outcome, stored, told>>

\* record_analysis_observation and the return of the handler
Respond ==
  /\ pc = "respond" /\ pc' = "answered" /\ answer' = "ok"
  /\ Observes
  /\ UNCHANGED <<req, steps, warned, clock, outcome, stored>>

-----------------------------------------------------------------------------

\* What the handler does without waiting for anybody else
Handler ==
  \/ ValidateInput \/ ParseResume \/ AcquireJobDescription
  \/ ClaimWon \/ Replays \/ ScanUntrustedInput
  \/ Normalize \/ NormalizeFails \/ RetrieveEvidence \/ ScanEvidence \/ BuildSafePrompt
  \/ StartPhase \/ ProviderStarted \/ CallMock \/ CallPrimary \/ NoCall \/ BackoffEnds
  \/ CallIsCut \/ ScanOutput \/ ParseOutput \/ CallRepair \/ DeadlineCheck
  \/ ValidateReferences \/ ReconcileEvidence \/ RecommendNextAction \/ ScanFinalOutput
  \/ SaveApplication \/ FinalizeResult \/ Settle \/ UpdateSteps \/ Respond
  \/ AnswerError

Provider == CallAnswers \/ CallRetries \/ CallFails \/ RepairAnswers

Next == Handler \/ Provider \/ LedgerRefuses \/ TimePasses \/ Crash

\* The event loop goes on and so does the clock; the provider owes nothing.
Fairness == WF_vars(Handler) /\ WF_vars(TimePasses)

Spec == Init /\ [][Next]_vars /\ Fairness

-----------------------------------------------------------------------------
(* Properties *)

\* A request whose provider phase begins before its reserve is used up is answered
\* within the safety deadline, whatever the provider, the retries and the repair did.
AnswerInTime ==
  pc = "answered" /\ phase \in 0..(SafetyDeadline - Reserve) => now <= SafetyDeadline

\* No call is paid for that the deadline could not cover together with the reserve for
\* the fallback and, for retry and repair, their own; no attempt makes two calls of one
\* kind; and the ledger knew of every call of a keyed request before it was made.
CallsCovered ==
  /\ \A c \in calls : c.at + MinBudget + ContinuationReserve(c.kind) + Reserve <= Deadline
  /\ \A c, d \in calls : c.kind = d.kind => c = d
  /\ req.keyed /\ calls # {} => row.started

\* A request keeps to its deadline, and so do the calls it pays for.
DeadlineKept == AnswerInTime /\ CallsCovered

StepsWith(status) == {k \in Steps : steps[k] = status}

\* The audit trail agrees with the answer.  A result that was delivered has no open and
\* no failed step, and warns when it is less than complete.  An error has at most one
\* failed step; everything before it is settled and nothing behind it was done.  The
\* monitoring row may be lost, but none is written twice, for a replay, or for an error
\* that no step failed with.
AuditMatchesAnswer ==
  /\ answer = "ok" =>
       /\ StepsWith("open") \cup StepsWith("failed") = {}
       /\ observed <= 1
       /\ result # "complete" => warned
  /\ answer = "error" =>
       /\ Cardinality(StepsWith("failed")) \in observed..1
       /\ \A k \in StepsWith("failed") :
            After(k) \cap StepsWith("completed") = {} /\ StepsWith("open") \subseteq After(k)
  /\ answer = "replay" => observed = 0

\* What the client of a keyed request is told agrees with what a retry of it will find:
\* a result is stored, with its History row exactly if one was asked for; an error left
\* no History row, and a row a retry may take over has paid for no call.
AnswerMatchesLedger ==
  req.keyed =>
    /\ answer = "ok" => row.status = "completed" /\ (history = 1) = req.save
    /\ answer = "error" => row.status # "completed" /\ history = 0
    /\ row.status = "failed" => calls = {}
    /\ history = 1 => row.status = "completed"

\* What the client is told is what the audit trail and the ledger say happened.
AnswerIsRecorded == AuditMatchesAnswer /\ AnswerMatchesLedger

\* Every request is answered, unless its process dies: the transport of a call is cut at
\* the deadline, every back-off ends and nothing else waits.
EveryRequestAnswered == <>(pc \in {"answered", "dead"})

-----------------------------------------------------------------------------
(* The ledger's view of the request *)

Claimed == row.status # "none"
Ready == {"repairing", "deadline_check", "validate_evidence_references", "reconcile_evidence",
          "recommend_next_action", "final_output_scan", "save_application",
          "finalize_result", "settle"}

LedgerPc ==
  CASE ~req.keyed -> "cleanup"
    [] req.keyed /\ ~Claimed ->
         IF pc = "claim" THEN "inserting"
         ELSE IF Gone \/ steps["acquire_job_description"] = "completed" THEN "ended"
         ELSE "cleanup"
    [] Claimed /\ row.status = "completed" -> "answered"
    [] Claimed /\ row.status # "completed" ->
         CASE pc = "error" -> "failing"
           [] Gone -> "ended"
           [] pc \in Ready -> "finalizing"
           [] pc = "repair_call" -> "repairing"
           [] row.started /\ pc \notin Ready \cup {"repair_call", "error"} /\ ~Gone -> "calling"
           [] OTHER -> IF row.bound = "none" THEN "claimed" ELSE "bound"

Settled == row.status = "completed"
HistoryStored == IF req.save THEN history = 1 ELSE Settled

LedgerRecord ==
  [ id |-> IF Claimed THEN 1 ELSE 0, status |-> row.status, print |-> "asked",
    token |-> IF Claimed THEN "this" ELSE "nobody", started |-> row.started,
    bound |-> row.bound, live |-> Claimed, expired |-> FALSE,
    result |-> IF Settled THEN "this" ELSE "nobody" ]

LedgerRequest ==
  LET working == LedgerPc \notin {"cleanup", "inserting", "ended"} IN
  [ pc |-> LedgerPc, rec |-> IF working THEN 1 ELSE 0,
    bound |-> IF working THEN row.bound ELSE "none", doomed |-> 0,
    answer |-> IF Settled THEN "this" ELSE "nobody" ]

Ledger == INSTANCE AnalyzeIdempotency WITH
  Requests <- {"this"}, NoRequest <- "nobody", Fingerprints <- {"asked"}, Bindings <- Sources,
  record <- LedgerRecord, lastId <- IF Claimed THEN 1 ELSE 0,
  request <- [r \in {"this"} |-> LedgerRequest], print <- [r \in {"this"} |-> "asked"],
  calls <- IF req.keyed THEN {[rec |-> 1, by |-> "this", kind |-> c.kind] : c \in calls} ELSE {},
  history <- IF req.keyed /\ HistoryStored THEN {[rec |-> 1, by |-> "this"]} ELSE {}

\* Seen from the ledger, the handler does what AnalyzeIdempotency lets a request do, in
\* that order: it claims, binds, marks the start, calls, and finalizes or fails.
ImplementsLedger == Ledger!Spec
==============================================================================
