------------------------- MODULE AnalyzeAttemptProofs -------------------------
(***************************************************************************)
(* Theorems about AnalyzeAttempt for every deadline, reserve, limit and    *)
(* back-off: a request keeps to its deadline, the client is told what the  *)
(* audit trail and the ledger hold, and the handler implements             *)
(* AnalyzeIdempotency for its request.                                     *)
(***************************************************************************)
EXTENDS AnalyzeAttempt, FiniteSetTheorems, TLAPS

-----------------------------------------------------------------------------
(* The workflow's steps and their places *)

Last == 17
Places == 1 .. Last

Place(k) ==
  CASE k = "validate_input" -> 1
    [] k = "parse_resume" -> 2
    [] k = "acquire_job_description" -> 3
    [] k = "scan_untrusted_input" -> 4
    [] k = "retrieve_project_evidence" -> 5
    [] k = "scan_project_evidence" -> 6
    [] k = "build_safe_prompt" -> 7
    [] k = "run_llm_analysis" -> 8
    [] k = "scan_llm_output" -> 9
    [] k = "parse_model_json" -> 10
    [] k = "validate_structured_output" -> 11
    [] k = "validate_evidence_references" -> 12
    [] k = "reconcile_evidence" -> 13
    [] k = "recommend_next_action" -> 14
    [] k = "final_output_scan" -> 15
    [] k = "save_application" -> 16
    [] k = "finalize_result" -> 17

LEMMA Named ==
  /\ DOMAIN StepOrder = Places /\ Len(StepOrder) = Last
  /\ StepOrder[1] = "validate_input" /\ StepOrder[2] = "parse_resume"
  /\ StepOrder[3] = "acquire_job_description" /\ StepOrder[4] = "scan_untrusted_input"
  /\ StepOrder[5] = "retrieve_project_evidence" /\ StepOrder[6] = "scan_project_evidence"
  /\ StepOrder[7] = "build_safe_prompt" /\ StepOrder[8] = "run_llm_analysis"
  /\ StepOrder[9] = "scan_llm_output" /\ StepOrder[10] = "parse_model_json"
  /\ StepOrder[11] = "validate_structured_output"
  /\ StepOrder[12] = "validate_evidence_references" /\ StepOrder[13] = "reconcile_evidence"
  /\ StepOrder[14] = "recommend_next_action" /\ StepOrder[15] = "final_output_scan"
  /\ StepOrder[16] = "save_application" /\ StepOrder[17] = "finalize_result"
<1>1. DOMAIN StepOrder = 1 .. 17
  BY DEF StepOrder
<1>2. Len(StepOrder) = 17
  BY DEF StepOrder
<1> QED
  BY <1>1, <1>2 DEF StepOrder, Places, Last

LEMMA PlaceOfName ==
  /\ Place("validate_input") = 1 /\ Place("parse_resume") = 2
  /\ Place("acquire_job_description") = 3 /\ Place("scan_untrusted_input") = 4
  /\ Place("retrieve_project_evidence") = 5 /\ Place("scan_project_evidence") = 6
  /\ Place("build_safe_prompt") = 7 /\ Place("run_llm_analysis") = 8
  /\ Place("scan_llm_output") = 9 /\ Place("parse_model_json") = 10
  /\ Place("validate_structured_output") = 11 /\ Place("validate_evidence_references") = 12
  /\ Place("reconcile_evidence") = 13 /\ Place("recommend_next_action") = 14
  /\ Place("final_output_scan") = 15 /\ Place("save_application") = 16
  /\ Place("finalize_result") = 17
BY DEF Place

\* No step occurs twice: its place can be told from its name.
LEMMA PlaceOfStep == \A i \in Places : Place(StepOrder[i]) = i
<1> SUFFICES ASSUME NEW i \in Places PROVE Place(StepOrder[i]) = i
  OBVIOUS
<1>1. \/ i = 1 \/ i = 2 \/ i = 3 \/ i = 4 \/ i = 5 \/ i = 6 \/ i = 7 \/ i = 8 \/ i = 9
      \/ i = 10 \/ i = 11 \/ i = 12 \/ i = 13 \/ i = 14 \/ i = 15 \/ i = 16 \/ i = 17
  BY DEF Places, Last
<1> QED
  BY <1>1, Named, PlaceOfName

LEMMA StepsArePlaces ==
  /\ Steps = {StepOrder[i] : i \in Places}
  /\ \A i, j \in Places : StepOrder[i] = StepOrder[j] => i = j
  /\ \A i \in Places : StepOrder[i] \in Steps
<1>1. Steps = {StepOrder[i] : i \in Places}
  BY Named DEF Steps
<1>2. \A i, j \in Places : StepOrder[i] = StepOrder[j] => i = j
  BY PlaceOfStep
<1> QED
  BY <1>1, <1>2

\* What is behind a step is what has a later place.
LEMMA AfterIsLater ==
  ASSUME NEW n \in Places
  PROVE  \A i \in Places : StepOrder[i] \in After(StepOrder[n]) <=> n < i
<1>1. Position(StepOrder[n]) = n
  <2> DEFINE p == CHOOSE i \in DOMAIN StepOrder : StepOrder[i] = StepOrder[n]
  <2>1. p \in DOMAIN StepOrder /\ StepOrder[p] = StepOrder[n]
    BY Named
  <2>2. p = n
    <3> HIDE DEF p
    <3> QED BY <2>1, Named, StepsArePlaces
  <2> QED
    BY <2>2 DEF Position
<1>2. After(StepOrder[n]) = {StepOrder[j] : j \in (n + 1) .. Last}
  BY <1>1, Named DEF After
<1> QED
  BY <1>2, StepsArePlaces DEF Places, Last

-----------------------------------------------------------------------------
(* How far the workflow is *)

Closed == {"completed", "skipped"}
StepStatus == {"open", "completed", "skipped", "failed"}

\* The steps up to place n are done with and none behind it was touched.
SettledTo(st, n) ==
  \A i \in Places : IF i <= n THEN st[StepOrder[i]] \in Closed ELSE st[StepOrder[i]] = "open"

\* The step at place n failed, everything before it is done with, nothing behind it is.
FailedAt(st, n) ==
  /\ st[StepOrder[n]] = "failed"
  /\ \A i \in Places : i < n => st[StepOrder[i]] \in Closed
  /\ \A i \in Places : n < i => st[StepOrder[i]] \in {"open", "skipped"}

LEMMA Advances ==
  ASSUME NEW st \in [Steps -> StepStatus], NEW n \in Places, SettledTo(st, n - 1),
         NEW status \in Closed
  PROVE  /\ [st EXCEPT ![StepOrder[n]] = status] \in [Steps -> StepStatus]
         /\ SettledTo([st EXCEPT ![StepOrder[n]] = status], n)
<1> DEFINE next == [st EXCEPT ![StepOrder[n]] = status]
<1>1. next \in [Steps -> StepStatus]
  BY DEF Closed, StepStatus
<1>2. ASSUME NEW i \in Places
      PROVE  next[StepOrder[i]] = IF i = n THEN status ELSE st[StepOrder[i]]
  BY StepsArePlaces
<1>3. SettledTo(next, n)
  <2> HIDE DEF next
  <2> QED
    BY <1>2 DEF SettledTo, Places, Last
<1> QED
  BY <1>1, <1>3

\* The step in progress fails, or the one that was done with last.
LEMMA Fails ==
  ASSUME NEW st \in [Steps -> StepStatus], NEW n \in Places, NEW m \in {n - 1, n},
         SettledTo(st, m)
  PROVE  /\ [st EXCEPT ![StepOrder[n]] = "failed"] \in [Steps -> StepStatus]
         /\ FailedAt([st EXCEPT ![StepOrder[n]] = "failed"], n)
<1> DEFINE next == [st EXCEPT ![StepOrder[n]] = "failed"]
<1>1. next \in [Steps -> StepStatus]
  BY DEF StepStatus
<1>2. ASSUME NEW i \in Places
      PROVE  next[StepOrder[i]] = IF i = n THEN "failed" ELSE st[StepOrder[i]]
  BY StepsArePlaces
<1>3. FailedAt(next, n)
  <2> HIDE DEF next
  <2> QED
    BY <1>2 DEF SettledTo, FailedAt, Places, Last
<1> QED
  BY <1>1, <1>3

\* It is blocked: what is behind it is skipped first.
LEMMA Blocks ==
  ASSUME NEW n \in Places, NEW m \in {n - 1, n}, SettledTo(steps, m),
         steps \in [Steps -> StepStatus]
  PROVE  /\ [SkippedAfter(StepOrder[n]) EXCEPT ![StepOrder[n]] = "failed"]
              \in [Steps -> StepStatus]
         /\ FailedAt([SkippedAfter(StepOrder[n]) EXCEPT ![StepOrder[n]] = "failed"], n)
<1> DEFINE next == [SkippedAfter(StepOrder[n]) EXCEPT ![StepOrder[n]] = "failed"]
<1>1. next \in [Steps -> StepStatus]
  BY DEF SkippedAfter, StepStatus
<1>2. ASSUME NEW i \in Places
      PROVE  next[StepOrder[i]] = IF i = n THEN "failed"
                                  ELSE IF n < i THEN "skipped" ELSE steps[StepOrder[i]]
  BY StepsArePlaces, AfterIsLater DEF SkippedAfter
<1>3. FailedAt(next, n)
  <2> HIDE DEF next
  <2> QED
    BY <1>2 DEF SettledTo, FailedAt, Places, Last
<1> QED
  BY <1>1, <1>3

\* The fallback closes whatever the provider phase left open.
LEMMA FallsBack ==
  ASSUME SelectFallback, steps \in [Steps -> StepStatus],
         NEW n \in 7 .. 11, SettledTo(steps, n)
  PROVE  steps' \in [Steps -> StepStatus] /\ SettledTo(steps', 11)
<1>1. steps' \in [Steps -> StepStatus]
  BY DEF SelectFallback, StepStatus
<1>2. ASSUME NEW i \in Places
      PROVE  IF i <= 11 THEN steps'[StepOrder[i]] \in Closed ELSE steps'[StepOrder[i]] = "open"
  <2>a. /\ StepOrder[8] = "run_llm_analysis" /\ StepOrder[9] = "scan_llm_output"
        /\ StepOrder[10] = "parse_model_json" /\ StepOrder[11] = "validate_structured_output"
    BY Named
  <2>b. \A j \in Places : StepOrder[i] = StepOrder[j] => i = j
    BY StepsArePlaces
  <2>c. {8, 9, 10, 11} \subseteq Places
    BY DEF Places, Last
  <2>1. StepOrder[i] \in {"run_llm_analysis", "parse_model_json", "validate_structured_output"}
          <=> i \in {8, 10, 11}
    BY <2>a, <2>b, <2>c
  <2>2. StepOrder[i] = "scan_llm_output" <=> i = 9
    BY <2>a, <2>b, <2>c
  <2>3. IF i <= n THEN steps[StepOrder[i]] \in Closed ELSE steps[StepOrder[i]] = "open"
    BY DEF SettledTo
  <2>4. steps'[StepOrder[i]] = IF i \in {8, 10, 11} THEN "completed"
                               ELSE IF i = 9 /\ steps[StepOrder[i]] = "open" THEN "skipped"
                               ELSE steps[StepOrder[i]]
    BY <2>1, <2>2, StepsArePlaces DEF SelectFallback
  <2> QED
    BY <2>3, <2>4 DEF Closed, Places, Last
<1> QED
  BY <1>1, <1>2 DEF SettledTo

\* An answer that parses closes two steps at once.
LEMMA Accepts ==
  ASSUME NEW r, NEW repaired, Accept(r, repaired), steps \in [Steps -> StepStatus],
         SettledTo(steps, 9)
  PROVE  steps' \in [Steps -> StepStatus] /\ SettledTo(steps', 11)
<1> DEFINE one == [steps EXCEPT ![StepOrder[10]] = "completed"]
<1>1. one \in [Steps -> StepStatus] /\ SettledTo(one, 10)
  <2>1. 10 \in Places /\ 9 = 10 - 1 /\ "completed" \in Closed
    BY DEF Places, Last, Closed
  <2>2. SettledTo(steps, 10 - 1)
    BY <2>1
  <2> QED
    BY <2>1, <2>2, Advances
<1>2. steps' = [one EXCEPT ![StepOrder[11]] = "completed"]
  BY Named DEF Accept
<1>3. 11 \in Places /\ 10 = 11 - 1 /\ "completed" \in Closed
  BY DEF Places, Last, Closed
<1> HIDE DEF one
<1>4. SettledTo(one, 11 - 1)
  BY <1>1, <1>3
<1> QED
  BY <1>1, <1>2, <1>3, <1>4, Advances

-----------------------------------------------------------------------------
(* What the audit trail says of a settled and of a failed workflow *)

LEMMA SettledReads ==
  ASSUME NEW st \in [Steps -> StepStatus], NEW n \in 0 .. Last, SettledTo(st, n)
  PROVE  /\ {k \in Steps : st[k] = "failed"} = {}
         /\ n = Last => {k \in Steps : st[k] = "open"} = {}
<1>1. \A k \in Steps : \E i \in Places : k = StepOrder[i]
  BY StepsArePlaces
<1>2. \A k \in Steps : st[k] # "failed" /\ (n = Last => st[k] # "open")
  BY <1>1 DEF SettledTo, Closed, Places, Last
<1> QED
  BY <1>2

LEMMA FailedReads ==
  ASSUME NEW st \in [Steps -> StepStatus], NEW n \in Places, FailedAt(st, n)
  PROVE  /\ {k \in Steps : st[k] = "failed"} = {StepOrder[n]}
         /\ After(StepOrder[n]) \cap {k \in Steps : st[k] = "completed"} = {}
         /\ {k \in Steps : st[k] = "open"} \subseteq After(StepOrder[n])
<1>1. \A k \in Steps : \E i \in Places : k = StepOrder[i]
  BY StepsArePlaces
<1>2. \A i \in Places : st[StepOrder[i]] = "failed" <=> i = n
  BY DEF FailedAt, Closed, Places, Last
<1>3. \A i \in Places : n < i => st[StepOrder[i]] # "completed"
  BY DEF FailedAt
<1>4. \A i \in Places : st[StepOrder[i]] = "open" => n < i
  BY DEF FailedAt, Closed, Places, Last
<1>5. {k \in Steps : st[k] = "failed"} = {StepOrder[n]}
  BY <1>1, <1>2, StepsArePlaces
<1>6. After(StepOrder[n]) \cap {k \in Steps : st[k] = "completed"} = {}
  BY <1>1, <1>3, AfterIsLater
<1>7. {k \in Steps : st[k] = "open"} \subseteq After(StepOrder[n])
  BY <1>1, <1>4, AfterIsLater
<1> QED
  BY <1>5, <1>6, <1>7

-----------------------------------------------------------------------------
(* What a step of the handler can do *)

\* How many steps of the workflow are settled when the handler is at p.
Front(p) ==
  CASE p = "validate_input" -> 0
    [] p = "parse_resume" -> 1
    [] p = "acquire_job_description" -> 2
    [] p \in {"claim", "scan_untrusted_input"} -> 3
    [] p \in {"normalize", "retrieve_project_evidence"} -> 4
    [] p = "scan_project_evidence" -> 5
    [] p = "build_safe_prompt" -> 6
    [] p \in {"run_llm_analysis", "start", "attempt", "calling", "backoff"} -> 7
    [] p = "scan_llm_output" -> 8
    [] p \in {"parse_model_json", "repair", "repair_call", "repairing"} -> 9
    [] p \in {"deadline_check", "validate_evidence_references"} -> 11
    [] p = "reconcile_evidence" -> 12
    [] p = "recommend_next_action" -> 13
    [] p = "final_output_scan" -> 14
    [] p = "save_application" -> 15
    [] p = "finalize_result" -> 16
    [] p \in {"settle", "respond"} -> 17

LEMMA FrontOf ==
  /\ Front("validate_input") = 0 /\ Front("parse_resume") = 1
  /\ Front("acquire_job_description") = 2
  /\ Front("claim") = 3 /\ Front("scan_untrusted_input") = 3
  /\ Front("normalize") = 4 /\ Front("retrieve_project_evidence") = 4
  /\ Front("scan_project_evidence") = 5 /\ Front("build_safe_prompt") = 6
  /\ Front("run_llm_analysis") = 7 /\ Front("start") = 7 /\ Front("attempt") = 7
  /\ Front("calling") = 7 /\ Front("backoff") = 7 /\ Front("scan_llm_output") = 8
  /\ Front("parse_model_json") = 9 /\ Front("repair") = 9 /\ Front("repair_call") = 9
  /\ Front("repairing") = 9 /\ Front("deadline_check") = 11
  /\ Front("validate_evidence_references") = 11 /\ Front("reconcile_evidence") = 12
  /\ Front("recommend_next_action") = 13 /\ Front("final_output_scan") = 14
  /\ Front("save_application") = 15 /\ Front("finalize_result") = 16
  /\ Front("settle") = 17 /\ Front("respond") = 17
BY DEF Front

\* A step that goes well, and where the handler is then.  The call of the model has
\* more ways to end.
Leads(k, next) ==
  \/ k = "validate_input" /\ next = "parse_resume"
  \/ k = "parse_resume" /\ next = "acquire_job_description"
  \/ k = "acquire_job_description" /\ next = IF req.keyed THEN "claim" ELSE "scan_untrusted_input"
  \/ k = "scan_untrusted_input" /\ next = "normalize"
  \/ k = "retrieve_project_evidence" /\ next = "scan_project_evidence"
  \/ k = "scan_project_evidence" /\ next = "build_safe_prompt"
  \/ k = "build_safe_prompt" /\ next = "run_llm_analysis"
  \/ k = "scan_llm_output" /\ next = "parse_model_json"
  \/ k = "validate_evidence_references" /\ next = "reconcile_evidence"
  \/ k = "reconcile_evidence" /\ next = "recommend_next_action"
  \/ k = "recommend_next_action" /\ next = "final_output_scan"
  \/ k = "final_output_scan" /\ next = "save_application"
  \/ k = "save_application" /\ next = "finalize_result"
  \/ k = "finalize_result" /\ next = "settle"

Walks(k, next, status) ==
  /\ Leads(k, next) /\ pc = k /\ pc' = next /\ Finish(k, status)
  /\ k = "acquire_job_description" => status = "completed"
  /\ warned' \in {warned, TRUE}
  /\ result' = result \/ (result' = "partial" /\ warned' = TRUE)
  /\ history' = history \/ (k = "save_application" /\ ~req.keyed /\ history' = history + 1)
  /\ UNCHANGED <<req, clock, calls, row, told>>

\* Where a step can fail or be blocked
Breakable == {"validate_input", "parse_resume", "acquire_job_description",
  "scan_untrusted_input", "normalize", "retrieve_project_evidence", "scan_project_evidence",
  "build_safe_prompt", "scan_llm_output", "repairing", "validate_evidence_references",
  "reconcile_evidence", "recommend_next_action", "final_output_scan", "save_application",
  "finalize_result"}

Breaks(n) ==
  /\ pc \in Breakable /\ Front(pc) \in {n - 1, n}
  /\ StepFails(StepOrder[n]) \/ Blocked(StepOrder[n])

Fallback ==
  /\ SelectFallback
  /\ \/ pc = "run_llm_analysis" /\ phase' = now
     \/ /\ pc \in {"attempt", "calling", "parse_model_json", "repair_call", "repairing",
                   "deadline_check"}
        /\ UNCHANGED phase

Content ==
  /\ pc = "calling" \/ (pc = "attempt" /\ req.provider = "mock")
  /\ pc' = "scan_llm_output" /\ Finish("run_llm_analysis", "completed")
  /\ UNCHANGED <<req, warned, clock, outcome, stored, told>>

Accepted == pc \in {"parse_model_json", "repairing"} /\ \E r \in Response, b \in BOOLEAN : Accept(r, b)

EntersPhase ==
  /\ pc = "run_llm_analysis" /\ phase' = now /\ pc' = "start"
  /\ UNCHANGED <<req, steps, warned, now, worked, wake, outcome, stored, told>>

NeedsRepair ==
  /\ pc = "parse_model_json" /\ pc' = "repair" /\ req.provider # "mock"
  /\ UNCHANGED <<req, steps, warned, clock, outcome, stored, told>>

InTime ==
  /\ pc = "deadline_check" /\ pc' = "validate_evidence_references"
  /\ UNCHANGED <<req, steps, warned, clock, outcome, stored, told>>

Kinds ==
  \/ \E k, next, status : status \in Closed /\ Walks(k, next, status)
  \/ \E n \in Places : Breaks(n)
  \/ Fallback \/ Content \/ Accepted \/ EntersPhase \/ NeedsRepair \/ InTime
  \/ ClaimWon \/ Replays \/ Normalize \/ ProviderStarted
  \/ CallPrimary \/ CallRetries \/ BackoffEnds \/ CallRepair
  \/ Settle \/ UpdateSteps \/ Respond \/ AnswerError \/ LedgerRefuses
  \/ TimePasses \/ Crash

LEMMA CompletesWalks ==
  ASSUME NEW k, NEW next, Leads(k, next),
         \/ Completes(k, next) \/ Downgrades(k, next)
         \/ Skips(k, next) /\ k # "acquire_job_description"
  PROVE  \E k1, next1, status : status \in Closed /\ Walks(k1, next1, status)
<1>1. CASE Completes(k, next)
  <2>1. Walks(k, next, "completed") /\ "completed" \in Closed
    BY <1>1 DEF Completes, MayWarn, Walks, Closed, outcome, stored
  <2> QED
    BY <2>1
<1>2. CASE Skips(k, next) /\ k # "acquire_job_description"
  <2>1. Walks(k, next, "skipped") /\ "skipped" \in Closed
    BY <1>2 DEF Skips, Walks, Closed, outcome, stored
  <2> QED
    BY <2>1
<1>3. CASE Downgrades(k, next)
  <2>1. Walks(k, next, "completed") /\ "completed" \in Closed
    BY <1>3 DEF Downgrades, Walks, Closed, stored
  <2> QED
    BY <2>1
<1> QED
  BY <1>1, <1>2, <1>3

LEMMA FailsBreaks ==
  ASSUME NEW n \in Places, NEW k, k = StepOrder[n], StepFails(k) \/ Blocked(k),
         pc \in Breakable, Front(pc) \in {n - 1, n}
  PROVE  \E m \in Places : Breaks(m)
BY DEF Breaks

\* Reading the input
LEMMA ReadingKinds ==
  ValidateInput \/ ParseResume \/ AcquireJobDescription \/ ScanUntrustedInput \/ NormalizeFails
    => Kinds
<1>0. {1, 2, 3, 4} \subseteq Places
  BY DEF Places, Last
<1>1. CASE ValidateInput
  <2>1. CASE Completes("validate_input", "parse_resume")
    BY <2>1, CompletesWalks DEF Leads, Kinds
  <2>2. CASE StepFails("validate_input")
    <3>1. pc \in Breakable /\ Front(pc) = 1 - 1
      BY <1>1, FrontOf DEF ValidateInput, Breakable
    <3> QED
      BY <2>2, <3>1, <1>0, Named, FailsBreaks DEF Kinds
  <2> QED
    BY <1>1, <2>1, <2>2 DEF ValidateInput
<1>2. CASE ParseResume
  <2>1. CASE Completes("parse_resume", "acquire_job_description")
    BY <2>1, CompletesWalks DEF Leads, Kinds
  <2>2. CASE StepFails("parse_resume")
    <3>1. pc \in Breakable /\ Front(pc) = 2 - 1
      BY <1>2, FrontOf DEF ParseResume, Breakable
    <3> QED
      BY <2>2, <3>1, <1>0, Named, FailsBreaks DEF Kinds
  <2> QED
    BY <1>2, <2>1, <2>2 DEF ParseResume
<1>3. CASE AcquireJobDescription
  <2>1. CASE StepFails("acquire_job_description")
    <3>1. pc \in Breakable /\ Front(pc) = 3 - 1
      BY <1>3, FrontOf DEF AcquireJobDescription, Breakable
    <3> QED
      BY <2>1, <3>1, <1>0, Named, FailsBreaks DEF Kinds
  <2>2. CASE ~StepFails("acquire_job_description")
    <3> DEFINE next == IF req.keyed THEN "claim" ELSE "scan_untrusted_input"
    <3>1. Leads("acquire_job_description", next)
      BY DEF Leads
    <3>2. Completes("acquire_job_description", next)
      BY <1>3, <2>2 DEF AcquireJobDescription
    <3> HIDE DEF next
    <3> QED
      BY <3>1, <3>2, CompletesWalks DEF Kinds
  <2> QED
    BY <2>1, <2>2
<1>4. CASE ScanUntrustedInput
  <2>1. CASE Completes("scan_untrusted_input", "normalize")
    BY <2>1, CompletesWalks DEF Leads, Kinds
  <2>2. CASE Blocked("scan_untrusted_input") \/ StepFails("scan_untrusted_input")
    <3>1. pc \in Breakable /\ Front(pc) = 4 - 1
      BY <1>4, FrontOf DEF ScanUntrustedInput, Breakable
    <3> QED
      BY <2>2, <3>1, <1>0, Named, FailsBreaks DEF Kinds
  <2> QED
    BY <1>4, <2>1, <2>2 DEF ScanUntrustedInput
<1>5. CASE NormalizeFails
  <2>1. pc \in Breakable /\ Front(pc) = 4
    BY <1>5, FrontOf DEF NormalizeFails, Breakable
  <2> QED
    BY <1>5, <2>1, <1>0, Named, FailsBreaks DEF NormalizeFails, Kinds
<1> QED
  BY <1>1, <1>2, <1>3, <1>4, <1>5

\* Retrieving evidence and building the prompt
LEMMA PreparingKinds == RetrieveEvidence \/ ScanEvidence \/ BuildSafePrompt => Kinds
<1>0. {5, 6, 7} \subseteq Places
  BY DEF Places, Last
<1>1. CASE RetrieveEvidence
  <2>1. CASE StepFails("retrieve_project_evidence") \/ Blocked("retrieve_project_evidence")
    <3>1. pc \in Breakable /\ Front(pc) = 5 - 1
      BY <1>1, FrontOf DEF RetrieveEvidence, Breakable, Skips, Completes, StepFails
    <3> QED
      BY <2>1, <3>1, <1>0, Named, FailsBreaks DEF Kinds
  <2>2. CASE ~(StepFails("retrieve_project_evidence") \/ Blocked("retrieve_project_evidence"))
    <3>1. \/ Completes("retrieve_project_evidence", "scan_project_evidence")
          \/ Skips("retrieve_project_evidence", "scan_project_evidence")
          \/ Downgrades("retrieve_project_evidence", "scan_project_evidence")
      BY <1>1, <2>2 DEF RetrieveEvidence
    <3> QED
      BY <3>1, CompletesWalks DEF Leads, Kinds
  <2> QED
    BY <2>1, <2>2
<1>2. CASE ScanEvidence
  <2>1. CASE StepFails("scan_project_evidence") \/ Blocked("scan_project_evidence")
    <3>1. pc \in Breakable /\ Front(pc) = 6 - 1
      BY <1>2, FrontOf DEF ScanEvidence, Breakable
    <3> QED
      BY <2>1, <3>1, <1>0, Named, FailsBreaks DEF Kinds
  <2>2. CASE ~(StepFails("scan_project_evidence") \/ Blocked("scan_project_evidence"))
    <3>1. \/ Completes("scan_project_evidence", "build_safe_prompt")
          \/ Skips("scan_project_evidence", "build_safe_prompt")
          \/ Downgrades("scan_project_evidence", "build_safe_prompt")
      BY <1>2, <2>2 DEF ScanEvidence
    <3> QED
      BY <3>1, CompletesWalks DEF Leads, Kinds
  <2> QED
    BY <2>1, <2>2
<1>3. CASE BuildSafePrompt
  <2>1. CASE StepFails("build_safe_prompt") \/ Blocked("build_safe_prompt")
    <3>1. pc \in Breakable /\ Front(pc) = 7 - 1
      BY <1>3, FrontOf DEF BuildSafePrompt, Breakable
    <3> QED
      BY <2>1, <3>1, <1>0, Named, FailsBreaks DEF Kinds
  <2>2. CASE ~(StepFails("build_safe_prompt") \/ Blocked("build_safe_prompt"))
    <3>1. \/ Completes("build_safe_prompt", "run_llm_analysis")
          \/ Skips("build_safe_prompt", "run_llm_analysis")
          \/ Downgrades("build_safe_prompt", "run_llm_analysis")
      BY <1>3, <2>2 DEF BuildSafePrompt
    <3> QED
      BY <3>1, CompletesWalks DEF Leads, Kinds
  <2> QED
    BY <2>1, <2>2
<1> QED
  BY <1>1, <1>2, <1>3

\* The provider phase
LEMMA PhaseKinds ==
  ASSUME \/ StartPhase \/ CallMock \/ NoCall \/ CallIsCut \/ CallAnswers \/ CallFails
         \/ ParseOutput \/ RepairAnswers \/ DeadlineCheck \/ ScanOutput
  PROVE  Kinds
<1>0. {9, 10} \subseteq Places
  BY DEF Places, Last
<1>1. CASE StartPhase
  BY <1>1 DEF StartPhase, Kinds, Fallback, EntersPhase
<1>2. CASE CallMock \/ CallAnswers
  BY <1>2 DEF CallMock, CallAnswers, Kinds, Content
<1>3. CASE NoCall \/ CallIsCut \/ CallFails
  BY <1>3 DEF NoCall, CallIsCut, CallFails, Waiting, Kinds, Fallback
<1>4. CASE ParseOutput
  <2>1. PICK r \in Response :
          /\ MayRespond(r) /\ pc = "parse_model_json"
          /\ \/ Accept(r, FALSE)
             \/ r.json = "too_deep" /\ SelectFallback /\ UNCHANGED phase
             \/ /\ ~Usable(r) /\ r.json # "too_deep" /\ pc' = "repair"
                /\ UNCHANGED <<req, steps, warned, clock, outcome, stored, told>>
    BY <1>4 DEF ParseOutput
  <2>2. CASE Accept(r, FALSE)
    BY <2>1, <2>2 DEF Kinds, Accepted
  <2>3. CASE SelectFallback /\ UNCHANGED phase
    BY <2>1, <2>3 DEF Kinds, Fallback
  <2>4. CASE /\ ~Usable(r) /\ pc' = "repair"
             /\ UNCHANGED <<req, steps, warned, clock, outcome, stored, told>>
    <3>1. req.provider # "mock"
      BY <2>1, <2>4 DEF MayRespond, Usable, Parses
    <3> QED
      BY <2>1, <2>4, <3>1 DEF Kinds, NeedsRepair
  <2> QED
    BY <2>1, <2>2, <2>3, <2>4
<1>5. CASE RepairAnswers
  <2>1. pc \in Breakable /\ Front(pc) = 10 - 1 /\ pc = "repairing"
    BY <1>5, FrontOf DEF RepairAnswers, Breakable
  <2>2. CASE Blocked("parse_model_json")
    BY <2>1, <2>2, <1>0, Named, FailsBreaks DEF Kinds
  <2>3. CASE \E r \in Response : Accept(r, TRUE)
    BY <2>1, <2>3 DEF Kinds, Accepted
  <2> QED
    BY <1>5, <2>2, <2>3 DEF RepairAnswers
<1>6. CASE DeadlineCheck
  BY <1>6 DEF DeadlineCheck, Kinds, Fallback, InTime
<1>7. CASE ScanOutput
  <2>1. CASE StepFails("scan_llm_output") \/ Blocked("scan_llm_output")
    <3>1. pc \in Breakable /\ Front(pc) = 9 - 1
      BY <1>7, FrontOf DEF ScanOutput, Breakable
    <3> QED
      BY <2>1, <3>1, <1>0, Named, FailsBreaks DEF Kinds
  <2>2. CASE ~(StepFails("scan_llm_output") \/ Blocked("scan_llm_output"))
    <3>1. \/ Completes("scan_llm_output", "parse_model_json")
          \/ Skips("scan_llm_output", "parse_model_json")
          \/ Downgrades("scan_llm_output", "parse_model_json")
      BY <1>7, <2>2 DEF ScanOutput
    <3> QED
      BY <3>1, CompletesWalks DEF Leads, Kinds
  <2> QED
    BY <2>1, <2>2
<1> QED
  BY <1>1, <1>2, <1>3, <1>4, <1>5, <1>6, <1>7

\* Refining, storing and delivering the result
LEMMA DeliveringKinds ==
  ASSUME \/ ValidateReferences \/ ReconcileEvidence \/ RecommendNextAction
         \/ ScanFinalOutput \/ SaveApplication \/ FinalizeResult
  PROVE  Kinds
<1>0. {12, 13, 14, 15, 16, 17} \subseteq Places
  BY DEF Places, Last
<1>1. CASE ValidateReferences
  <2>1. CASE StepFails("validate_evidence_references") \/ Blocked("validate_evidence_references")
    <3>1. pc \in Breakable /\ Front(pc) = 12 - 1
      BY <1>1, FrontOf DEF ValidateReferences, Breakable
    <3> QED
      BY <2>1, <3>1, <1>0, Named, FailsBreaks DEF Kinds
  <2>2. CASE ~(StepFails("validate_evidence_references") \/ Blocked("validate_evidence_references"))
    <3>1. \/ Completes("validate_evidence_references", "reconcile_evidence")
          \/ Skips("validate_evidence_references", "reconcile_evidence")
          \/ Downgrades("validate_evidence_references", "reconcile_evidence")
      BY <1>1, <2>2 DEF ValidateReferences
    <3> QED
      BY <3>1, CompletesWalks DEF Leads, Kinds
  <2> QED
    BY <2>1, <2>2
<1>2. CASE ReconcileEvidence
  <2>1. CASE StepFails("reconcile_evidence") \/ Blocked("reconcile_evidence")
    <3>1. pc \in Breakable /\ Front(pc) = 13 - 1
      BY <1>2, FrontOf DEF ReconcileEvidence, Breakable
    <3> QED
      BY <2>1, <3>1, <1>0, Named, FailsBreaks DEF Kinds
  <2>2. CASE ~(StepFails("reconcile_evidence") \/ Blocked("reconcile_evidence"))
    <3>1. \/ Completes("reconcile_evidence", "recommend_next_action")
          \/ Skips("reconcile_evidence", "recommend_next_action")
          \/ Downgrades("reconcile_evidence", "recommend_next_action")
      BY <1>2, <2>2 DEF ReconcileEvidence
    <3> QED
      BY <3>1, CompletesWalks DEF Leads, Kinds
  <2> QED
    BY <2>1, <2>2
<1>3. CASE RecommendNextAction
  <2>1. CASE StepFails("recommend_next_action") \/ Blocked("recommend_next_action")
    <3>1. pc \in Breakable /\ Front(pc) = 14 - 1
      BY <1>3, FrontOf DEF RecommendNextAction, Breakable
    <3> QED
      BY <2>1, <3>1, <1>0, Named, FailsBreaks DEF Kinds
  <2>2. CASE ~(StepFails("recommend_next_action") \/ Blocked("recommend_next_action"))
    <3>1. \/ Completes("recommend_next_action", "final_output_scan")
          \/ Skips("recommend_next_action", "final_output_scan")
          \/ Downgrades("recommend_next_action", "final_output_scan")
      BY <1>3, <2>2 DEF RecommendNextAction
    <3> QED
      BY <3>1, CompletesWalks DEF Leads, Kinds
  <2> QED
    BY <2>1, <2>2
<1>4. CASE ScanFinalOutput
  <2>1. CASE StepFails("final_output_scan") \/ Blocked("final_output_scan")
    <3>1. pc \in Breakable /\ Front(pc) = 15 - 1
      BY <1>4, FrontOf DEF ScanFinalOutput, Breakable
    <3> QED
      BY <2>1, <3>1, <1>0, Named, FailsBreaks DEF Kinds
  <2>2. CASE ~(StepFails("final_output_scan") \/ Blocked("final_output_scan"))
    <3>1. \/ Completes("final_output_scan", "save_application")
          \/ Skips("final_output_scan", "save_application")
          \/ Downgrades("final_output_scan", "save_application")
      BY <1>4, <2>2 DEF ScanFinalOutput
    <3> QED
      BY <3>1, CompletesWalks DEF Leads, Kinds
  <2> QED
    BY <2>1, <2>2
<1>5. CASE SaveApplication
  <2>1. CASE StepFails("save_application") \/ Blocked("save_application")
    <3>1. pc \in Breakable /\ Front(pc) = 16 - 1
      BY <1>5, FrontOf DEF SaveApplication, Breakable
    <3> QED
      BY <2>1, <3>1, <1>0, Named, FailsBreaks DEF Kinds
  <2>2. CASE Completes("save_application", "finalize_result")
               \/ Skips("save_application", "finalize_result")
    BY <2>2, CompletesWalks DEF Leads, Kinds
  <2>3. CASE /\ ~req.keyed /\ history' = history + 1
             /\ pc' = "finalize_result" /\ Finish("save_application", "completed")
             /\ UNCHANGED <<req, warned, clock, outcome, row, told>>
    <3>1. Walks("save_application", "finalize_result", "completed")
      BY <1>5, <2>3 DEF SaveApplication, Walks, Leads, outcome
    <3> QED
      BY <3>1 DEF Kinds, Closed
  <2> QED
    BY <1>5, <2>1, <2>2, <2>3 DEF SaveApplication
<1>6. CASE FinalizeResult
  <2>1. CASE StepFails("finalize_result") \/ Blocked("finalize_result")
    <3>1. pc \in Breakable /\ Front(pc) = 17 - 1
      BY <1>6, FrontOf DEF FinalizeResult, Breakable
    <3> QED
      BY <2>1, <3>1, <1>0, Named, FailsBreaks DEF Kinds
  <2>2. CASE ~(StepFails("finalize_result") \/ Blocked("finalize_result"))
    <3>1. \/ Completes("finalize_result", "settle")
          \/ Skips("finalize_result", "settle")
          \/ Downgrades("finalize_result", "settle")
      BY <1>6, <2>2 DEF FinalizeResult
    <3> QED
      BY <3>1, CompletesWalks DEF Leads, Kinds
  <2> QED
    BY <2>1, <2>2
<1> QED
  BY <1>1, <1>2, <1>3, <1>4, <1>5, <1>6

\* Every step is of one of the kinds.
LEMMA StepKinds == [Next]_vars => Kinds \/ UNCHANGED vars
<1> SUFFICES ASSUME Next PROVE Kinds
  OBVIOUS
<1>1. CASE Handler
  BY <1>1, ReadingKinds, PreparingKinds, PhaseKinds, DeliveringKinds DEF Handler, Kinds
<1>2. CASE Provider
  BY <1>2, PhaseKinds DEF Provider, Kinds
<1>3. CASE LedgerRefuses \/ TimePasses \/ Crash
  BY <1>3 DEF Kinds
<1> QED
  BY <1>1, <1>2, <1>3 DEF Next

-----------------------------------------------------------------------------
(* The inductive invariant *)

Unclaimed == {"validate_input", "parse_resume", "acquire_job_description", "claim"}
Unbound == Unclaimed \cup {"scan_untrusted_input", "normalize"}
Unstarted == Unbound \cup {"retrieve_project_evidence", "scan_project_evidence",
                           "build_safe_prompt", "run_llm_analysis", "start"}
Calling == {"attempt", "calling", "backoff"}
Reading == {"scan_llm_output", "parse_model_json", "repair", "repair_call"}
Delivering == {"deadline_check", "validate_evidence_references", "reconcile_evidence",
               "recommend_next_action", "final_output_scan", "save_application",
               "finalize_result", "settle", "respond"}
Over == {"error", "answered", "dead"}

\* An error has a failed step and was perhaps observed, or nothing was done about it.
Explained(st) ==
  \/ observed = 0 /\ \E n \in 0 .. Last : SettledTo(st, n)
  \/ observed \in 0 .. 1 /\ \E n \in Places : FailedAt(st, n)

\* The audit trail follows the handler.
Audit ==
  /\ pc \notin Over => SettledTo(steps, Front(pc)) /\ observed = 0
  /\ pc = "error" \/ answer = "error" => Explained(steps)
  /\ answer = "ok" => SettledTo(steps, Last) /\ observed \in 0 .. 1
  /\ answer = "replay" => observed = 0
  /\ pc # "answered" => answer = "none"
  /\ pc = "claim" => steps["acquire_job_description"] = "completed"
  /\ pc \in Delivering \/ answer = "ok" => (result = "complete" \/ warned)

\* Waiting ends at the deadline, or when its transport is cut, and work has its share.
Timing ==
  /\ phase \in 0 .. (SafetyDeadline - Reserve) /\ pc # "dead"
       => now <= SafetyDeadline - Reserve + Overrun + worked
  /\ pc = "backoff" => wake <= Deadline

\* What was paid for, by where the handler is
Paying ==
  /\ pc \in Unstarted => calls = {}
  /\ pc \in {"attempt", "backoff"} => \A c \in calls : c.kind = "primary"
  /\ pc = "calling" => \E c \in calls : c.kind = "primary"
  /\ pc \in {"calling"} \cup Reading => \A c \in calls : c.kind # "repair"
  /\ pc \in {"repair", "repair_call"} => calls # {}
  /\ pc \in {"scan_llm_output", "parse_model_json"} => req.provider = "mock" \/ calls # {}
  /\ req.keyed /\ pc \in Calling \cup Reading => row.started
  /\ CallsCovered

NoRow == [status |-> "none", started |-> FALSE, bound |-> "none"]

\* The row of the key, by where the handler is
Booking ==
  /\ ~req.keyed => row = NoRow /\ pc # "claim"
  /\ ~req.keyed /\ pc \notin {"finalize_result", "settle", "respond"} \cup Over => history = 0
  /\ req.keyed /\ pc \in Unclaimed => row = NoRow
  /\ req.keyed /\ pc \in Unbound => row.bound = "none"
  /\ req.keyed /\ pc \in Unstarted => ~row.started
  /\ req.keyed /\ pc \notin Unbound \cup Over => row.bound # "none"
  /\ req.keyed /\ pc \notin Unclaimed \cup Over \cup {"respond"} => row.status = "processing"
  /\ req.keyed /\ pc \notin {"respond", "answered", "dead"} => history = 0
  /\ req.keyed /\ (pc = "respond" \/ answer = "ok")
       => row.status = "completed" /\ (history = 1 <=> req.save)
  /\ req.keyed /\ pc = "error" => row.status \in {"none", "processing"}
  /\ req.keyed /\ row.status = "none" => row = NoRow
  /\ AnswerMatchesLedger

AttemptInv == TypeOK /\ Audit /\ Timing /\ Paying /\ Booking

-----------------------------------------------------------------------------
(* The audit trail follows the handler *)

LEMMA LeadsOn ==
  ASSUME NEW k, NEW next, Leads(k, next)
  PROVE  /\ \E n \in Places : k = StepOrder[n] /\ Front(k) = n - 1 /\ Front(next) = n
         /\ k \notin Over /\ next \notin Over
         /\ next \in Delivering => k \in Delivering
<1>1. /\ k \notin Over /\ next \notin Over
      /\ next \in Delivering => k \in Delivering
  BY DEF Leads, Over, Delivering
<1>2. \E n \in Places : k = StepOrder[n] /\ Front(k) = n - 1 /\ Front(next) = n
  <2>1. \E n \in {1, 2, 3, 4, 5, 6, 7, 9, 12, 13, 14, 15, 16, 17} :
          k = StepOrder[n] /\ Front(k) = n - 1 /\ Front(next) = n
    BY Named, FrontOf DEF Leads
  <2> QED
    BY <2>1 DEF Places, Last
<1> QED
  BY <1>1, <1>2

LEMMA AuditWalks ==
  ASSUME TypeOK, Audit, NEW k, NEW next, NEW status \in Closed, Walks(k, next, status)
  PROVE  steps' \in [Steps -> StepStatus] /\ Audit'
<1>1. PICK n \in Places : k = StepOrder[n] /\ Front(k) = n - 1 /\ Front(next) = n
  BY LeadsOn DEF Walks
<1>2. /\ pc = k /\ pc' = next /\ pc \notin Over /\ pc' \notin Over
      /\ pc' \in Delivering => pc \in Delivering
  BY LeadsOn DEF Walks
<1>3. SettledTo(steps, n - 1) /\ observed = 0 /\ steps \in [Steps -> StepStatus]
  BY <1>1, <1>2 DEF Audit, TypeOK, StepStatus
<1>4. steps' \in [Steps -> StepStatus] /\ SettledTo(steps', n)
  BY <1>1, <1>3, Advances DEF Walks, Finish
<1>5. answer = "none" /\ answer' = "none" /\ observed' = 0
  BY <1>2, <1>3 DEF Audit, Walks, told, Over
<1>6. ASSUME pc' \in Delivering PROVE result' = "complete" \/ warned'
  <2>1. result = "complete" \/ warned
    BY <1>2, <1>6 DEF Audit
  <2>2. (warned' = warned \/ warned' = TRUE)
        /\ (result' = result \/ (result' = "partial" /\ warned' = TRUE))
    BY DEF Walks
  <2>3. CASE warned' = TRUE
    BY <2>3
  <2>4. CASE warned' = warned /\ result' = result
    BY <2>1, <2>4
  <2> QED
    BY <2>2, <2>3, <2>4
<1>7. pc' = "claim" => steps'["acquire_job_description"] = "completed"
  <2>1. pc' = "claim" => k = "acquire_job_description"
    BY DEF Walks, Leads
  <2>2. 3 \in Places /\ StepOrder[3] = "acquire_job_description"
    BY Named DEF Places, Last
  <2> QED
    BY <1>3, <2>1, <2>2, StepsArePlaces DEF Walks, Finish
<1> QED
  BY <1>1, <1>2, <1>4, <1>5, <1>6, <1>7 DEF Audit, Over

LEMMA AuditBreaks ==
  ASSUME TypeOK, Audit, NEW n \in Places, Breaks(n)
  PROVE  steps' \in [Steps -> StepStatus] /\ Audit'
<1>1. pc \notin Over /\ pc' = "error"
  BY DEF Breaks, Breakable, Over, StepFails, Blocked
<1>2. SettledTo(steps, Front(pc)) /\ observed = 0 /\ answer = "none"
      /\ steps \in [Steps -> StepStatus]
  BY <1>1 DEF Audit, TypeOK, StepStatus, Over
<1>3. PICK m \in {n - 1, n} : SettledTo(steps, m)
  BY <1>2 DEF Breaks
<1>4. steps' \in [Steps -> StepStatus] /\ FailedAt(steps', n)
  BY <1>2, <1>3, Fails, Blocks DEF Breaks, StepFails, Blocked, Finish
<1>5. observed' \in 0 .. 1 /\ answer' = "none"
  BY <1>2 DEF Breaks, StepFails, Blocked, Observes
<1> QED
  BY <1>1, <1>4, <1>5 DEF Audit, Explained, Over, Delivering

\* What puts the handler in front of the references with all steps up to them settled
LEMMA AuditReady ==
  ASSUME TypeOK, Audit, Fallback \/ Accepted
  PROVE  steps' \in [Steps -> StepStatus] /\ Audit'
<1>1. pc \notin Over /\ Front(pc) \in 7 .. 11 /\ (Accepted => Front(pc) = 9)
  BY FrontOf DEF Fallback, Accepted, Over
<1>2. SettledTo(steps, Front(pc)) /\ observed = 0 /\ answer = "none"
      /\ steps \in [Steps -> StepStatus]
  BY <1>1 DEF Audit, TypeOK, StepStatus, Over
<1>3. /\ steps' \in [Steps -> StepStatus] /\ SettledTo(steps', 11)
      /\ pc' \in {"deadline_check", "validate_evidence_references"}
      /\ observed' = 0 /\ answer' = "none"
      /\ result' = "complete" \/ warned'
  <2>1. CASE Fallback
    BY <1>1, <1>2, <2>1, FallsBack DEF Fallback, SelectFallback, told
  <2>2. CASE Accepted
    BY <1>1, <1>2, <2>2, Accepts DEF Accepted, Accept, told
  <2> QED
    BY <2>1, <2>2
<1>4. Front(pc') = 11 /\ pc' \notin Over
  BY <1>3, FrontOf DEF Over
<1> QED
  BY <1>3, <1>4 DEF Audit, Over

\* Between two steps, where the trail does not change
LEMMA AuditBetween ==
  ASSUME TypeOK, Audit, UNCHANGED <<steps, observed, answer>>,
         pc \notin Over, pc' \notin Over, Front(pc') = Front(pc), pc' # "claim",
         pc' \in Delivering => pc \in Delivering /\ result' = result /\ warned' = warned
  PROVE  steps' \in [Steps -> StepStatus] /\ Audit'
BY DEF Audit, TypeOK, StepStatus, Over

LEMMA AuditStep ==
  ASSUME TypeOK, Audit, [Next]_vars
  PROVE  steps' \in [Steps -> StepStatus] /\ Audit'
<1>1. CASE UNCHANGED vars
  BY <1>1 DEF vars, Audit, TypeOK, StepStatus, Explained
<1>2. CASE \E k, next, status : status \in Closed /\ Walks(k, next, status)
  BY <1>2, AuditWalks
<1>3. CASE \E n \in Places : Breaks(n)
  BY <1>3, AuditBreaks
<1>4. CASE Fallback \/ Accepted
  BY <1>4, AuditReady
<1>5. CASE Content
  <2>1. pc \notin Over /\ Front(pc) = 8 - 1 /\ pc' = "scan_llm_output" /\ Front(pc') = 8
    BY <1>5, FrontOf DEF Content, Over
  <2>2. 8 \in Places /\ StepOrder[8] = "run_llm_analysis" /\ "completed" \in Closed
    BY Named DEF Places, Last, Closed
  <2>3. SettledTo(steps, 8 - 1) /\ observed = 0 /\ answer = "none"
        /\ steps \in [Steps -> StepStatus]
    BY <2>1 DEF Audit, TypeOK, StepStatus, Over
  <2>4. steps' \in [Steps -> StepStatus] /\ SettledTo(steps', 8)
    BY <1>5, <2>2, <2>3, Advances DEF Content, Finish
  <2> QED
    BY <1>5, <2>1, <2>3, <2>4 DEF Content, Audit, Over, Delivering, told
<1>6. CASE EntersPhase \/ NeedsRepair \/ InTime \/ ClaimWon \/ Normalize \/ ProviderStarted
  <2>1. /\ pc \notin Over /\ pc' \notin Over /\ Front(pc') = Front(pc) /\ pc' # "claim"
        /\ UNCHANGED <<steps, observed, answer>>
        /\ pc' \in Delivering => pc \in Delivering /\ result' = result /\ warned' = warned
    BY <1>6, FrontOf
       DEF EntersPhase, NeedsRepair, InTime, ClaimWon, Normalize, ProviderStarted, Over,
           Delivering, told, outcome
  <2> QED
    BY <2>1, AuditBetween
<1>7. CASE CallPrimary \/ CallRetries \/ BackoffEnds \/ CallRepair
  <2>1. /\ pc \notin Over /\ pc' \notin Over /\ Front(pc') = Front(pc) /\ pc' # "claim"
        /\ UNCHANGED <<steps, observed, answer>>
        /\ pc' \in Delivering => pc \in Delivering /\ result' = result /\ warned' = warned
    BY <1>7, FrontOf
       DEF CallPrimary, CallRetries, BackoffEnds, CallRepair, Over, Delivering, told
  <2> QED
    BY <2>1, AuditBetween
<1>8. CASE Settle
  <2>1. /\ pc \notin Over /\ pc' \notin Over /\ Front(pc') = Front(pc) /\ pc' # "claim"
        /\ UNCHANGED <<steps, observed, answer>>
        /\ pc' \in Delivering => pc \in Delivering /\ result' = result /\ warned' = warned
    BY <1>8, FrontOf DEF Settle, Over, Delivering, told, outcome
  <2> QED
    BY <2>1, AuditBetween
<1>9. CASE UpdateSteps /\ pc' = "respond"
  <2>1. /\ pc \notin Over /\ pc' \notin Over /\ Front(pc') = Front(pc) /\ pc' # "claim"
        /\ UNCHANGED <<steps, observed, answer>>
        /\ pc' \in Delivering => pc \in Delivering /\ result' = result /\ warned' = warned
    BY <1>9, FrontOf DEF UpdateSteps, Over, Delivering, told, outcome
  <2> QED
    BY <2>1, AuditBetween
<1>10. CASE LedgerRefuses \/ (UpdateSteps /\ pc' = "error")
  <2>1. /\ pc \notin Over /\ pc' = "error" /\ UNCHANGED <<steps, observed, answer>>
        /\ Front(pc) \in 0 .. Last
    BY <1>10, FrontOf DEF LedgerRefuses, UpdateSteps, Over, told, Last
  <2>2. SettledTo(steps, Front(pc)) /\ observed = 0 /\ answer = "none"
    BY <2>1 DEF Audit, Over
  <2>3. Explained(steps)'
    BY <2>1, <2>2 DEF Explained
  <2> QED
    BY <2>1, <2>2, <2>3 DEF Audit, TypeOK, StepStatus, Over, Delivering
<1>11. CASE Replays
  BY <1>11 DEF Replays, Audit, TypeOK, StepStatus, Over, Delivering
<1>12. CASE Respond
  <2>1. pc = "respond" /\ Front(pc) = Last /\ pc \notin Over /\ pc \in Delivering
    BY <1>12, FrontOf DEF Respond, Last, Over, Delivering
  <2> QED
    BY <1>12, <2>1 DEF Respond, Observes, Audit, TypeOK, StepStatus, Over, Delivering, outcome
<1>13. CASE AnswerError
  <2>1. Explained(steps) /\ Explained(steps)'
    BY <1>13 DEF AnswerError, Audit, Explained
  <2> QED
    BY <1>13, <2>1 DEF AnswerError, Audit, TypeOK, StepStatus, Over, Delivering
<1>14. CASE TimePasses
  BY <1>14 DEF TimePasses, Audit, TypeOK, StepStatus, Explained, told, outcome
<1>15. CASE Crash
  BY <1>15 DEF Crash, Gone, Audit, TypeOK, StepStatus, Over, Delivering, told
<1> QED
  BY <1>1, <1>2, <1>3, <1>4, <1>5, <1>6, <1>7, <1>8, <1>9, <1>10, <1>11, <1>12, <1>13, <1>14,
     <1>15, StepKinds DEF Kinds, UpdateSteps

-----------------------------------------------------------------------------
(* The clock *)

Clocked ==
  /\ now \in 0 .. Horizon /\ phase \in -1 .. Horizon
  /\ worked \in 0 .. LocalWork /\ wake \in 0 .. (Horizon + Backoff)

LEMMA TimeTypes ==
  /\ SafetyDeadline \in Nat /\ PhaseLimit \in Nat /\ Reserve \in Nat /\ RetryReserve \in Nat
  /\ RepairReserve \in Nat /\ MinBudget \in Nat /\ CallLimit \in Nat /\ Backoff \in Nat
  /\ Overrun \in Nat /\ LocalWork \in Nat /\ Horizon \in Nat
  /\ MinBudget > 0 /\ LocalWork + Overrun <= Reserve /\ Reserve <= SafetyDeadline
BY TimeAssumption

\* The deadline keeps the reserve.
LEMMA DeadlineType ==
  ASSUME phase \in Int
  PROVE  Deadline \in Int /\ Deadline <= SafetyDeadline - Reserve
BY TimeTypes DEF Deadline, Least

\* Most steps take no time and wait for nothing.
LEMMA ClockStill ==
  ASSUME Kinds, ~Fallback, ~EntersPhase, ~CallRetries, ~TimePasses, ~Crash
  PROVE  UNCHANGED clock /\ pc' # "backoff" /\ pc # "dead"
<1>1. CASE \E k, next, status : status \in Closed /\ Walks(k, next, status)
  BY <1>1 DEF Walks, Leads
<1>2. CASE \E n \in Places : Breaks(n)
  BY <1>2 DEF Breaks, Breakable, StepFails, Blocked
<1>3. CASE Content \/ Accepted \/ NeedsRepair \/ InTime
  BY <1>3 DEF Content, Accepted, Accept, NeedsRepair, InTime
<1>4. CASE ClaimWon \/ Replays \/ Normalize \/ ProviderStarted
  BY <1>4 DEF ClaimWon, Replays, Normalize, ProviderStarted
<1>5. CASE CallPrimary \/ BackoffEnds \/ CallRepair
  BY <1>5 DEF CallPrimary, BackoffEnds, CallRepair
<1>6. CASE Settle \/ UpdateSteps \/ Respond \/ AnswerError \/ LedgerRefuses
  BY <1>6 DEF Settle, UpdateSteps, Respond, AnswerError, LedgerRefuses
<1> QED
  BY <1>1, <1>2, <1>3, <1>4, <1>5, <1>6 DEF Kinds

LEMMA TimingStill ==
  ASSUME Clocked, Timing, UNCHANGED clock, pc' # "backoff" \/ pc' = pc, pc # "dead" \/ pc' = pc
  PROVE  Clocked' /\ Timing'
BY DEF Clocked, Timing, clock, Deadline, Least

LEMMA TimingStep ==
  ASSUME TypeOK, Timing, [Next]_vars
  PROVE  Clocked' /\ Timing'
<1>0. Clocked /\ phase \in Int
  BY DEF TypeOK, Clocked
<1>1. CASE UNCHANGED vars
  BY <1>0, <1>1, TimingStill DEF vars, clock
<1>2. CASE Fallback \/ EntersPhase
  <2>1. /\ UNCHANGED <<now, worked, wake>> /\ pc' # "backoff" /\ pc # "dead"
        /\ phase' = now \/ phase' = phase
    BY <1>2 DEF Fallback, EntersPhase, SelectFallback
  <2>2. CASE phase' = phase
    BY <1>0, <2>1, <2>2, TimingStill DEF clock
  <2>3. CASE phase' = now
    <3>1. Clocked'
      BY <1>0, <2>1, <2>3, TimeTypes DEF Clocked
    <3>2. phase' \in 0 .. (SafetyDeadline - Reserve)
            => now' <= SafetyDeadline - Reserve + Overrun + worked'
      BY <1>0, <2>1, <2>3, TimeTypes DEF Clocked
    <3> QED
      BY <2>1, <3>1, <3>2 DEF Timing
  <2> QED
    BY <2>1, <2>2, <2>3
<1>3. CASE CallRetries
  <2>1. /\ pc = "calling" /\ pc' = "backoff" /\ UNCHANGED <<now, phase, worked>>
        /\ now < Deadline /\ wake' = now + Least(Backoff, Deadline - now)
    BY <1>0, <1>3, DeadlineType DEF CallRetries, Expired, Clocked
  <2>2. wake' <= Deadline /\ wake' \in 0 .. (Horizon + Backoff)
    BY <1>0, <2>1, DeadlineType, TimeTypes DEF Least, Clocked
  <2>3. Deadline' = Deadline
    BY <2>1 DEF Deadline
  <2> QED
    BY <1>0, <2>1, <2>2, <2>3 DEF Timing, Clocked
<1>4. CASE TimePasses
  <2>1. /\ pc' = pc /\ pc # "dead" /\ now < Horizon /\ now' = now + 1
        /\ UNCHANGED <<phase, wake>> /\ Deadline' = Deadline
    BY <1>4 DEF TimePasses, Gone, Deadline
  <2>2. \/ Waiting /\ now < Deadline + Overrun /\ worked' = worked
        \/ pc = "backoff" /\ now < wake /\ worked' = worked
        \/ phase = -1 /\ worked' = worked
        \/ worked < LocalWork /\ worked' = worked + 1
    BY <1>4 DEF TimePasses
  <2>3. Clocked'
    BY <1>0, <2>1, <2>2, TimeTypes DEF Clocked
  <2>4. ASSUME phase \in 0 .. (SafetyDeadline - Reserve)
        PROVE  now' <= SafetyDeadline - Reserve + Overrun + worked'
    BY <1>0, <2>1, <2>2, <2>4, DeadlineType, TimeTypes DEF Clocked, Timing
  <2> QED
    BY <2>1, <2>3, <2>4 DEF Timing
<1>5. CASE Crash
  BY <1>0, <1>5, TimeTypes DEF Crash, Clocked, Timing
<1> QED
  BY <1>0, <1>1, <1>2, <1>3, <1>4, <1>5, StepKinds, ClockStill, TimingStill

\* Whoever gets an answer whose provider phase began in time gets it in time.
LEMMA TimingAnswers == TypeOK /\ Timing => AnswerInTime
BY TimeTypes DEF TypeOK, Timing, AnswerInTime

-----------------------------------------------------------------------------
(* The calls that are paid for *)

LEMMA ReserveType == \A kind : ContinuationReserve(kind) \in Nat
BY TimeTypes DEF ContinuationReserve

\* What is covered leaves room for the reserves.
LEMMA CoveredLeavesRoom ==
  ASSUME NEW kind, Covered(kind), now \in Nat, phase \in Int
  PROVE  now + MinBudget + ContinuationReserve(kind) + Reserve <= Deadline
BY TimeTypes, ReserveType, DeadlineType DEF Covered, Budget, Least

\* A second call is made only if the first was the only one.
LEMMA RetryIsSecond ==
  ASSUME TypeOK, Paying, pc = "calling", Cardinality(Primaries) < 2
  PROVE  \A c \in calls : c.kind = "primary"
<1> SUFFICES ASSUME NEW d \in calls, d.kind # "primary" PROVE FALSE
  OBVIOUS
<1>1. PICK p \in calls : p.kind = "primary"
  BY DEF Paying
<1>2. d.kind = "retry"
  BY DEF TypeOK, Paying
<1>3. Primaries = {p, d}
  <2>1. \A c \in Primaries : c \in calls /\ c.kind \in {"primary", "retry"}
    BY DEF Primaries, TypeOK
  <2>2. \A c \in calls : (c.kind = "primary" => c = p) /\ (c.kind = "retry" => c = d)
    BY <1>1, <1>2 DEF Paying, CallsCovered
  <2>3. p \in Primaries /\ d \in Primaries
    BY <1>1, <1>2 DEF Primaries
  <2> QED
    BY <2>1, <2>2, <2>3
<1>4. p # d
  BY <1>1, <1>2
<1>5. Cardinality({p, d}) = 2
  <2>1. IsFiniteSet({p}) /\ Cardinality({p}) = 1
    BY FS_Singleton
  <2>2. Cardinality({p} \cup {d}) = Cardinality({p}) + 1
    BY <1>4, <2>1, FS_AddElement
  <2>3. {p} \cup {d} = {p, d}
    OBVIOUS
  <2> QED
    BY <2>1, <2>2, <2>3
<1> QED
  BY <1>3, <1>5

\* Nothing is paid for, and the deadline stays.
LEMMA CoveredStays ==
  ASSUME CallsCovered, calls' = calls, req' = req, phase' = phase \/ calls = {},
         row' = row \/ ~req.keyed \/ calls = {} \/ row'.started = TRUE \/ row'.started = row.started
  PROVE  CallsCovered'
BY DEF CallsCovered, Deadline, ContinuationReserve

LEMMA PayingUnpaid ==
  ASSUME Paying, calls' = calls, req' = req, CallsCovered',
         \/ pc' = pc /\ row' = row
         \/ pc' \in Unstarted /\ calls = {}
         \/ pc' \in Delivering \cup Over
  PROVE  Paying'
<1>1. CASE pc' = pc /\ row' = row
  BY <1>1 DEF Paying
<1>2. CASE pc' \in Unstarted /\ calls = {}
  BY <1>2 DEF Paying, Unstarted, Unbound, Unclaimed, Calling, Reading
<1>3. CASE pc' \in Delivering \cup Over
  BY <1>3 DEF Paying, Unstarted, Unbound, Unclaimed, Calling, Reading, Delivering, Over
<1> QED
  BY <1>1, <1>2, <1>3

LEMMA LeadsCalls ==
  ASSUME NEW k, NEW next, Leads(k, next)
  PROVE  \/ k \in Unstarted /\ next \in Unstarted
         \/ k = "scan_llm_output" /\ next = "parse_model_json"
         \/ next \in Delivering
BY DEF Leads, Unstarted, Unbound, Unclaimed, Delivering

LEMMA CallPays ==
  ASSUME TypeOK, Paying, CallPrimary
  PROVE  Paying'
<1> DEFINE new == [kind |-> NextKind, at |-> now]
<1>1. /\ pc = "attempt" /\ pc' = "calling" /\ calls' = calls \cup {new}
      /\ req' = req /\ row' = row /\ Deadline' = Deadline
  BY DEF CallPrimary, Pay, Deadline, stored, clock
<1>2. \A c \in calls : c.kind = "primary"
  BY <1>1 DEF Paying
<1>3. NextKind = IF calls = {} THEN "primary" ELSE "retry"
  <2>1. Primaries = calls
    BY <1>2 DEF Primaries
  <2> QED
    BY <2>1 DEF NextKind
<1>4. new.at + MinBudget + ContinuationReserve(new.kind) + Reserve <= Deadline
  BY CoveredLeavesRoom DEF CallPrimary, TypeOK
<1>5. new.kind = NextKind
  OBVIOUS
<1> HIDE DEF new
<1>6. CallsCovered'
  <2>1. \A c \in calls' :
          c.at + MinBudget + ContinuationReserve(c.kind) + Reserve <= Deadline'
    BY <1>1, <1>4 DEF Paying, CallsCovered
  <2>2. \A c, d \in calls' : c.kind = d.kind => c = d
    BY <1>1, <1>2, <1>3, <1>5 DEF Paying, CallsCovered
  <2>3. req.keyed => row.started
    BY <1>1 DEF Paying, Calling
  <2> QED
    BY <1>1, <2>1, <2>2, <2>3 DEF CallsCovered, ContinuationReserve
<1>7. \E c \in calls' : c.kind = "primary"
  BY <1>1, <1>2, <1>3, <1>5
<1>8. \A c \in calls' : c.kind # "repair"
  BY <1>1, <1>2, <1>3, <1>5
<1> QED
  BY <1>1, <1>6, <1>7, <1>8
     DEF Paying, Unstarted, Unbound, Unclaimed, Calling, Reading

LEMMA RepairPays ==
  ASSUME TypeOK, Paying, CallRepair
  PROVE  Paying'
<1> DEFINE new == [kind |-> "repair", at |-> now]
<1>1. /\ pc = "repair_call" /\ pc' = "repairing" /\ calls' = calls \cup {new}
      /\ req' = req /\ row' = row /\ Deadline' = Deadline
  BY DEF CallRepair, Pay, Deadline, stored, clock
<1>2. \A c \in calls : c.kind # "repair"
  BY <1>1 DEF Paying, Reading
<1>3. new.at + MinBudget + ContinuationReserve(new.kind) + Reserve <= Deadline
  BY CoveredLeavesRoom DEF CallRepair, TypeOK
<1>4. new.kind = "repair"
  OBVIOUS
<1> HIDE DEF new
<1>5. CallsCovered'
  <2>1. \A c \in calls' :
          c.at + MinBudget + ContinuationReserve(c.kind) + Reserve <= Deadline'
    BY <1>1, <1>3 DEF Paying, CallsCovered
  <2>2. \A c, d \in calls' : c.kind = d.kind => c = d
    BY <1>1, <1>2, <1>4 DEF Paying, CallsCovered
  <2>3. req.keyed => row.started
    BY <1>1 DEF Paying, Reading
  <2> QED
    BY <1>1, <2>1, <2>2, <2>3 DEF CallsCovered, ContinuationReserve
<1> QED
  BY <1>1, <1>5 DEF Paying, Unstarted, Unbound, Unclaimed, Calling, Reading

LEMMA PayingStep ==
  ASSUME TypeOK, Paying, [Next]_vars
  PROVE  Paying'
<1>1. CASE UNCHANGED vars
  <2>1. CallsCovered'
    BY <1>1, CoveredStays DEF vars, Paying
  <2> QED
    BY <1>1, <2>1, PayingUnpaid DEF vars
<1>2. CASE \E k, next, status : status \in Closed /\ Walks(k, next, status)
  <2>1. PICK k, next, status : Walks(k, next, status)
    BY <1>2
  <2>2. calls' = calls /\ req' = req /\ phase' = phase /\ row' = row /\ pc = k /\ pc' = next
    BY <2>1 DEF Walks, clock
  <2>3. CallsCovered'
    BY <2>2, CoveredStays DEF Paying
  <2>4. \/ pc \in Unstarted /\ pc' \in Unstarted
        \/ pc = "scan_llm_output" /\ pc' = "parse_model_json"
        \/ pc' \in Delivering
    BY <2>1, <2>2, LeadsCalls DEF Walks
  <2>5. CASE pc = "scan_llm_output" /\ pc' = "parse_model_json"
    BY <2>2, <2>3, <2>5 DEF Paying, Unstarted, Unbound, Unclaimed, Calling, Reading
  <2>6. CASE pc' \in Delivering
    BY <2>2, <2>3, <2>6, PayingUnpaid
  <2>7. CASE pc \in Unstarted /\ pc' \in Unstarted
    BY <2>2, <2>3, <2>7, PayingUnpaid DEF Paying
  <2> QED
    BY <2>4, <2>5, <2>6, <2>7
<1>3. CASE \E n \in Places : Breaks(n)
  <2>1. /\ calls' = calls /\ req' = req /\ phase' = phase /\ row' = row
        /\ pc' \in Over
    BY <1>3 DEF Breaks, StepFails, Blocked, clock, outcome, stored, Over
  <2>2. CallsCovered'
    BY <2>1, CoveredStays DEF Paying
  <2> QED
    BY <2>1, <2>2, PayingUnpaid
<1>4. CASE Fallback \/ Accepted \/ InTime
  <2>1. /\ calls' = calls /\ req' = req /\ row' = row /\ pc' \in Delivering
        /\ phase' = phase \/ pc = "run_llm_analysis"
    BY <1>4
       DEF Fallback, SelectFallback, Accepted, Accept, InTime, clock, outcome, stored, Delivering
  <2>2. phase' = phase \/ calls = {}
    BY <2>1 DEF Paying, Unstarted
  <2>3. CallsCovered'
    BY <2>1, <2>2, CoveredStays DEF Paying
  <2> QED
    BY <2>1, <2>3, PayingUnpaid
<1>5. CASE EntersPhase \/ ClaimWon \/ Normalize
  <2>1. calls' = calls /\ req' = req /\ pc \in Unstarted /\ pc' \in Unstarted
    BY <1>5
       DEF EntersPhase, ClaimWon, Normalize, clock, outcome, Unstarted, Unbound, Unclaimed
  <2>2. calls = {}
    BY <2>1 DEF Paying
  <2>3. CallsCovered'
    BY <2>1, <2>2, CoveredStays DEF Paying
  <2> QED
    BY <2>1, <2>2, <2>3, PayingUnpaid
<1>6. CASE Settle \/ UpdateSteps \/ Respond
  <2>1. /\ calls' = calls /\ req' = req /\ phase' = phase /\ pc' \in Delivering \cup Over
        /\ row' = row \/ row'.started = row.started
    BY <1>6
       DEF Settle, UpdateSteps, Respond, clock, outcome, stored, Delivering, Over, TypeOK, Row
  <2>2. CallsCovered'
    BY <2>1, CoveredStays DEF Paying
  <2> QED
    BY <2>1, <2>2, PayingUnpaid
<1>7. CASE Replays \/ AnswerError \/ LedgerRefuses \/ Crash
  <2>1. /\ calls' = calls /\ req' = req /\ phase' = phase /\ pc' \in Over
        /\ row' = row \/ row'.started = row.started
    BY <1>7
       DEF Replays, AnswerError, LedgerRefuses, Crash, clock, outcome, stored, Over, TypeOK, Row
  <2>2. CallsCovered'
    BY <2>1, CoveredStays DEF Paying
  <2> QED
    BY <2>1, <2>2, PayingUnpaid
<1>8. CASE Content \/ NeedsRepair \/ BackoffEnds \/ TimePasses \/ CallRetries
  <2>1. calls' = calls /\ req' = req /\ phase' = phase /\ row' = row
    BY <1>8
       DEF Content, NeedsRepair, BackoffEnds, TimePasses, CallRetries, clock, outcome, stored
  <2>2. CallsCovered'
    BY <2>1, CoveredStays DEF Paying
  <2>3. CASE Content
    BY <2>1, <2>2, <2>3
       DEF Content, Paying, Unstarted, Unbound, Unclaimed, Calling, Reading
  <2>4. CASE NeedsRepair
    BY <2>1, <2>2, <2>4
       DEF NeedsRepair, Paying, Unstarted, Unbound, Unclaimed, Calling, Reading
  <2>5. CASE BackoffEnds
    BY <2>1, <2>2, <2>5
       DEF BackoffEnds, Paying, Unstarted, Unbound, Unclaimed, Calling, Reading
  <2>6. CASE TimePasses
    BY <2>1, <2>2, <2>6, PayingUnpaid DEF TimePasses
  <2>7. CASE CallRetries
    <3>1. \A c \in calls : c.kind = "primary"
      BY <2>7, RetryIsSecond DEF CallRetries
    <3> QED
      BY <2>1, <2>2, <2>7, <3>1
         DEF CallRetries, Paying, Unstarted, Unbound, Unclaimed, Calling, Reading
  <2> QED
    BY <1>8, <2>3, <2>4, <2>5, <2>6, <2>7
<1>9. CASE ProviderStarted
  <2>1. /\ calls' = calls /\ req' = req /\ phase' = phase
        /\ req.keyed => row'.started = TRUE
        /\ ~req.keyed => row' = row
    BY <1>9 DEF ProviderStarted, clock, outcome, TypeOK, Row
  <2>2. CallsCovered'
    BY <2>1, CoveredStays DEF Paying
  <2> QED
    BY <1>9, <2>1, <2>2
       DEF ProviderStarted, Paying, Unstarted, Unbound, Unclaimed, Calling, Reading
<1> QED
  BY <1>1, <1>2, <1>3, <1>4, <1>5, <1>6, <1>7, <1>8, <1>9, CallPays, RepairPays, StepKinds
     DEF Kinds

-----------------------------------------------------------------------------
(* The row of the key *)

\* The handler goes on and the ledger does not notice.
LEMMA BookingQuiet ==
  ASSUME TypeOK, Booking, answer = "none", UNCHANGED <<req, row, history, answer>>,
         pc \notin Over \cup {"respond"}, pc' \notin Over \cup {"respond"},
         pc' \in Unclaimed => pc \in Unclaimed, pc' \in Unbound => pc \in Unbound,
         pc' \in Unstarted => pc \in Unstarted,
         req.keyed => (pc \in Unclaimed => pc' \in Unclaimed) /\ (pc \in Unbound => pc' \in Unbound),
         pc' = "claim" => req.keyed,
         pc \in {"finalize_result", "settle"} => pc' \in {"finalize_result", "settle"}
  PROVE  Booking'
<1>1. req.keyed => row.status \in {"none", "processing"} /\ history = 0
  BY DEF Booking, Over, Unclaimed, NoRow
<1>2. AnswerMatchesLedger'
  BY <1>1 DEF AnswerMatchesLedger
<1>3. CASE req.keyed
  BY <1>1, <1>2, <1>3 DEF Booking, Over
<1>4. CASE ~req.keyed
  BY <1>2, <1>4 DEF Booking, Over
<1> QED
  BY <1>3, <1>4

\* The handler stops, and the row stays as it is.
LEMMA BookingEnds ==
  ASSUME TypeOK, Booking, answer = "none", UNCHANGED <<req, row, history>>, calls' = calls,
         answer' \in {"none", "replay"},
         (pc' = "error" /\ pc \notin Over \cup {"respond"}) \/ pc' \in {"answered", "dead"}
  PROVE  Booking'
<1>1. AnswerMatchesLedger'
  BY DEF Booking, AnswerMatchesLedger
<1>2. pc' \in Over
  BY DEF Over
<1>3. req.keyed /\ pc' = "error" => row.status \in {"none", "processing"} /\ history = 0
  BY DEF Booking, Over, Unclaimed, NoRow
<1>4. CASE req.keyed
  BY <1>1, <1>2, <1>3, <1>4 DEF Booking, Over, Unclaimed, Unbound, Unstarted
<1>5. CASE ~req.keyed
  BY <1>1, <1>2, <1>5 DEF Booking, Over, Unclaimed, Unbound, Unstarted
<1> QED
  BY <1>4, <1>5

LEMMA LeadsBooks ==
  ASSUME NEW k, NEW next, Leads(k, next)
  PROVE  /\ k \notin Over \cup {"respond"} /\ next \notin Over \cup {"respond"}
         /\ (next \in Unclaimed => k \in Unclaimed) /\ (next \in Unbound => k \in Unbound)
         /\ next \in Unstarted => k \in Unstarted
         /\ req.keyed => /\ k \in Unclaimed => next \in Unclaimed
                         /\ k \in Unbound => next \in Unbound
         /\ next = "claim" => req.keyed
         /\ k \in {"finalize_result", "settle"} => next \in {"finalize_result", "settle"}
         /\ k = "save_application" => next = "finalize_result"
BY DEF Leads, Over, Unclaimed, Unbound, Unstarted

LEMMA BookingStep ==
  ASSUME TypeOK, Audit, Paying, Booking, [Next]_vars
  PROVE  Booking'
<1>0. /\ req.keyed \in BOOLEAN /\ req.save \in BOOLEAN
      /\ pc # "answered" => answer = "none"
  BY DEF TypeOK, Request, Audit
<1>1. CASE UNCHANGED vars
  BY <1>1 DEF vars, Booking, AnswerMatchesLedger
<1>2. CASE \E k, next, status : status \in Closed /\ Walks(k, next, status)
  <2>1. PICK k, next, status : Walks(k, next, status)
    BY <1>2
  <2>2. /\ req' = req /\ row' = row /\ answer' = answer /\ pc = k /\ pc' = next
        /\ pc # "answered"
    BY <2>1, LeadsBooks DEF Walks, told, Over
  <2>3. CASE history' = history
    BY <1>0, <2>1, <2>2, <2>3, LeadsBooks, BookingQuiet DEF Walks
  <2>4. CASE k = "save_application" /\ ~req.keyed
    <3>1. pc' = "finalize_result"
      BY <2>1, <2>2, <2>4, LeadsBooks DEF Walks
    <3> QED
      BY <2>2, <2>4, <3>1 DEF Booking, AnswerMatchesLedger
  <2> QED
    BY <2>1, <2>3, <2>4 DEF Walks
<1>3. CASE (\E n \in Places : Breaks(n)) \/ LedgerRefuses
  <2>1. /\ UNCHANGED <<req, row, history, answer>> /\ calls' = calls
        /\ pc' = "error" /\ pc \notin Over \cup {"respond"}
    BY <1>3
       DEF Breaks, Breakable, StepFails, Blocked, LedgerRefuses, clock, outcome, stored, told, Over
  <2> QED
    BY <1>0, <2>1, BookingEnds DEF Over
<1>4. CASE Replays \/ Crash
  <2>1. /\ UNCHANGED <<req, row, history>> /\ calls' = calls /\ pc # "answered"
        /\ answer' \in {answer, "replay"} /\ pc' \in {"answered", "dead"}
    BY <1>4 DEF Replays, Crash, Gone, outcome, stored, told
  <2> QED
    BY <1>0, <2>1, BookingEnds
<1>5. CASE UpdateSteps
  <2>1. /\ UNCHANGED <<req, row, history, answer>> /\ ~req.keyed
        /\ pc' \in {"respond", "error"}
    BY <1>5 DEF UpdateSteps, stored, told
  <2> QED
    BY <2>1 DEF Booking, AnswerMatchesLedger, Over
<1>6. CASE Fallback \/ Accepted \/ Content
  <2>1. /\ UNCHANGED <<req, row, history, answer>>
        /\ pc \notin Over \cup {"respond"} \cup Unbound
        /\ pc \notin {"finalize_result", "settle"}
        /\ pc' \in {"validate_evidence_references", "deadline_check", "scan_llm_output"}
    BY <1>6
       DEF Fallback, SelectFallback, Accepted, Accept, Content, stored, told, Over, Unbound,
           Unclaimed
  <2> QED
    BY <1>0, <2>1, BookingQuiet DEF Over, Unclaimed, Unbound, Unstarted
<1>7. CASE EntersPhase \/ NeedsRepair \/ InTime \/ BackoffEnds \/ CallRetries
  <2>1. /\ UNCHANGED <<req, row, history, answer>>
        /\ pc \notin Over \cup {"respond"} \cup Unbound
        /\ pc \notin {"finalize_result", "settle"}
        /\ \/ pc = "run_llm_analysis" /\ pc' = "start"
           \/ pc' \in {"repair", "validate_evidence_references", "attempt", "backoff"}
    BY <1>7
       DEF EntersPhase, NeedsRepair, InTime, BackoffEnds, CallRetries, stored, told, Over,
           Unbound, Unclaimed
  <2> QED
    BY <1>0, <2>1, BookingQuiet DEF Over, Unclaimed, Unbound, Unstarted
<1>8. CASE CallPrimary \/ CallRepair
  <2>1. /\ UNCHANGED <<req, row, history, answer>>
        /\ pc \in {"attempt", "repair_call"} /\ pc' \in {"calling", "repairing"}
    BY <1>8 DEF CallPrimary, CallRepair, stored, told
  <2> QED
    BY <1>0, <2>1, BookingQuiet DEF Over, Unclaimed, Unbound, Unstarted
<1>9. CASE TimePasses
  <2>1. UNCHANGED <<req, pc, row, history, answer, calls>>
    BY <1>9 DEF TimePasses, outcome, stored, told
  <2> QED
    BY <2>1 DEF Booking, AnswerMatchesLedger
<1>10. CASE ClaimWon
  <2>1. /\ UNCHANGED <<req, history, answer>> /\ pc = "claim" /\ pc' = "scan_untrusted_input"
        /\ row' = [row EXCEPT !.status = "processing"]
    BY <1>10 DEF ClaimWon, told
  <2>2. req.keyed /\ row = NoRow /\ history = 0 /\ answer = "none"
    BY <1>0, <2>1 DEF Booking, Unclaimed, Over
  <2>3. row'.status = "processing" /\ row'.started = FALSE /\ row'.bound = "none"
    BY <2>1, <2>2 DEF NoRow
  <2>4. AnswerMatchesLedger'
    BY <2>1, <2>2, <2>3 DEF AnswerMatchesLedger
  <2> QED
    BY <2>1, <2>2, <2>3, <2>4 DEF Booking, Unclaimed, Unbound, Unstarted, Over
<1>11. CASE Normalize
  <2>1. /\ UNCHANGED <<req, history, answer>> /\ pc = "normalize"
        /\ pc' = "retrieve_project_evidence"
        /\ ~req.keyed => row' = row
        /\ req.keyed => \E b \in Sources : row' = [row EXCEPT !.bound = b]
    BY <1>11 DEF Normalize, told, EffectiveSource, ShadowSource, Sources
  <2>2. req.keyed =>
          row.status = "processing" /\ row.started = FALSE /\ history = 0 /\ answer = "none"
    BY <1>0, <2>1 DEF Booking, Unclaimed, Unbound, Unstarted, Over, TypeOK, Row
  <2>3. req.keyed =>
          row'.status = "processing" /\ row'.started = FALSE /\ row'.bound # "none"
    BY <2>1, <2>2 DEF TypeOK, Row, Sources
  <2>4. AnswerMatchesLedger'
    BY <2>1, <2>2, <2>3 DEF AnswerMatchesLedger
  <2>5. CASE req.keyed
    BY <2>1, <2>2, <2>3, <2>4, <2>5 DEF Booking, Unclaimed, Unbound, Unstarted, Over
  <2>6. CASE ~req.keyed
    BY <2>1, <2>4, <2>6 DEF Booking, Unclaimed, Unbound, Unstarted, Over
  <2> QED
    BY <2>5, <2>6
<1>12. CASE ProviderStarted
  <2>1. /\ UNCHANGED <<req, history, answer>> /\ pc \in {"start", "repair"}
        /\ pc' \in {"attempt", "repair_call"}
        /\ row' = IF req.keyed THEN [row EXCEPT !.started = TRUE] ELSE row
    BY <1>12 DEF ProviderStarted, told
  <2>2. req.keyed =>
          row.status = "processing" /\ row.bound # "none" /\ history = 0 /\ answer = "none"
    BY <1>0, <2>1 DEF Booking, Unclaimed, Unbound, Unstarted, Over
  <2>3. req.keyed => row'.status = "processing" /\ row'.bound # "none"
    BY <2>1, <2>2 DEF TypeOK, Row
  <2>4. AnswerMatchesLedger'
    BY <2>1, <2>2, <2>3 DEF AnswerMatchesLedger
  <2>5. CASE req.keyed
    BY <2>1, <2>2, <2>3, <2>4, <2>5 DEF Booking, Unclaimed, Unbound, Unstarted, Over
  <2>6. CASE ~req.keyed
    BY <2>1, <2>4, <2>6 DEF Booking, Unclaimed, Unbound, Unstarted, Over
  <2> QED
    BY <2>5, <2>6
<1>13. CASE Settle
  <2>1. /\ UNCHANGED <<req, answer>> /\ req.keyed /\ pc = "settle" /\ pc' = "respond"
        /\ row' = [row EXCEPT !.status = "completed"]
        /\ history' = IF req.save THEN history + 1 ELSE history
    BY <1>13 DEF Settle, told
  <2>2. row.bound # "none" /\ history = 0 /\ answer = "none"
    BY <1>0, <2>1 DEF Booking, Unclaimed, Unbound, Unstarted, Over
  <2>3. row'.status = "completed" /\ row'.bound # "none" /\ (history' = 1 <=> req.save)
    BY <1>0, <2>1, <2>2 DEF TypeOK, Row
  <2>4. AnswerMatchesLedger'
    BY <2>1, <2>2, <2>3 DEF AnswerMatchesLedger
  <2> QED
    BY <2>1, <2>2, <2>3, <2>4 DEF Booking, Unclaimed, Unbound, Unstarted, Over
<1>14. CASE Respond
  <2>1. /\ UNCHANGED <<req, row, history, calls>> /\ pc = "respond" /\ pc' = "answered"
        /\ answer' = "ok"
    BY <1>14 DEF Respond, outcome, stored
  <2>2. AnswerMatchesLedger'
    BY <1>0, <2>1 DEF Booking, AnswerMatchesLedger
  <2> QED
    BY <2>1, <2>2 DEF Booking, Unclaimed, Unbound, Unstarted, Over
<1>15. CASE AnswerError
  <2>1. /\ UNCHANGED <<req, history, calls>> /\ pc = "error" /\ pc' = "answered"
        /\ answer' = "error" /\ answer = "none"
        /\ \/ row' = row
           \/ /\ row.status = "processing"
              /\ row' = [row EXCEPT !.status = IF row.started THEN "indeterminate" ELSE "failed"]
    BY <1>0, <1>15 DEF AnswerError, outcome
  <2>2. req.keyed => row.status \in {"none", "processing"} /\ history = 0
    BY <2>1 DEF Booking, Over, NoRow
  <2>3. ~req.keyed => row' = row
    BY <2>1 DEF Booking, NoRow
  <2>4. \/ row' = row
        \/ /\ row'.status = IF row.started THEN "indeterminate" ELSE "failed"
           /\ row'.started = row.started
    BY <2>1 DEF TypeOK, Row
  <2>5. req.keyed /\ calls # {} => row.started
    BY DEF Paying, CallsCovered
  <2>6. AnswerMatchesLedger'
    BY <2>1, <2>2, <2>4, <2>5 DEF AnswerMatchesLedger
  <2>7. CASE ~req.keyed
    BY <2>1, <2>3, <2>6, <2>7 DEF Booking, Unclaimed, Unbound, Unstarted, Over
  <2>8. CASE req.keyed /\ row' = row
    BY <2>1, <2>2, <2>6, <2>8 DEF Booking, Unclaimed, Unbound, Unstarted, Over
  <2>9. CASE req.keyed /\ row' # row
    <3>1. row'.status \in {"indeterminate", "failed"}
      BY <2>4, <2>9
    <3> QED
      BY <2>1, <2>2, <2>6, <2>9, <3>1 DEF Booking, Unclaimed, Unbound, Unstarted, Over
  <2> QED
    BY <2>7, <2>8, <2>9
<1> QED
  BY <1>1, <1>2, <1>3, <1>4, <1>5, <1>6, <1>7, <1>8, <1>9, <1>10, <1>11, <1>12, <1>13, <1>14,
     <1>15, StepKinds DEF Kinds

-----------------------------------------------------------------------------
(* Types, and the theorems *)

LEMMA StepNames ==
  {"validate_input", "parse_resume", "acquire_job_description", "scan_untrusted_input",
   "retrieve_project_evidence", "scan_project_evidence", "build_safe_prompt",
   "run_llm_analysis", "scan_llm_output", "parse_model_json", "validate_evidence_references",
   "reconcile_evidence", "recommend_next_action", "final_output_scan", "save_application",
   "finalize_result"} \subseteq Steps
<1>1. {1, 2, 3, 4, 5, 6, 7, 8, 9, 10, 12, 13, 14, 15, 16, 17} \subseteq Places
  BY DEF Places, Last
<1>2. \A i \in Places : StepOrder[i] \in Steps
  BY StepsArePlaces
<1> QED
  BY SMTT(40), <1>1, <1>2, Named

LEMMA TypeStep ==
  ASSUME TypeOK, Audit, Timing, Paying, Booking, [Next]_vars
  PROVE  TypeOK'
<1>1. Clocked' /\ steps' \in [Steps -> StepStatus]
  BY TimingStep, AuditStep
<1>2. pc' \in Steps \cup Between
  <2>1. CASE \E k, next, status : status \in Closed /\ Walks(k, next, status)
    BY <2>1, StepNames DEF Walks, Leads, Between
  <2>2. CASE (\E n \in Places : Breaks(n)) \/ Content \/ Accepted \/ EntersPhase
             \/ NeedsRepair \/ InTime \/ Fallback
    BY <2>2, StepNames
       DEF Breaks, StepFails, Blocked, Content, Accepted, Accept, EntersPhase, NeedsRepair,
           InTime, Fallback, SelectFallback, Between
  <2>3. CASE ClaimWon \/ Replays \/ Normalize \/ ProviderStarted
    BY <2>3, StepNames DEF ClaimWon, Replays, Normalize, ProviderStarted, Between
  <2>4. CASE CallPrimary \/ CallRetries \/ BackoffEnds \/ CallRepair
    BY <2>4 DEF CallPrimary, CallRetries, BackoffEnds, CallRepair, Between
  <2>5. CASE Settle \/ UpdateSteps \/ Respond \/ AnswerError \/ LedgerRefuses \/ Crash
    BY <2>5 DEF Settle, UpdateSteps, Respond, AnswerError, LedgerRefuses, Crash, Between
  <2>6. CASE TimePasses \/ UNCHANGED vars
    BY <2>6 DEF TimePasses, vars, TypeOK
  <2> QED
    BY <2>1, <2>2, <2>3, <2>4, <2>5, <2>6, StepKinds DEF Kinds
<1>3. warned' \in BOOLEAN
  <2>1. warned' \in {warned, TRUE, FALSE}
    BY StepKinds
       DEF Kinds, Walks, Breaks, StepFails, Blocked, Content, Accepted, Accept, EntersPhase,
           NeedsRepair, InTime, Fallback, SelectFallback, ClaimWon, Replays, Normalize, MayWarn,
           ProviderStarted, CallPrimary, CallRetries, BackoffEnds, CallRepair, Settle,
           UpdateSteps, Respond, AnswerError, LedgerRefuses, Crash, TimePasses, vars
  <2> QED
    BY <2>1 DEF TypeOK
<1>4. req' \in Request /\ result' \in {"none", "complete", "repaired", "partial", "fallback"}
  <2>1. req' = req
    BY StepKinds
       DEF Kinds, Walks, Breaks, StepFails, Blocked, Content, Accepted, Accept, EntersPhase,
           NeedsRepair, InTime, Fallback, SelectFallback, ClaimWon, Replays, Normalize,
           ProviderStarted, CallPrimary, CallRetries, BackoffEnds, CallRepair, Settle,
           UpdateSteps, Respond, AnswerError, LedgerRefuses, Crash, TimePasses, vars
  <2>2. CASE Accepted
    <3>1. PICK r \in Response, b \in BOOLEAN : Accept(r, b)
      BY <2>2 DEF Accepted
    <3>2. Status(r, b) \in {"complete", "repaired", "partial"}
      BY DEF Status
    <3>3. result' \in {"complete", "repaired", "partial"}
      BY <3>1, <3>2 DEF Accept, Grounded
    <3> QED
      BY <2>1, <3>3 DEF TypeOK
  <2>3. CASE ~Accepted
    <3>1. result' \in {result, "none", "partial", "fallback"}
      BY <2>3, StepKinds
         DEF Kinds, Walks, Breaks, StepFails, Blocked, Content, EntersPhase, NeedsRepair,
             InTime, Fallback, SelectFallback, ClaimWon, Replays, Normalize, ProviderStarted,
             CallPrimary, CallRetries, BackoffEnds, CallRepair, Settle, UpdateSteps, Respond,
             AnswerError, LedgerRefuses, Crash, TimePasses, vars, outcome
    <3> QED
      BY <2>1, <3>1 DEF TypeOK
  <2> QED
    BY <2>2, <2>3
<1>5. calls' \subseteq [kind : {"primary", "retry", "repair"}, at : 0 .. Horizon]
  <2>1. \/ calls' = calls
        \/ \E kind \in {"primary", "retry", "repair"} :
             calls' = calls \cup {[kind |-> kind, at |-> now]}
    BY StepKinds
       DEF Kinds, Walks, Breaks, StepFails, Blocked, Content, Accepted, Accept, EntersPhase,
           NeedsRepair, InTime, Fallback, SelectFallback, ClaimWon, Replays, Normalize,
           ProviderStarted, CallPrimary, CallRetries, BackoffEnds, CallRepair, Settle,
           UpdateSteps, Respond, AnswerError, LedgerRefuses, Crash, TimePasses, vars, outcome,
           Pay, NextKind
  <2> QED
    BY <2>1 DEF TypeOK
<1>6. row' \in Row
  <2>1. CASE ClaimWon \/ Settle \/ ProviderStarted
    BY <2>1 DEF ClaimWon, Settle, ProviderStarted, TypeOK, Row
  <2>2. CASE Normalize
    <3>1. row' = row \/ \E b \in Sources : row' = [row EXCEPT !.bound = b]
      BY <2>2 DEF Normalize, EffectiveSource, ShadowSource, Sources
    <3> QED
      BY <3>1 DEF TypeOK, Row
  <2>3. CASE AnswerError
    <3>1. row' = row \/ \E s \in {"indeterminate", "failed"} : row' = [row EXCEPT !.status = s]
      BY <2>3 DEF AnswerError
    <3> QED
      BY <3>1 DEF TypeOK, Row
  <2>4. CASE row' = row
    BY <2>4 DEF TypeOK
  <2>5. \/ row' = row \/ ClaimWon \/ Settle \/ ProviderStarted \/ Normalize \/ AnswerError
    BY StepKinds
       DEF Kinds, Walks, Breaks, StepFails, Blocked, Content, Accepted, Accept, EntersPhase,
           NeedsRepair, InTime, Fallback, SelectFallback, Replays, CallPrimary, CallRetries,
           BackoffEnds, CallRepair, UpdateSteps, Respond, LedgerRefuses, Crash, TimePasses,
           vars, stored
  <2> QED
    BY <2>1, <2>2, <2>3, <2>4, <2>5
<1>7. history' \in 0 .. 1
  <2>1. CASE Settle
    BY <2>1 DEF Settle, Booking, Over, TypeOK
  <2>2. CASE \E k, next, status : Walks(k, next, status)
    BY <2>2 DEF Walks, Booking, Over, TypeOK
  <2>3. \/ history' = history \/ Settle \/ \E k, next, status : Walks(k, next, status)
    BY StepKinds
       DEF Kinds, Breaks, StepFails, Blocked, Content, Accepted, Accept, EntersPhase,
           NeedsRepair, InTime, Fallback, SelectFallback, ClaimWon, Replays, Normalize,
           ProviderStarted, CallPrimary, CallRetries, BackoffEnds, CallRepair, UpdateSteps,
           Respond, AnswerError, LedgerRefuses, Crash, TimePasses, vars, stored
  <2> QED
    BY <2>1, <2>2, <2>3 DEF TypeOK
<1>8. observed' \in 0 .. 1
  <2>1. CASE Respond \/ \E n \in Places : Breaks(n)
    <3>1. pc \notin Over
      BY <2>1 DEF Respond, Breaks, Breakable, Over
    <3>2. observed = 0 /\ observed' \in {observed, observed + 1}
      BY <2>1, <3>1 DEF Audit, Respond, Breaks, StepFails, Blocked, Observes
    <3> QED
      BY <3>2
  <2>2. \/ observed' = observed \/ Respond \/ \E n \in Places : Breaks(n)
    BY StepKinds
       DEF Kinds, Walks, Content, Accepted, Accept, EntersPhase, NeedsRepair, InTime, Fallback,
           SelectFallback, ClaimWon, Replays, Normalize, ProviderStarted, CallPrimary,
           CallRetries, BackoffEnds, CallRepair, Settle, UpdateSteps, AnswerError,
           LedgerRefuses, Crash, TimePasses, vars, told
  <2> QED
    BY <2>1, <2>2 DEF TypeOK
<1>9. answer' \in {"none", "ok", "replay", "error"}
  <2>1. answer' \in {answer, "ok", "replay", "error"}
    BY StepKinds
       DEF Kinds, Walks, Breaks, StepFails, Blocked, Content, Accepted, Accept, EntersPhase,
           NeedsRepair, InTime, Fallback, SelectFallback, ClaimWon, Replays, Normalize,
           ProviderStarted, CallPrimary, CallRetries, BackoffEnds, CallRepair, Settle,
           UpdateSteps, Respond, AnswerError, LedgerRefuses, Crash, TimePasses, vars, told
  <2> QED
    BY <2>1 DEF TypeOK
<1> QED
  BY <1>1, <1>2, <1>3, <1>4, <1>5, <1>6, <1>7, <1>8, <1>9 DEF TypeOK, Clocked, StepStatus

LEMMA AttemptInvariant == Spec => []AttemptInv
<1>1. Init => AttemptInv
  <2> SUFFICES ASSUME Init PROVE AttemptInv
    OBVIOUS
  <2>1. TypeOK
    <3>1. pc \in Steps /\ steps \in [Steps -> {"open", "completed", "skipped", "failed"}]
      BY StepNames DEF Init
    <3>2. /\ now \in 0 .. Horizon /\ phase \in -1 .. Horizon
          /\ worked \in 0 .. LocalWork /\ wake \in 0 .. (Horizon + Backoff)
      BY TimeTypes DEF Init
    <3>3. row \in Row
      BY DEF Init, Row
    <3>4. /\ req \in Request /\ warned \in BOOLEAN
          /\ calls \subseteq [kind : {"primary", "retry", "repair"}, at : 0 .. Horizon]
      BY DEF Init
    <3>5. /\ result \in {"none", "complete", "repaired", "partial", "fallback"}
          /\ history \in 0 .. 1 /\ observed \in 0 .. 1
          /\ answer \in {"none", "ok", "replay", "error"}
      BY DEF Init
    <3> QED
      BY <3>1, <3>2, <3>3, <3>4, <3>5 DEF TypeOK
  <2>2. Audit
    <3>1. SettledTo(steps, Front(pc))
      BY FrontOf, StepsArePlaces DEF Init, SettledTo, Places
    <3> QED
      BY <3>1 DEF Init, Audit, Delivering
  <2>3. Timing
    BY TimeTypes DEF Init, Timing
  <2>4. Paying
    BY DEF Init, Paying, CallsCovered, Unstarted, Calling, Reading
  <2>5. Booking
    BY DEF Init, Booking, NoRow, AnswerMatchesLedger, Unclaimed, Unbound, Unstarted, Over
  <2> QED
    BY <2>1, <2>2, <2>3, <2>4, <2>5 DEF AttemptInv
<1>2. AttemptInv /\ [Next]_vars => AttemptInv'
  BY TypeStep, AuditStep, TimingStep, PayingStep, BookingStep DEF AttemptInv
<1> QED
  BY <1>1, <1>2, PTL DEF Spec

\* The handler of POST /api/analyze stays within its types: in particular the local work
\* stays within its share, a back-off within the clock, and no request writes two History
\* rows or two monitoring rows.
THEOREM AttemptTypeCorrect == Spec => []TypeOK
<1>1. AttemptInv => TypeOK
  BY DEF AttemptInv
<1> QED
  BY <1>1, AttemptInvariant, PTL

\* For every deadline, reserve, limit and back-off: a request whose provider phase begins
\* before its reserve is used up is answered within the safety deadline, and no call is
\* paid for that the deadline could not cover (ProviderDeadline, call_deepseek_raw).
THEOREM RequestKeepsDeadline == Spec => []DeadlineKept
<1>1. AttemptInv => DeadlineKept
  BY TimingAnswers DEF AttemptInv, Paying, DeadlineKept
<1> QED
  BY <1>1, AttemptInvariant, PTL

\* What the client is told is what the audit trail and the ledger hold: a result has no
\* open and no failed step, an error has at most the one step that failed, and a row that
\* a retry may take over has paid for nothing.  The monitoring is only best effort
\* (persist_analysis_metrics_best_effort): at most one row, and none that says more.
THEOREM AnswersAreRecorded == Spec => []AnswerIsRecorded
<1>1. AttemptInv => AnswerIsRecorded
  <2> SUFFICES ASSUME AttemptInv PROVE AuditMatchesAnswer /\ AnswerMatchesLedger
    BY DEF AnswerIsRecorded
  <2>1. Audit /\ steps \in [Steps -> StepStatus] /\ AnswerMatchesLedger
    BY DEF AttemptInv, TypeOK, StepStatus, Booking
  <2>2. CASE answer = "ok"
    <3>1. SettledTo(steps, Last) /\ observed <= 1 /\ (result = "complete" \/ warned)
      BY <2>1, <2>2 DEF Audit
    <3>2. StepsWith("failed") = {} /\ StepsWith("open") = {}
      BY <2>1, <3>1, SettledReads DEF StepsWith, Last
    <3> QED
      BY <2>1, <2>2, <3>1, <3>2 DEF AuditMatchesAnswer
  <2>3. CASE answer = "error"
    <3>1. Explained(steps)
      BY <2>1, <2>3 DEF Audit
    <3>2. CASE observed = 0 /\ \E n \in 0 .. Last : SettledTo(steps, n)
      <4>1. StepsWith("failed") = {}
        BY <2>1, <3>2, SettledReads DEF StepsWith
      <4> QED
        BY <2>1, <2>3, <3>2, <4>1, FS_EmptySet DEF AuditMatchesAnswer
    <3>3. CASE observed \in 0 .. 1 /\ \E n \in Places : FailedAt(steps, n)
      <4>1. PICK n \in Places : FailedAt(steps, n)
        BY <3>3
      <4>2. /\ StepsWith("failed") = {StepOrder[n]}
            /\ After(StepOrder[n]) \cap StepsWith("completed") = {}
            /\ StepsWith("open") \subseteq After(StepOrder[n])
        BY <2>1, <4>1, FailedReads DEF StepsWith
      <4>3. Cardinality(StepsWith("failed")) = 1
        BY <4>2, FS_Singleton
      <4> QED
        BY <2>1, <2>3, <3>3, <4>2, <4>3 DEF AuditMatchesAnswer
    <3> QED
      BY <3>1, <3>2, <3>3 DEF Explained
  <2>4. CASE answer \notin {"ok", "error"}
    BY <2>1, <2>4 DEF AuditMatchesAnswer, Audit
  <2> QED
    BY <2>2, <2>3, <2>4
<1> QED
  BY <1>1, AttemptInvariant, PTL

-----------------------------------------------------------------------------
(* The handler implements the ledger: what the ledger sees of it *)

\* Where the ledger sees the request, by where the handler is
Sees ==
  /\ ~req.keyed => LedgerPc = "cleanup" /\ ~Claimed
  /\ req.keyed /\ pc \in Unclaimed \ {"claim"} => LedgerPc = "cleanup" /\ ~Claimed
  /\ req.keyed /\ pc = "claim" => LedgerPc = "inserting" /\ ~Claimed
  /\ req.keyed /\ pc \in {"scan_untrusted_input", "normalize"} => LedgerPc = "claimed"
  /\ req.keyed /\ pc \in Unstarted \ Unbound => LedgerPc = "bound"
  /\ req.keyed /\ pc \in Calling \cup (Reading \ {"repair_call"}) => LedgerPc = "calling"
  /\ req.keyed /\ pc = "repair_call" => LedgerPc = "repairing"
  /\ req.keyed /\ pc \in {"repairing"} \cup (Delivering \ {"respond"})
       => LedgerPc = "finalizing"
  /\ req.keyed /\ pc = "error" /\ Claimed => LedgerPc = "failing"
  /\ req.keyed /\ pc = "error" /\ ~Claimed => LedgerPc \in {"cleanup", "ended"}
  /\ req.keyed /\ row.status = "completed" => LedgerPc = "answered"
  /\ req.keyed /\ Gone /\ row.status # "completed" => LedgerPc = "ended"

LEMMA LedgerSees == AttemptInv => Sees
<1> SUFFICES ASSUME AttemptInv PROVE Sees
  OBVIOUS
<1>0. Booking /\ Paying /\ Audit /\ steps \in [Steps -> StepStatus]
  BY DEF AttemptInv, TypeOK, StepStatus
<1>1. CASE ~req.keyed
  <2>1. row = NoRow
    BY <1>0, <1>1 DEF Booking
  <2> QED
    BY <1>1, <2>1 DEF Sees, LedgerPc, Claimed, NoRow
<1>2. CASE req.keyed /\ pc \in Unclaimed
  <2>1. ~Claimed /\ row.status = "none"
    BY <1>0, <1>2 DEF Booking, Claimed, NoRow
  <2>2. pc # "claim" => steps["acquire_job_description"] = "open"
    <3>1. pc # "claim" => SettledTo(steps, Front(pc)) /\ Front(pc) \in 0 .. 2
      BY <1>0, <1>2, FrontOf DEF Audit, Over, Unclaimed
    <3>2. 3 \in Places /\ StepOrder[3] = "acquire_job_description"
      BY Named DEF Places, Last
    <3> QED
      BY <3>1, <3>2 DEF SettledTo
  <2>3. LedgerPc = IF pc = "claim" THEN "inserting" ELSE "cleanup"
    BY <1>2, <2>1, <2>2 DEF LedgerPc, Gone, Unclaimed
  <2> QED
    BY <1>2, <2>1, <2>3
       DEF Sees, Gone, Unclaimed, Unbound, Unstarted, Calling, Reading, Delivering
<1>3. CASE req.keyed /\ pc \notin Unclaimed \cup Over \cup {"respond"}
  <2>1. Claimed /\ row.status = "processing"
    BY <1>0, <1>3 DEF Booking, Claimed
  <2>2. pc \in Unbound => row.bound = "none" /\ ~row.started
    BY <1>0, <1>3 DEF Booking, Unstarted
  <2>3. pc \in Unstarted \ Unbound => row.bound # "none" /\ ~row.started
    BY <1>0, <1>3 DEF Booking
  <2>4. pc \in Calling \cup Reading => row.started
    BY <1>0, <1>3 DEF Paying
  <2>5. LedgerPc = CASE pc \in Ready -> "finalizing"
                     [] pc = "repair_call" -> "repairing"
                     [] row.started /\ pc \notin Ready \cup {"repair_call", "error"} /\ ~Gone
                          -> "calling"
                     [] OTHER -> IF row.bound = "none" THEN "claimed" ELSE "bound"
    BY <1>3, <2>1 DEF LedgerPc, Gone, Over, Ready
  <2>6. pc \in {"scan_untrusted_input", "normalize"} => LedgerPc = "claimed"
    BY <2>2, <2>5 DEF Ready, Unbound
  <2>7. pc \in Unstarted \ Unbound => LedgerPc = "bound"
    BY <2>3, <2>5 DEF Ready, Unstarted
  <2>8. pc \in Calling \cup (Reading \ {"repair_call"}) => LedgerPc = "calling"
    BY <2>4, <2>5 DEF Ready, Calling, Reading, Gone
  <2>9. pc = "repair_call" => LedgerPc = "repairing"
    BY <2>5 DEF Ready
  <2>10. pc \in {"repairing"} \cup (Delivering \ {"respond"}) => LedgerPc = "finalizing"
    BY <2>5 DEF Ready, Delivering
  <2> QED
    BY <1>3, <2>1, <2>6, <2>7, <2>8, <2>9, <2>10 DEF Sees, Gone, Over, Unclaimed
<1>4. CASE req.keyed /\ pc \in Over \cup {"respond"}
  <2>1. pc = "respond" => row.status = "completed"
    BY <1>0, <1>4 DEF Booking
  <2>2. row.status = "completed" => LedgerPc = "answered" /\ Claimed
    BY <1>4 DEF LedgerPc, Claimed
  <2>3. Claimed /\ row.status # "completed" =>
          LedgerPc = IF pc = "error" THEN "failing" ELSE "ended"
    BY <1>4, <2>1 DEF LedgerPc, Gone, Over, Ready
  <2>4. ~Claimed => LedgerPc = IF Gone \/ steps["acquire_job_description"] = "completed"
                               THEN "ended" ELSE "cleanup"
    BY <1>4, <2>2 DEF LedgerPc, Over
  <2>5. pc = "error" => row.status # "completed"
    BY <1>0, <1>4 DEF Booking
  <2>6. Gone <=> pc \in {"answered", "dead"}
    BY DEF Gone
  <2> QED
    BY <1>4, <2>1, <2>2, <2>3, <2>4, <2>5, <2>6
       DEF Sees, Over, Unclaimed, Unbound, Unstarted, Calling, Reading, Delivering
<1> QED
  BY <1>1, <1>2, <1>3, <1>4

LEMMA LedgerSeesNext == AttemptInv' => Sees'
BY LedgerSees, PTL

-----------------------------------------------------------------------------
(* The handler implements the ledger: what its steps do to the ledger *)

Apart == {"cleanup", "inserting", "ended"}
LedgerAttempting == {"claimed", "bound", "calling", "repairing", "finalizing"}

\* Nothing that the ledger sees of the handler has changed but its place.
Unseen == UNCHANGED <<req, row>> /\ (req.keyed => UNCHANGED <<calls, history>>)

RequestSeen ==
  LedgerRequest =
    [ pc |-> LedgerPc, rec |-> IF LedgerPc \in Apart THEN 0 ELSE 1,
      bound |-> IF LedgerPc \in Apart THEN "none" ELSE row.bound, doomed |-> 0,
      answer |-> IF row.status = "completed" THEN "this" ELSE "nobody" ]

LEMMA RequestForm == RequestSeen
BY DEF RequestSeen, LedgerRequest, Apart, Settled

LEMMA RequestFormNext == RequestSeen'
BY RequestForm, PTL

LEMMA UnseenRest ==
  ASSUME Unseen
  PROVE  /\ LedgerRecord' = LedgerRecord
         /\ (IF Claimed THEN 1 ELSE 0)' = (IF Claimed THEN 1 ELSE 0)
         /\ (IF req.keyed
             THEN {[rec |-> 1, by |-> "this", kind |-> c.kind] : c \in calls} ELSE {})'
              = IF req.keyed
                THEN {[rec |-> 1, by |-> "this", kind |-> c.kind] : c \in calls} ELSE {}
         /\ (IF req.keyed /\ HistoryStored THEN {[rec |-> 1, by |-> "this"]} ELSE {})'
              = IF req.keyed /\ HistoryStored THEN {[rec |-> 1, by |-> "this"]} ELSE {}
<1>1. LedgerRecord' = LedgerRecord
  BY DEF Unseen, LedgerRecord, Claimed, Settled
<1>2. (IF Claimed THEN 1 ELSE 0)' = (IF Claimed THEN 1 ELSE 0)
  BY DEF Unseen, Claimed
<1>3. (IF req.keyed THEN {[rec |-> 1, by |-> "this", kind |-> c.kind] : c \in calls} ELSE {})'
        = IF req.keyed THEN {[rec |-> 1, by |-> "this", kind |-> c.kind] : c \in calls} ELSE {}
  BY DEF Unseen
<1>4. (IF req.keyed /\ HistoryStored THEN {[rec |-> 1, by |-> "this"]} ELSE {})'
        = IF req.keyed /\ HistoryStored THEN {[rec |-> 1, by |-> "this"]} ELSE {}
  BY DEF Unseen, HistoryStored, Settled
<1> QED
  BY <1>1, <1>2, <1>3, <1>4

\* The request does not move either: a stutter.
LEMMA LedgerStutters ==
  ASSUME Unseen, LedgerPc' = LedgerPc
  PROVE  UNCHANGED Ledger!vars
<1>1. LedgerRequest' = LedgerRequest
  BY RequestForm, RequestFormNext DEF Unseen, RequestSeen
<1> QED
  BY <1>1, UnseenRest DEF Ledger!vars

\* It moves to where it still holds what it holds, or holds nothing in both places.
LEMMA LedgerGoes ==
  ASSUME NEW q, LedgerPc' = q, row'.status = row.status, row'.bound = row.bound,
         LedgerPc \in Apart <=> q \in Apart
  PROVE  Ledger!Goto("this", q)
<1>1. LedgerRequest' = [LedgerRequest EXCEPT !.pc = q]
  BY RequestForm, RequestFormNext DEF RequestSeen
<1> QED
  BY <1>1 DEF Ledger!Goto

LEMMA LedgerLeaves ==
  ASSUME LedgerPc' = "ended", row'.status # "completed"
  PROVE  Ledger!Leave("this")
<1>1. LedgerRequest' = Ledger!Ended
  BY RequestFormNext DEF RequestSeen, Apart, Ledger!Ended
<1> QED
  BY <1>1 DEF Ledger!Leave

LEMMA LedgerAt == Ledger!At("this", LedgerPc)
BY RequestForm DEF RequestSeen, Ledger!At

LedgerStep == Ledger!Next \/ UNCHANGED Ledger!vars

\* What the ledger cannot see is a choice of the handler, its failure or its end.
LEMMA UnseenStep ==
  ASSUME Unseen,
         \/ LedgerPc' = LedgerPc
         \/ LedgerPc = "cleanup" /\ LedgerPc' = "inserting"
         \/ LedgerPc \in {"bound", "calling", "repairing"} /\ LedgerPc' = "finalizing"
         \/ LedgerPc \in LedgerAttempting /\ LedgerPc' = "failing"
         \/ LedgerPc # "answered" /\ LedgerPc' = "ended" /\ row.status # "completed"
  PROVE  LedgerStep
<1>0. "this" \in {"this"} /\ row' = row
  BY DEF Unseen
<1>1. CASE LedgerPc' = LedgerPc
  BY <1>1, LedgerStutters DEF LedgerStep
<1>2. CASE LedgerPc = "cleanup" /\ LedgerPc' = "inserting"
  <2>1. Ledger!Goto("this", "inserting") /\ Ledger!At("this", "cleanup")
    BY <1>0, <1>2, LedgerGoes, LedgerAt DEF Apart
  <2>2. Ledger!CleanupSkips("this")
    BY <2>1, UnseenRest DEF Ledger!CleanupSkips
  <2> QED
    BY <1>0, <2>2 DEF LedgerStep, Ledger!Next, Ledger!Claim
<1>3. CASE LedgerPc \in {"bound", "calling", "repairing"} /\ LedgerPc' = "finalizing"
  <2>1. /\ Ledger!Goto("this", "finalizing")
        /\ \E p \in {"bound", "calling", "repairing"} : Ledger!At("this", p)
    BY <1>0, <1>3, LedgerGoes, LedgerAt DEF Apart
  <2>2. Ledger!ResultReady("this")
    BY <2>1, UnseenRest DEF Ledger!ResultReady
  <2> QED
    BY <1>0, <2>2 DEF LedgerStep, Ledger!Next, Ledger!Attempt
<1>4. CASE LedgerPc \in LedgerAttempting /\ LedgerPc' = "failing"
  <2>1. Ledger!Goto("this", "failing")
    BY <1>0, <1>4, LedgerGoes DEF Apart, LedgerAttempting
  <2>2. LedgerRequest.pc \in Ledger!Attempting
    BY <1>4, RequestForm DEF RequestSeen, LedgerAttempting, Ledger!Attempting
  <2>3. Ledger!AttemptFails("this")
    BY <2>1, <2>2, UnseenRest DEF Ledger!AttemptFails
  <2> QED
    BY <1>0, <2>3 DEF LedgerStep, Ledger!Next, Ledger!Attempt
<1>5. CASE LedgerPc # "answered" /\ LedgerPc' = "ended" /\ row.status # "completed"
  <2>1. CASE LedgerPc = "ended"
    BY <1>5, <2>1, LedgerStutters DEF LedgerStep
  <2>2. CASE LedgerPc # "ended"
    <3>1. LedgerRequest.pc \notin {"answered", "ended"}
      BY <1>5, <2>2, RequestForm DEF RequestSeen
    <3>2. Ledger!Leave("this")
      BY <1>0, <1>5, LedgerLeaves
    <3>3. Ledger!Die("this")
      BY <3>1, <3>2, UnseenRest DEF Ledger!Die
    <3> QED
      BY <1>0, <3>3 DEF LedgerStep, Ledger!Next
  <2> QED
    BY <2>1, <2>2
<1> QED
  BY <1>1, <1>2, <1>3, <1>4, <1>5

LEMMA LeadsSeen ==
  ASSUME NEW k, NEW next, Leads(k, next), req.keyed
  PROVE  \/ k \in Unclaimed \ {"claim"} /\ next \in Unclaimed \ {"claim"}
         \/ k \in Unclaimed \ {"claim"} /\ next = "claim"
         \/ /\ k \in {"scan_untrusted_input", "normalize"}
            /\ next \in {"scan_untrusted_input", "normalize"}
         \/ k \in Unstarted \ Unbound /\ next \in Unstarted \ Unbound
         \/ k \in Reading \ {"repair_call"} /\ next \in Reading \ {"repair_call"}
         \/ k \in Delivering \ {"respond"} /\ next \in Delivering \ {"respond"}
BY DEF Leads, Unclaimed, Unbound, Unstarted, Reading, Delivering

\* What a step of the handler, of the provider or of the clock changes without a call, an
\* insert or an update of the row.
LEMMA UnseenKinds ==
  ASSUME AttemptInv, AttemptInv', req.keyed, Kinds,
         ~ClaimWon, ~Normalize, ~ProviderStarted, ~CallPrimary, ~CallRepair, ~Settle,
         ~AnswerError
  PROVE  LedgerStep
<1>0. /\ Sees /\ Sees' /\ Audit /\ Booking
  BY LedgerSees, LedgerSeesNext DEF AttemptInv
<1>1. CASE \E k, next, status : status \in Closed /\ Walks(k, next, status)
  <2>1. PICK k, next, status : Walks(k, next, status)
    BY <1>1
  <2>2. Unseen /\ req' = req /\ pc = k /\ pc' = next
    BY <2>1 DEF Walks, Unseen
  <2>3. LedgerPc' = LedgerPc \/ (LedgerPc = "cleanup" /\ LedgerPc' = "inserting")
    BY <1>0, <2>1, <2>2, LeadsSeen DEF Walks, Sees
  <2> QED
    BY <2>2, <2>3, UnseenStep
<1>2. CASE (\E n \in Places : Breaks(n)) \/ LedgerRefuses
  <2>1. /\ Unseen /\ req' = req /\ pc' = "error" /\ row' = row
        /\ \/ pc \in Unclaimed \ {"claim"}
           \/ pc = "claim" /\ steps' = steps
           \/ pc \in {"scan_untrusted_input", "normalize", "repairing"}
           \/ pc \in Unstarted \ Unbound
           \/ pc \in Reading \ {"repair_call"}
           \/ pc \in Delivering \ {"respond"}
    BY <1>2
       DEF Breaks, Breakable, StepFails, Blocked, LedgerRefuses, Unseen, outcome, stored,
           Unclaimed, Unbound, Unstarted, Reading, Delivering
  <2>2. row.status # "completed"
    BY <1>0, <2>1 DEF Sees, Unclaimed
  <2>3. CASE pc \in Unclaimed \ {"claim"}
    <3>1. LedgerPc = "cleanup" /\ LedgerPc' \in {"cleanup", "ended"}
      BY <1>0, <2>1, <2>3 DEF Sees, Claimed
    <3> QED
      BY <2>1, <2>2, <3>1, UnseenStep
  <2>4. CASE pc = "claim" /\ steps' = steps
    <3>1. LedgerPc = "inserting" /\ ~Claimed
      BY <1>0, <2>4 DEF Sees
    <3>2. steps'["acquire_job_description"] = "completed"
      BY <1>0, <2>4 DEF Audit
    <3>3. LedgerPc' = "ended"
      BY <2>1, <3>1, <3>2 DEF LedgerPc, Claimed
    <3> QED
      BY <2>1, <2>2, <3>1, <3>3, UnseenStep
  <2>5. CASE pc \notin Unclaimed
    <3>1. LedgerPc \in LedgerAttempting
      BY <1>0, <2>1, <2>5 DEF Sees, LedgerAttempting, Unclaimed
    <3>2. Claimed
      BY <1>0, <2>1, <2>5
         DEF Booking, Claimed, Unclaimed, Unbound, Unstarted, Reading, Delivering, Over
    <3>3. LedgerPc' = "failing"
      BY <1>0, <2>1, <3>2 DEF Sees, Claimed
    <3> QED
      BY <2>1, <3>1, <3>3, UnseenStep
  <2> QED
    BY <2>1, <2>3, <2>4, <2>5 DEF Unclaimed, Unbound, Reading, Delivering
<1>3. CASE Fallback \/ Accepted \/ InTime
  <2>1. /\ Unseen /\ req' = req
        /\ pc \in {"run_llm_analysis", "attempt", "calling", "parse_model_json", "repair_call",
                   "repairing", "deadline_check"}
        /\ pc' \in {"deadline_check", "validate_evidence_references"}
    BY <1>3
       DEF Fallback, SelectFallback, Accepted, Accept, InTime, Unseen, outcome, stored
  <2>2. LedgerPc' = "finalizing"
    BY <1>0, <2>1 DEF Sees, Delivering
  <2>3. LedgerPc \in {"bound", "calling", "repairing", "finalizing"}
    BY <1>0, <2>1 DEF Sees, Unstarted, Unbound, Unclaimed, Calling, Reading, Delivering
  <2> QED
    BY <2>1, <2>2, <2>3, UnseenStep
<1>4. CASE Content \/ EntersPhase \/ NeedsRepair \/ CallRetries \/ BackoffEnds
  <2>1. /\ Unseen /\ req' = req
        /\ \/ /\ pc \in {"attempt", "calling", "backoff", "parse_model_json"}
              /\ pc' \in {"scan_llm_output", "repair", "backoff", "attempt"}
           \/ pc = "run_llm_analysis" /\ pc' = "start"
    BY <1>4
       DEF Content, EntersPhase, NeedsRepair, CallRetries, BackoffEnds, Unseen, outcome, stored
  <2>2. LedgerPc' = LedgerPc
    BY <1>0, <2>1 DEF Sees, Unstarted, Unbound, Unclaimed, Calling, Reading
  <2> QED
    BY <2>1, <2>2, UnseenStep
<1>5. CASE TimePasses
  <2>1. Unseen /\ UNCHANGED <<req, pc, steps, row>>
    BY <1>5 DEF TimePasses, Unseen, outcome, stored
  <2>2. LedgerPc' = LedgerPc
    BY <2>1 DEF LedgerPc, Claimed, Gone
  <2> QED
    BY <2>1, <2>2, UnseenStep
<1>6. CASE Replays \/ Crash
  <2>1. /\ Unseen /\ req' = req /\ row' = row /\ pc' \in {"answered", "dead"}
        /\ Replays => pc = "claim"
    BY <1>6 DEF Replays, Crash, Unseen, outcome, stored
  <2>2. CASE row.status = "completed"
    <3>1. LedgerPc = "answered" /\ LedgerPc' = "answered"
      BY <1>0, <2>1, <2>2 DEF Sees
    <3> QED
      BY <2>1, <3>1, UnseenStep
  <2>3. CASE row.status # "completed"
    <3>1. LedgerPc' = "ended"
      BY <1>0, <2>1, <2>3 DEF Sees, Gone
    <3>2. LedgerPc # "answered"
      BY <2>3 DEF LedgerPc, Claimed
    <3> QED
      BY <2>1, <2>3, <3>1, <3>2, UnseenStep
  <2> QED
    BY <2>2, <2>3
<1>7. CASE Respond
  <2>1. /\ Unseen /\ req' = req /\ row' = row /\ row.status = "completed"
    BY <1>0, <1>7 DEF Respond, Unseen, outcome, stored, Booking
  <2>2. LedgerPc = "answered" /\ LedgerPc' = "answered"
    BY <1>0, <2>1 DEF Sees
  <2> QED
    BY <2>1, <2>2, UnseenStep
<1>8. ~UpdateSteps
  BY DEF UpdateSteps
<1> QED
  BY <1>1, <1>2, <1>3, <1>4, <1>5, <1>6, <1>7, <1>8 DEF Kinds

\* Two fields of the one request the ledger knows here
LEMMA TwoFields ==
  ASSUME NEW q, NEW a, NEW n
  PROVE  [[r \in {"this"} |-> q] EXCEPT !["this"].pc = a, !["this"].rec = n]
           = [r \in {"this"} |-> [q EXCEPT !.pc = a, !.rec = n]]
<1> DEFINE f == [r \in {"this"} |-> q]
           g == [r \in {"this"} |-> [q EXCEPT !.pc = a]]
<1>1. [f EXCEPT !["this"].pc = a] = g
  OBVIOUS
<1>2. [g EXCEPT !["this"].rec = n] = [r \in {"this"} |-> [[q EXCEPT !.pc = a] EXCEPT !.rec = n]]
  OBVIOUS
<1>3. [f EXCEPT !["this"].pc = a, !["this"].rec = n]
        = [[f EXCEPT !["this"].pc = a] EXCEPT !["this"].rec = n]
  OBVIOUS
<1>4. [q EXCEPT !.pc = a, !.rec = n] = [[q EXCEPT !.pc = a] EXCEPT !.rec = n]
  OBVIOUS
<1> QED
  BY <1>1, <1>2, <1>3, <1>4

\* The insert wins.
LEMMA InsertSeen ==
  ASSUME AttemptInv, AttemptInv', req.keyed, ClaimWon
  PROVE  LedgerStep
<1>0. "this" \in {"this"}
  OBVIOUS
<1>1. /\ pc = "claim" /\ pc' = "scan_untrusted_input" /\ req' = req /\ calls' = calls
      /\ history' = history /\ row' = [row EXCEPT !.status = "processing"]
  BY DEF ClaimWon, outcome
<1>2. row = NoRow /\ history = 0
  BY <1>1 DEF AttemptInv, Booking, Unclaimed, Over
<1>3. row' = [status |-> "processing", started |-> FALSE, bound |-> "none"]
  BY <1>1, <1>2 DEF NoRow
<1>4. LedgerPc = "inserting" /\ LedgerPc' = "claimed"
  BY <1>1, LedgerSees, LedgerSeesNext DEF Sees
<1>5. /\ LedgerRecord.id = 0
      /\ LedgerRecord' =
           [ id |-> 1, status |-> "processing", print |-> "asked", token |-> "this",
             started |-> FALSE, bound |-> "none", live |-> TRUE, expired |-> FALSE,
             result |-> "nobody" ]
  BY <1>2, <1>3 DEF LedgerRecord, Claimed, Settled, NoRow
<1>6. (IF Claimed THEN 1 ELSE 0) = 0 /\ (IF Claimed THEN 1 ELSE 0)' = 1
  BY <1>2, <1>3 DEF Claimed, NoRow
<1>7. LedgerRequest' = [LedgerRequest EXCEPT !.pc = "claimed", !.rec = 1]
  <2>1. LedgerRequest = [ pc |-> "inserting", rec |-> 0, bound |-> "none", doomed |-> 0,
                          answer |-> "nobody" ]
    BY <1>2, <1>4, RequestForm DEF RequestSeen, Apart, NoRow
  <2>2. LedgerRequest' = [ pc |-> "claimed", rec |-> 1, bound |-> "none", doomed |-> 0,
                           answer |-> "nobody" ]
    BY <1>3, <1>4, RequestFormNext DEF RequestSeen, Apart
  <2> DEFINE one == [LedgerRequest EXCEPT !.pc = "claimed"]
  <2>3. one = [pc |-> "claimed", rec |-> 0, bound |-> "none", doomed |-> 0, answer |-> "nobody"]
    BY <2>1
  <2>4. [one EXCEPT !.rec = 1] = LedgerRequest'
    <3> HIDE DEF one
    <3> QED
      BY <2>2, <2>3
  <2> QED
    BY <2>4
<1>8. HistoryStored' = HistoryStored
  BY <1>1, <1>2, <1>3 DEF HistoryStored, Settled, NoRow
<1>9. [r \in {"this"} |-> LedgerRequest']
        = [[r \in {"this"} |-> LedgerRequest] EXCEPT !["this"].pc = "claimed", !["this"].rec = 1]
  BY <1>7, TwoFields
<1>10. Ledger!At("this", "inserting")
  BY <1>4, LedgerAt
<1>11. UNCHANGED << [r \in {"this"} |-> "asked"],
         IF req.keyed
         THEN {[rec |-> 1, by |-> "this", kind |-> c.kind] : c \in calls} ELSE {},
         IF req.keyed /\ HistoryStored THEN {[rec |-> 1, by |-> "this"]} ELSE {} >>
  BY <1>1, <1>8
<1>12. (IF Claimed THEN 1 ELSE 0)' = (IF Claimed THEN 1 ELSE 0) + 1
  BY <1>6
<1>13. LedgerRecord' =
         [ id |-> (IF Claimed THEN 1 ELSE 0)', status |-> "processing",
           print |-> [r \in {"this"} |-> "asked"]["this"], token |-> "this",
           started |-> FALSE, bound |-> "none", live |-> TRUE, expired |-> FALSE,
           result |-> "nobody" ]
  BY <1>5, <1>6
<1>14. [r \in {"this"} |-> LedgerRequest]'
         = [[r \in {"this"} |-> LedgerRequest] EXCEPT
              !["this"].pc = "claimed", !["this"].rec = (IF Claimed THEN 1 ELSE 0)']
  BY <1>6, <1>9
<1>15. LedgerRecord.id = 0
  BY <1>5
<1>16. Ledger!Insert("this")
  BY <1>10, <1>11, <1>12, <1>13, <1>14, <1>15 DEF Ledger!Insert
<1> QED
  BY <1>0, <1>16 DEF LedgerStep, Ledger!Next, Ledger!Claim

\* The same for the other pairs of fields that are written together
LEMMA PlaceAndBound ==
  ASSUME NEW q, NEW a, NEW b
  PROVE  [[r \in {"this"} |-> q] EXCEPT !["this"].pc = a, !["this"].bound = b]
           = [r \in {"this"} |-> [[q EXCEPT !.pc = a] EXCEPT !.bound = b]]
<1> DEFINE f == [r \in {"this"} |-> q]
           g == [r \in {"this"} |-> [q EXCEPT !.pc = a]]
<1>1. [f EXCEPT !["this"].pc = a] = g
  OBVIOUS
<1>2. [g EXCEPT !["this"].bound = b]
        = [r \in {"this"} |-> [[q EXCEPT !.pc = a] EXCEPT !.bound = b]]
  OBVIOUS
<1>3. [f EXCEPT !["this"].pc = a, !["this"].bound = b]
        = [[f EXCEPT !["this"].pc = a] EXCEPT !["this"].bound = b]
  OBVIOUS
<1> QED
  BY <1>1, <1>2, <1>3

LEMMA PlaceAndAnswer ==
  ASSUME NEW q, NEW a, NEW b
  PROVE  [[r \in {"this"} |-> q] EXCEPT !["this"].pc = a, !["this"].answer = b]
           = [r \in {"this"} |-> [[q EXCEPT !.pc = a] EXCEPT !.answer = b]]
<1> DEFINE f == [r \in {"this"} |-> q]
           g == [r \in {"this"} |-> [q EXCEPT !.pc = a]]
<1>1. [f EXCEPT !["this"].pc = a] = g
  OBVIOUS
<1>2. [g EXCEPT !["this"].answer = b]
        = [r \in {"this"} |-> [[q EXCEPT !.pc = a] EXCEPT !.answer = b]]
  OBVIOUS
<1>3. [f EXCEPT !["this"].pc = a, !["this"].answer = b]
        = [[f EXCEPT !["this"].pc = a] EXCEPT !["this"].answer = b]
  OBVIOUS
<1> QED
  BY <1>1, <1>2, <1>3

\* Between its claim and its end the request holds the row.
LEMMA HoldsRow ==
  ASSUME row.status = "processing", LedgerPc \notin Apart
  PROVE  Ledger!Current("this") /\ Ledger!Holds("this") /\ Claimed
<1>1. Claimed
  BY DEF Claimed
<1>2. LedgerRequest.rec = 1 /\ LedgerRequest.bound = row.bound
  BY RequestForm DEF RequestSeen
<1>3. /\ LedgerRecord.id = 1 /\ LedgerRecord.status = "processing"
      /\ LedgerRecord.token = "this" /\ LedgerRecord.bound = row.bound
  BY <1>1 DEF LedgerRecord
<1> QED
  BY <1>1, <1>2, <1>3 DEF Ledger!Current, Ledger!Holds

RowOf(status, started, bound, live, expired, whose) ==
  [ id |-> 1, status |-> status, print |-> "asked", token |-> "this", started |-> started,
    bound |-> bound, live |-> live, expired |-> expired, result |-> whose ]

\* The provers tell a Boolean field from its value only behind a name.
Yes == TRUE
No == FALSE

\* What the transactions write to a row, one field after the other
Binding(rec, c, d) == [rec EXCEPT !.bound = c, !.live = d]

LEMMA BindWrites ==
  ASSUME NEW s, NEW st, NEW b, NEW l, NEW e, NEW a, NEW c, NEW d
  PROVE  Binding(RowOf(s, st, b, l, e, a), c, d) = RowOf(s, st, c, d, e, a)
<1> DEFINE rec == RowOf(s, st, b, l, e, a)
           one == [rec EXCEPT !.bound = c]
<1>1. one = RowOf(s, st, c, l, e, a)
  BY DEF RowOf
<1>2. [RowOf(s, st, c, l, e, a) EXCEPT !.live = d] = RowOf(s, st, c, d, e, a)
  BY DEF RowOf
<1>3. Binding(rec, c, d) = [one EXCEPT !.live = d]
  <2> HIDE DEF rec
  <2> QED
    BY DEF Binding
<1> HIDE DEF one
<1> QED
  BY <1>1, <1>2, <1>3

\* provider_started
Starting(rec, c, d) == [rec EXCEPT !.started = c, !.live = d]

LEMMA StartWrites ==
  ASSUME NEW s, NEW st, NEW b, NEW l, NEW e, NEW a, NEW c, NEW d
  PROVE  Starting(RowOf(s, st, b, l, e, a), c, d) = RowOf(s, c, b, d, e, a)
<1> DEFINE rec == RowOf(s, st, b, l, e, a)
           one == [rec EXCEPT !.started = c]
<1>1. one = RowOf(s, c, b, l, e, a)
  BY DEF RowOf
<1>2. [RowOf(s, c, b, l, e, a) EXCEPT !.live = d] = RowOf(s, c, b, d, e, a)
  BY DEF RowOf
<1>3. Starting(rec, c, d) = [one EXCEPT !.live = d]
  <2> HIDE DEF rec
  <2> QED
    BY DEF Starting
<1> HIDE DEF one
<1> QED
  BY <1>1, <1>2, <1>3

\* finalize
Finishing(rec, c, d) == [rec EXCEPT !.status = c, !.result = d]

LEMMA FinalWrites ==
  ASSUME NEW s, NEW st, NEW b, NEW l, NEW e, NEW a, NEW c, NEW d
  PROVE  Finishing(RowOf(s, st, b, l, e, a), c, d) = RowOf(c, st, b, l, e, d)
<1> DEFINE rec == RowOf(s, st, b, l, e, a)
           one == [rec EXCEPT !.status = c]
<1>1. one = RowOf(c, st, b, l, e, a)
  BY DEF RowOf
<1>2. [RowOf(c, st, b, l, e, a) EXCEPT !.result = d] = RowOf(c, st, b, l, e, d)
  BY DEF RowOf
<1>3. Finishing(rec, c, d) = [one EXCEPT !.result = d]
  <2> HIDE DEF rec
  <2> QED
    BY DEF Finishing
<1> HIDE DEF one
<1> QED
  BY <1>1, <1>2, <1>3

\* fail_unfinalized
Closing(rec, c) == [rec EXCEPT !.status = c]

LEMMA CloseWrites ==
  ASSUME NEW s, NEW st, NEW b, NEW l, NEW e, NEW a, NEW c
  PROVE  Closing(RowOf(s, st, b, l, e, a), c) = RowOf(c, st, b, l, e, a)
BY DEF RowOf, Closing

RecordForm ==
  Claimed =>
    LedgerRecord = RowOf(row.status, row.started, row.bound, Yes, No,
                         IF row.status = "completed" THEN "this" ELSE "nobody")

LEMMA RecordFormed == RecordForm
BY DEF RecordForm, LedgerRecord, RowOf, Settled, Yes, No

LEMMA RecordFormedNext == RecordForm'
BY RecordFormed, PTL

\* The effective normalization is bound.
LEMMA BindSeen ==
  ASSUME AttemptInv, AttemptInv', req.keyed, Normalize
  PROVE  LedgerStep
<1>0. "this" \in {"this"}
  OBVIOUS
<1>1. PICK b \in Sources : row' = [row EXCEPT !.bound = b]
  BY DEF Normalize, EffectiveSource, ShadowSource, Sources
<1>2. /\ pc = "normalize" /\ pc' = "retrieve_project_evidence" /\ req' = req
      /\ calls' = calls /\ history' = history
  BY DEF Normalize, outcome
<1>3. row \in Row /\ row.status = "processing" /\ row.bound = "none"
  BY <1>2 DEF AttemptInv, TypeOK, Booking, Unclaimed, Unbound, Over
<1>4. row'.status = "processing" /\ row'.started = row.started /\ row'.bound = b
  BY <1>1, <1>3 DEF Row
<1>5. LedgerPc = "claimed" /\ LedgerPc' = "bound"
  BY <1>2, LedgerSees, LedgerSeesNext DEF Sees, Unstarted, Unbound, Unclaimed
<1>6. Claimed /\ Claimed'
  BY <1>3, <1>4 DEF Claimed
<1>7. /\ LedgerRecord = RowOf("processing", row.started, "none", Yes, No, "nobody")
      /\ LedgerRecord' = RowOf("processing", row.started, b, Yes, No, "nobody")
  BY <1>3, <1>4, <1>6, RecordFormed, RecordFormedNext DEF RecordForm
<1>8. LedgerRecord' = [LedgerRecord EXCEPT !.bound = b, !.live = TRUE]
  <2>1. Binding(LedgerRecord, b, Yes) = LedgerRecord'
    BY <1>7, BindWrites
  <2> QED
    BY <2>1 DEF Binding, Yes
<1>9. LedgerRequest' = [[LedgerRequest EXCEPT !.pc = "bound"] EXCEPT !.bound = b]
  <2>1. LedgerRequest = [ pc |-> "claimed", rec |-> 1, bound |-> "none", doomed |-> 0,
                          answer |-> "nobody" ]
    BY <1>3, <1>5, RequestForm DEF RequestSeen, Apart
  <2>2. LedgerRequest' = [ pc |-> "bound", rec |-> 1, bound |-> b, doomed |-> 0,
                           answer |-> "nobody" ]
    BY <1>4, <1>5, RequestFormNext DEF RequestSeen, Apart
  <2> DEFINE one == [LedgerRequest EXCEPT !.pc = "bound"]
  <2>3. one = [pc |-> "bound", rec |-> 1, bound |-> "none", doomed |-> 0, answer |-> "nobody"]
    BY <2>1
  <2> HIDE DEF one
  <2>4. [one EXCEPT !.bound = b] = LedgerRequest'
    BY <2>2, <2>3
  <2> QED
    BY <2>4 DEF one
<1>10. [r \in {"this"} |-> LedgerRequest]'
         = [[r \in {"this"} |-> LedgerRequest] EXCEPT
              !["this"].pc = "bound", !["this"].bound = b]
  BY <1>9, PlaceAndBound
<1>11. HistoryStored' = HistoryStored
  BY <1>2, <1>3, <1>4 DEF HistoryStored, Settled
<1>12. UNCHANGED << IF Claimed THEN 1 ELSE 0, [r \in {"this"} |-> "asked"],
         IF req.keyed
         THEN {[rec |-> 1, by |-> "this", kind |-> c.kind] : c \in calls} ELSE {},
         IF req.keyed /\ HistoryStored THEN {[rec |-> 1, by |-> "this"]} ELSE {} >>
  BY <1>2, <1>6, <1>11
<1>13. Ledger!At("this", "claimed")
  BY <1>5, LedgerAt
<1>14. Ledger!Current("this") /\ LedgerRecord.bound \in {"none", b}
  BY <1>3, <1>5, <1>7, HoldsRow DEF Apart, RowOf
<1>15. Ledger!Bind("this", b)
  BY <1>8, <1>10, <1>12, <1>13, <1>14 DEF Ledger!Bind
<1> QED
  BY <1>0, <1>15 DEF LedgerStep, Ledger!Next, Ledger!Attempt

\* The start of the provider is marked, before the first call and before a repair.
LEMMA StartSeen ==
  ASSUME AttemptInv, AttemptInv', req.keyed, ProviderStarted
  PROVE  LedgerStep
<1>0. "this" \in {"this"}
  OBVIOUS
<1>1. /\ pc \in {"start", "repair"} /\ row' = [row EXCEPT !.started = TRUE]
      /\ pc' = IF pc = "start" THEN "attempt" ELSE "repair_call"
      /\ req' = req /\ calls' = calls /\ history' = history
  BY DEF ProviderStarted, outcome
<1>2. row \in Row /\ row.status = "processing"
  BY <1>1 DEF AttemptInv, TypeOK, Booking, Unclaimed, Over
<1>3. row'.status = "processing" /\ row'.bound = row.bound /\ row'.started = Yes
  BY <1>1, <1>2 DEF Row, Yes
<1>4. /\ pc = "start" => LedgerPc = "bound" /\ LedgerPc' = "calling"
      /\ pc = "repair" => LedgerPc = "calling" /\ LedgerPc' = "repairing"
  BY <1>1, LedgerSees, LedgerSeesNext
     DEF Sees, Unstarted, Unbound, Unclaimed, Calling, Reading
<1>5. Claimed /\ Claimed'
  BY <1>2, <1>3 DEF Claimed
<1>6. /\ LedgerRecord = RowOf("processing", row.started, row.bound, Yes, No, "nobody")
      /\ LedgerRecord' = RowOf("processing", Yes, row.bound, Yes, No, "nobody")
  BY <1>2, <1>3, <1>5, RecordFormed, RecordFormedNext DEF RecordForm
<1>7. LedgerRecord' = [LedgerRecord EXCEPT !.started = TRUE, !.live = TRUE]
  <2>1. Starting(LedgerRecord, Yes, Yes) = LedgerRecord'
    BY <1>6, StartWrites
  <2> QED
    BY <2>1 DEF Starting, Yes
<1>8. Ledger!Holds("this")
  BY <1>1, <1>2, <1>4, HoldsRow DEF Apart
<1>9. \/ Ledger!At("this", "bound")
      \/ /\ Ledger!At("this", "calling")
         /\ \E c \in IF req.keyed
                      THEN {[rec |-> 1, by |-> "this", kind |-> c.kind] : c \in calls}
                      ELSE {} : c.by = "this"
  <2>1. CASE pc = "start"
    BY <1>4, <2>1, LedgerAt
  <2>2. CASE pc = "repair"
    <3>1. PICK c \in calls : TRUE
      BY <2>2 DEF AttemptInv, Paying
    <3>2. [rec |-> 1, by |-> "this", kind |-> c.kind].by = "this"
      OBVIOUS
    <3> QED
      BY <1>4, <2>2, <3>1, <3>2, LedgerAt
  <2> QED
    BY <1>1, <2>1, <2>2
<1>10. Ledger!Goto("this", IF Ledger!At("this", "bound") THEN "calling" ELSE "repairing")
  <2>1. Ledger!At("this", "bound") <=> pc = "start"
    BY <1>1, <1>4, RequestForm DEF RequestSeen, Ledger!At
  <2>2. LedgerPc' = (IF Ledger!At("this", "bound") THEN "calling" ELSE "repairing")
    BY <1>1, <1>4, <2>1
  <2> QED
    BY <1>1, <1>2, <1>3, <1>4, <2>2, LedgerGoes DEF Apart
<1>11. HistoryStored' = HistoryStored
  BY <1>1, <1>2, <1>3 DEF HistoryStored, Settled
<1>12. UNCHANGED << IF Claimed THEN 1 ELSE 0, [r \in {"this"} |-> "asked"],
         IF req.keyed
         THEN {[rec |-> 1, by |-> "this", kind |-> c.kind] : c \in calls} ELSE {},
         IF req.keyed /\ HistoryStored THEN {[rec |-> 1, by |-> "this"]} ELSE {} >>
  BY <1>1, <1>5, <1>11
<1>13. Ledger!StartProvider("this")
  BY <1>7, <1>8, <1>9, <1>10, <1>12 DEF Ledger!StartProvider
<1> QED
  BY <1>0, <1>13 DEF LedgerStep, Ledger!Next, Ledger!Attempt

\* A call joins the calls of the row.
LEMMA CallJoins ==
  ASSUME NEW kind, req.keyed, Pay(kind), UNCHANGED <<req, row, history>>
  PROVE  /\ (IF req.keyed
             THEN {[rec |-> 1, by |-> "this", kind |-> c.kind] : c \in calls} ELSE {})'
              = (IF req.keyed
                 THEN {[rec |-> 1, by |-> "this", kind |-> c.kind] : c \in calls} ELSE {})
                \cup {[rec |-> 1, by |-> "this", kind |-> kind]}
         /\ UNCHANGED << LedgerRecord, IF Claimed THEN 1 ELSE 0, [r \in {"this"} |-> "asked"],
              IF req.keyed /\ HistoryStored THEN {[rec |-> 1, by |-> "this"]} ELSE {} >>
<1>1. {[rec |-> 1, by |-> "this", kind |-> c.kind] : c \in calls'}
        = {[rec |-> 1, by |-> "this", kind |-> c.kind] : c \in calls}
            \cup {[rec |-> 1, by |-> "this", kind |-> kind]}
  <2> DEFINE new == [kind |-> kind, at |-> now]
             Seen(c) == [rec |-> 1, by |-> "this", kind |-> c.kind]
  <2>1. calls' = calls \cup {new}
    BY DEF Pay
  <2>2. Seen(new) = [rec |-> 1, by |-> "this", kind |-> kind]
    BY DEF Seen, new
  <2> HIDE DEF new, Seen
  <2>3. {Seen(c) : c \in calls'} = {Seen(c) : c \in calls} \cup {Seen(new)}
    BY <2>1
  <2> QED
    BY <2>2, <2>3 DEF Seen
<1>2. LedgerRecord' = LedgerRecord /\ Claimed' = Claimed /\ HistoryStored' = HistoryStored
  BY DEF LedgerRecord, Claimed, Settled, HistoryStored
<1> QED
  BY <1>1, <1>2

\* The call of the attempt, or its retry
LEMMA CallSeen ==
  ASSUME AttemptInv, AttemptInv', req.keyed, CallPrimary
  PROVE  LedgerStep
<1>0. "this" \in {"this"}
  OBVIOUS
<1>1. /\ pc = "attempt" /\ pc' = "calling" /\ Pay(NextKind)
      /\ UNCHANGED <<req, row, history>>
  BY DEF CallPrimary, stored
<1>2. LedgerPc = "calling" /\ LedgerPc' = "calling"
  BY <1>1, LedgerSees, LedgerSeesNext DEF Sees, Calling
<1>3. LedgerRequest.rec = 1
  BY <1>2, RequestForm DEF RequestSeen, Apart
<1>4. \A c \in calls : c.kind = "primary"
  BY <1>1 DEF AttemptInv, Paying
<1> DEFINE paid == IF req.keyed
                   THEN {[rec |-> 1, by |-> "this", kind |-> c.kind] : c \in calls} ELSE {}
<1>5. /\ NextKind \in {"primary", "retry"}
      /\ \/ NextKind = "primary" /\ ~\E c \in paid : c.by = "this"
         \/ NextKind = "retry" /\ {c.kind : c \in {d \in paid : d.by = "this"}} = {"primary"}
  <2>1. CASE calls = {}
    <3>1. Primaries = {} /\ paid = {}
      BY <2>1 DEF Primaries
    <3> QED
      BY <3>1 DEF NextKind
  <2>2. CASE calls # {}
    <3>1. Primaries = calls /\ NextKind = "retry"
      BY <1>4, <2>2 DEF Primaries, NextKind
    <3>2. paid = {[rec |-> 1, by |-> "this", kind |-> "primary"]}
      <4>1. \A c \in calls : [rec |-> 1, by |-> "this", kind |-> c.kind]
                               = [rec |-> 1, by |-> "this", kind |-> "primary"]
        BY <1>4
      <4> QED
        BY <2>2, <4>1
    <3>3. {d \in paid : d.by = "this"} = {[rec |-> 1, by |-> "this", kind |-> "primary"]}
      <4> HIDE DEF paid
      <4> QED
        BY <3>2
    <3>4. {c.kind : c \in {d \in paid : d.by = "this"}} = {"primary"}
      <4> DEFINE one == [rec |-> 1, by |-> "this", kind |-> "primary"]
                 mine == {d \in paid : d.by = "this"}
      <4>1. one.kind = "primary" /\ mine = {one}
        BY <3>3
      <4> HIDE DEF one, mine
      <4>2. {c.kind : c \in mine} = {"primary"}
        BY <4>1
      <4> QED
        BY <4>2 DEF mine
    <3> QED
      BY <3>1, <3>4
  <2> QED
    BY <2>1, <2>2
<1>6. PICK kind \in {"primary", "retry"} : kind = NextKind
  BY <1>5
<1>7. Ledger!At("this", "calling")
  BY <1>2, LedgerAt
<1>8. Ledger!Goto("this", IF kind = "repair" THEN "finalizing" ELSE "calling")
  <2>1. LedgerPc' = (IF kind = "repair" THEN "finalizing" ELSE "calling")
    BY <1>2
  <2> QED
    BY <1>1, <1>2, <2>1, LedgerGoes
<1>9. [r \in {"this"} |-> LedgerRequest]["this"].rec = 1
  BY <1>3
<1>10. /\ (IF req.keyed
           THEN {[rec |-> 1, by |-> "this", kind |-> c.kind] : c \in calls} ELSE {})'
            = (IF req.keyed
               THEN {[rec |-> 1, by |-> "this", kind |-> c.kind] : c \in calls} ELSE {})
              \cup {[ rec |-> [r \in {"this"} |-> LedgerRequest]["this"].rec, by |-> "this",
                      kind |-> kind ]}
       /\ UNCHANGED << LedgerRecord, IF Claimed THEN 1 ELSE 0, [r \in {"this"} |-> "asked"],
            IF req.keyed /\ HistoryStored THEN {[rec |-> 1, by |-> "this"]} ELSE {} >>
  <2>1. Pay(kind)
    BY <1>1, <1>6 DEF Pay
  <2> QED
    BY <1>1, <1>9, <2>1, CallJoins
<1>11. \/ kind = "primary" /\ ~\E c \in paid : c.by = "this"
       \/ kind = "retry" /\ {c.kind : c \in {d \in paid : d.by = "this"}} = {"primary"}
  BY <1>5, <1>6
<1>12. Ledger!CallProvider("this", kind)
  BY <1>7, <1>8, <1>10, <1>11 DEF Ledger!CallProvider
<1>13. kind \in {"primary", "retry", "repair"}
  BY <1>6
<1> QED
  BY <1>0, <1>12, <1>13 DEF LedgerStep, Ledger!Next, Ledger!Attempt

\* The call of the repair
LEMMA RepairSeen ==
  ASSUME AttemptInv, AttemptInv', req.keyed, CallRepair
  PROVE  LedgerStep
<1>0. "this" \in {"this"} /\ "repair" \in {"primary", "retry", "repair"}
  OBVIOUS
<1>1. /\ pc = "repair_call" /\ pc' = "repairing" /\ Pay("repair")
      /\ UNCHANGED <<req, row, history>>
  BY DEF CallRepair, stored
<1>2. LedgerPc = "repairing" /\ LedgerPc' = "finalizing"
  BY <1>1, LedgerSees, LedgerSeesNext DEF Sees
<1>3. [r \in {"this"} |-> LedgerRequest]["this"].rec = 1
  BY <1>2, RequestForm DEF RequestSeen, Apart
<1>4. Ledger!At("this", "repairing")
  BY <1>2, LedgerAt
<1>5. Ledger!Goto("this", IF "repair" = "repair" THEN "finalizing" ELSE "calling")
  BY <1>1, <1>2, LedgerGoes DEF Apart
<1>6. /\ (IF req.keyed
          THEN {[rec |-> 1, by |-> "this", kind |-> c.kind] : c \in calls} ELSE {})'
           = (IF req.keyed
              THEN {[rec |-> 1, by |-> "this", kind |-> c.kind] : c \in calls} ELSE {})
             \cup {[ rec |-> [r \in {"this"} |-> LedgerRequest]["this"].rec, by |-> "this",
                     kind |-> "repair" ]}
      /\ UNCHANGED << LedgerRecord, IF Claimed THEN 1 ELSE 0, [r \in {"this"} |-> "asked"],
           IF req.keyed /\ HistoryStored THEN {[rec |-> 1, by |-> "this"]} ELSE {} >>
  BY <1>1, <1>3, CallJoins
<1>7. Ledger!CallProvider("this", "repair")
  BY <1>4, <1>5, <1>6 DEF Ledger!CallProvider
<1> QED
  BY <1>0, <1>7 DEF LedgerStep, Ledger!Next, Ledger!Attempt

\* The result and its History row are stored with the end of the row.
LEMMA FinalSeen ==
  ASSUME AttemptInv, AttemptInv', req.keyed, Settle
  PROVE  LedgerStep
<1>0. "this" \in {"this"}
  OBVIOUS
<1>1. /\ pc = "settle" /\ pc' = "respond" /\ row' = [row EXCEPT !.status = "completed"]
      /\ history' = (IF req.save THEN history + 1 ELSE history)
      /\ req' = req /\ calls' = calls
  BY DEF Settle, outcome
<1>2. row \in Row /\ row.status = "processing" /\ history = 0
  BY <1>1 DEF AttemptInv, TypeOK, Booking, Unclaimed, Over
<1>3. row'.status = "completed" /\ row'.bound = row.bound /\ row'.started = row.started
  BY <1>1, <1>2 DEF Row
<1>4. LedgerPc = "finalizing" /\ LedgerPc' = "answered"
  BY <1>1, <1>3, LedgerSees, LedgerSeesNext DEF Sees, Delivering
<1>5. Claimed /\ Claimed'
  BY <1>2, <1>3 DEF Claimed
<1>6. /\ LedgerRecord = RowOf("processing", row.started, row.bound, Yes, No, "nobody")
      /\ LedgerRecord' = RowOf("completed", row.started, row.bound, Yes, No, "this")
  BY <1>2, <1>3, <1>5, RecordFormed, RecordFormedNext DEF RecordForm
<1>7. LedgerRecord' = [LedgerRecord EXCEPT !.status = "completed", !.result = "this"]
  <2>1. Finishing(LedgerRecord, "completed", "this") = LedgerRecord'
    BY <1>6, FinalWrites
  <2> QED
    BY <2>1 DEF Finishing
<1>8. LedgerRequest' = [[LedgerRequest EXCEPT !.pc = "answered"] EXCEPT !.answer = "this"]
  <2>1. LedgerRequest = [ pc |-> "finalizing", rec |-> 1, bound |-> row.bound, doomed |-> 0,
                          answer |-> "nobody" ]
    BY <1>2, <1>4, RequestForm DEF RequestSeen, Apart
  <2>2. LedgerRequest' = [ pc |-> "answered", rec |-> 1, bound |-> row.bound, doomed |-> 0,
                           answer |-> "this" ]
    BY <1>3, <1>4, RequestFormNext DEF RequestSeen, Apart
  <2> DEFINE one == [LedgerRequest EXCEPT !.pc = "answered"]
  <2>3. one = [ pc |-> "answered", rec |-> 1, bound |-> row.bound, doomed |-> 0,
                answer |-> "nobody" ]
    BY <2>1
  <2> HIDE DEF one
  <2>4. [one EXCEPT !.answer = "this"] = LedgerRequest'
    BY <2>2, <2>3
  <2> QED
    BY <2>4 DEF one
<1>9. [r \in {"this"} |-> LedgerRequest]'
        = [[r \in {"this"} |-> LedgerRequest] EXCEPT
             !["this"].pc = "answered", !["this"].answer = "this"]
  BY <1>8, PlaceAndAnswer
<1>10. ~HistoryStored /\ HistoryStored'
  BY <1>1, <1>2, <1>3 DEF HistoryStored, Settled
<1>11. LedgerRecord.id = 1
  BY <1>6 DEF RowOf
<1>12. (IF req.keyed /\ HistoryStored THEN {[rec |-> 1, by |-> "this"]} ELSE {})'
         = (IF req.keyed /\ HistoryStored THEN {[rec |-> 1, by |-> "this"]} ELSE {})
             \cup {[rec |-> LedgerRecord.id, by |-> "this"]}
  BY <1>1, <1>10, <1>11
<1>13. UNCHANGED << IF Claimed THEN 1 ELSE 0, [r \in {"this"} |-> "asked"],
         IF req.keyed
         THEN {[rec |-> 1, by |-> "this", kind |-> c.kind] : c \in calls} ELSE {} >>
  BY <1>1, <1>5
<1>14. Ledger!At("this", "finalizing") /\ Ledger!Holds("this")
  BY <1>2, <1>4, LedgerAt, HoldsRow DEF Apart
<1>15. Ledger!Finalize("this")
  BY <1>7, <1>9, <1>12, <1>13, <1>14 DEF Ledger!Finalize
<1> QED
  BY <1>0, <1>15 DEF LedgerStep, Ledger!Next, Ledger!Attempt

\* An error answer closes the row, or leaves it.
LEMMA FailSeen ==
  ASSUME AttemptInv, AttemptInv', req.keyed, AnswerError
  PROVE  LedgerStep
<1>0. "this" \in {"this"}
  OBVIOUS
<1>1. /\ pc = "error" /\ pc' = "answered" /\ req' = req /\ calls' = calls
      /\ history' = history
  BY DEF AnswerError, outcome
<1>2. row \in Row /\ row.status \in {"none", "processing"}
  BY <1>1 DEF AttemptInv, TypeOK, Booking
<1>3. Sees /\ Sees'
  BY LedgerSees, LedgerSeesNext
<1>4. CASE row' = row
  <2>1. LedgerPc \in {"cleanup", "ended", "failing"} /\ LedgerPc' = "ended"
    BY <1>1, <1>2, <1>3, <1>4 DEF Sees, Gone
  <2>2. Unseen
    BY <1>1, <1>4 DEF Unseen
  <2> QED
    BY <1>2, <2>1, <2>2, UnseenStep
<1>5. CASE row' # row
  <2> DEFINE end == IF row.started THEN "indeterminate" ELSE "failed"
  <2>1. row.status = "processing" /\ row' = [row EXCEPT !.status = end]
    BY <1>5 DEF AnswerError
  <2>2. row'.status = end /\ row'.bound = row.bound /\ row'.started = row.started
    BY <1>2, <2>1 DEF Row
  <2>3. Claimed /\ Claimed' /\ row'.status # "completed"
    BY <2>1, <2>2 DEF Claimed
  <2>4. LedgerPc = "failing" /\ LedgerPc' = "ended"
    BY <1>1, <1>3, <2>3 DEF Sees, Gone
  <2>5. /\ LedgerRecord = RowOf("processing", row.started, row.bound, Yes, No, "nobody")
        /\ LedgerRecord' = RowOf(end, row.started, row.bound, Yes, No, "nobody")
    BY <2>1, <2>2, <2>3, RecordFormed, RecordFormedNext DEF RecordForm
  <2>6. LedgerRecord.started = row.started
    BY DEF LedgerRecord
  <2>7. LedgerRecord'
          = [LedgerRecord EXCEPT !.status = IF LedgerRecord.started THEN "indeterminate"
                                                                    ELSE "failed"]
    <3>1. Closing(LedgerRecord, end) = LedgerRecord'
      <4> HIDE DEF end
      <4> QED
        BY <2>5, CloseWrites
    <3>2. end = IF LedgerRecord.started THEN "indeterminate" ELSE "failed"
      BY <2>6
    <3> QED
      BY <3>1, <3>2 DEF Closing
  <2>8. Ledger!At("this", "failing") /\ Ledger!Current("this")
    BY <2>1, <2>4, LedgerAt, HoldsRow DEF Apart
  <2>9. Ledger!Leave("this")
    BY <2>3, <2>4, LedgerLeaves
  <2>10. HistoryStored' = HistoryStored
    BY <1>1, <2>1, <2>3 DEF HistoryStored, Settled
  <2>11. UNCHANGED << IF Claimed THEN 1 ELSE 0, [r \in {"this"} |-> "asked"],
           IF req.keyed
           THEN {[rec |-> 1, by |-> "this", kind |-> c.kind] : c \in calls} ELSE {},
           IF req.keyed /\ HistoryStored THEN {[rec |-> 1, by |-> "this"]} ELSE {} >>
    BY <1>1, <2>3, <2>10
  <2>12. LedgerRecord'
           = IF Ledger!Current("this")
             THEN [LedgerRecord EXCEPT !.status = IF LedgerRecord.started THEN "indeterminate"
                                                                          ELSE "failed"]
             ELSE LedgerRecord
    BY <2>7, <2>8
  <2>13. Ledger!FailUnfinalized("this")
    BY <2>8, <2>9, <2>11, <2>12 DEF Ledger!FailUnfinalized
  <2> QED
    BY <1>0, <2>13 DEF LedgerStep, Ledger!Next, Ledger!Attempt
<1> QED
  BY <1>4, <1>5

\* A request without a key never meets the ledger.
LEMMA KeylessStep ==
  ASSUME AttemptInv, AttemptInv', ~req.keyed, req' = req
  PROVE  UNCHANGED Ledger!vars
<1>1. row = NoRow /\ row' = NoRow
  BY DEF AttemptInv, Booking
<1>2. LedgerPc = "cleanup" /\ LedgerPc' = "cleanup"
  BY LedgerSees, LedgerSeesNext DEF Sees
<1>3. Unseen
  BY <1>1 DEF Unseen
<1> QED
  BY <1>2, <1>3, LedgerStutters

\* What is asked for never changes.
LEMMA RequestStays == Kinds => req' = req
BY DEF Kinds, Walks, Breaks, StepFails, Blocked, Fallback, SelectFallback, Content, Accepted,
       Accept, EntersPhase, NeedsRepair, InTime, ClaimWon, Replays, Normalize,
       ProviderStarted, CallPrimary, CallRetries, BackoffEnds, CallRepair, Settle,
       UpdateSteps, Respond, AnswerError, LedgerRefuses, TimePasses, Crash

\* Every step of the handler is one of the ledger, or none.
LEMMA HandlerStep ==
  ASSUME AttemptInv, AttemptInv', [Next]_vars
  PROVE  LedgerStep
<1>1. CASE UNCHANGED vars
  <2>1. Unseen /\ LedgerPc' = LedgerPc
    BY <1>1 DEF vars, Unseen, LedgerPc, Claimed, Gone
  <2> QED
    BY <2>1, LedgerStutters DEF LedgerStep
<1>2. CASE Kinds
  <2>1. CASE ~req.keyed
    BY <1>2, <2>1, RequestStays, KeylessStep DEF LedgerStep
  <2>2. CASE req.keyed
    BY <1>2, <2>2, UnseenKinds, InsertSeen, BindSeen, StartSeen, CallSeen, RepairSeen,
       FinalSeen, FailSeen
  <2> QED
    BY <2>1, <2>2
<1> QED
  BY <1>1, <1>2, StepKinds

\* It begins as the ledger does.
LEMMA HandlerStarts == Init => Ledger!Init
<1> SUFFICES ASSUME Init PROVE Ledger!Init
  OBVIOUS
<1>1. row = NoRow /\ pc = "validate_input" /\ calls = {} /\ history = 0
  BY DEF Init, NoRow
<1>2. ~Claimed /\ ~Settled /\ ~HistoryStored
  BY <1>1 DEF Claimed, Settled, HistoryStored, NoRow
<1>3. steps["acquire_job_description"] = "open"
  <2>1. "acquire_job_description" \in Steps
    BY StepNames
  <2> QED
    BY <2>1 DEF Init
<1>4. LedgerPc = "cleanup"
  BY <1>1, <1>2, <1>3 DEF LedgerPc, Gone
<1>5. LedgerRequest = [ pc |-> "cleanup", rec |-> 0, bound |-> "none", doomed |-> 0,
                        answer |-> "nobody" ]
  BY <1>1, <1>4, RequestForm DEF RequestSeen, Apart, NoRow
<1>6. (CHOOSE p \in {"asked"} : TRUE) = "asked"
  OBVIOUS
<1>7. LedgerRecord = Ledger!NoRecord
  <2>1. row.status = "none" /\ row.started = No /\ row.bound = "none"
    BY <1>1 DEF NoRow, No
  <2>2. Claimed = No /\ FALSE = No
    BY <1>2 DEF No
  <2>3. LedgerRecord = [ id |-> 0, status |-> "none", print |-> "asked", token |-> "nobody",
                         started |-> No, bound |-> "none", live |-> No, expired |-> No,
                         result |-> "nobody" ]
    BY <1>2, <2>1, <2>2 DEF LedgerRecord
  <2> QED
    BY <1>6, <2>3 DEF Ledger!NoRecord, No
<1>8. [r \in {"this"} |-> LedgerRequest]
        = [r \in {"this"} |-> [ pc |-> "cleanup", rec |-> 0, bound |-> "none", doomed |-> 0,
                                answer |-> "nobody" ]]
  BY <1>5
<1>9. [r \in {"this"} |-> "asked"] \in [{"this"} -> {"asked"}]
  OBVIOUS
<1>10. (IF Claimed THEN 1 ELSE 0) = 0
  BY <1>2
<1>11. /\ (IF req.keyed
           THEN {[rec |-> 1, by |-> "this", kind |-> c.kind] : c \in calls} ELSE {}) = {}
       /\ (IF req.keyed /\ HistoryStored THEN {[rec |-> 1, by |-> "this"]} ELSE {}) = {}
  BY <1>1, <1>2
<1> QED
  BY <1>7, <1>8, <1>9, <1>10, <1>11 DEF Ledger!Init

\* Whatever the input, the provider, the clock and the database do, a request claims,
\* binds, marks the start, calls, and finalizes or fails its row in the way
\* AnalyzeIdempotency lets a request do it.
THEOREM HandlerImplementsLedger == Spec => ImplementsLedger
<1>1. AttemptInv /\ AttemptInv' /\ [Next]_vars => [Ledger!Next]_(Ledger!vars)
  BY HandlerStep DEF LedgerStep
<1> QED
  BY <1>1, HandlerStarts, AttemptInvariant, PTL DEF Spec, ImplementsLedger, Ledger!Spec
==============================================================================
