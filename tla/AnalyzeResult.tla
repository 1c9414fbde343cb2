----------------------------- MODULE AnalyzeResult ----------------------------
(***************************************************************************)
(* What an analysis says: from the content of the model's answer, or from  *)
(* the local fallback, to the result the client gets                       *)
(* (backend/legacy_application.py, app/analyze/result_refinement.py,       *)
(* analysis_fallback.py and recommendation_engine.py).  When the steps     *)
(* run, how long they may take and what they store is in AnalyzeAttempt.   *)
(***************************************************************************)
EXTENDS OutputContract, FiniteSetsExt

CONSTANTS
  Asked,        \* what may be asked: resume, job and knowledge, as the code reads them
  Contents(_),  \* what the model may answer a request with
  Repairs,      \* what the format repair may answer with
  Unsupported,  \* the texts that state what no source supports
  Covering,     \* pairs of skills, the second one part of the name of the first
  NoSkill,      \* the entry that says that no skill is asked for
  Rank,         \* the place of a skill in SKILLS
  MaxListed     \* skills listed as matched, and as missing: 12

VARIABLES
  ask,       \* the request
  stage,     \* the step that is next
  draft,     \* the result so far
  status,    \* analysis_status
  warnings,  \* analysis_warnings
  content    \* the content that is looked at

resultVars == <<ask, stage, draft, status, warnings, content>>

-----------------------------------------------------------------------------
(* The request.  Of a skill the job asks for: whether the resume has its     *)
(* word (keyword); whether the resume states it, under this or an equivalent *)
(* name and not in the negative (resume); whether a chunk of the knowledge   *)
(* does (chunk).                                                             *)

Skills == DOMAIN ask.skills
ByKeyword(k) == ask.skills[k].keyword

\* rag_evidence_contains_skill, skill_synonym_variants
InResume(k) == ask.skills[k].resume
InChunks(k) == ask.retrieved /\ ask.skills[k].chunk

\* keyword_skill_states: of the skills in the order of SKILLS, the first of each list; what
\* a list has no room for is in none, and nothing says so.
Kept(skills) ==
  {k \in skills : Cardinality({j \in skills : Rank[j] < Rank[k]}) < MaxListed}

KeywordMatched == Kept({k \in Skills : ByKeyword(k)})
KeywordMissing == Kept({k \in Skills : ~ByKeyword(k)})
Considered == KeywordMatched \cup KeywordMissing

-----------------------------------------------------------------------------
(* The draft of the result *)

Backend(token) == [token |-> token, length |-> 0]
JobSummary == Backend("deterministic_job_summary")
MatchReasons == Backend("deterministic_match_reasons")
\* build_match_reason_fallback, from the scores the model has not been asked for
WeightedReason == Backend("weighted_match_reason")

Draft(matched, missing, summary, reason, recommendations, improvements, older) ==
  [ matched |-> matched, missing |-> missing, unknown |-> {},
    keywords |-> [matched |-> matched, missing |-> missing],
    summary |-> summary, reason |-> reason,
    recommendations |-> recommendations,
    suggestions |-> recommendations \cup improvements,
    dimensions |-> older.dimensions, references |-> older.references, claims |-> older.claims,
    mapping |-> << >>, score |-> 0, action |-> "none" ]

\* local_fallback_result
LocalFallback ==
  LET missing == IF Considered = {} THEN {NoSkill} ELSE KeywordMissing
      advice == {Backend("add_evidence") : k \in missing}
                  \cup {Backend("keep_near_evidence") : k \in KeywordMatched}
  IN  Draft(KeywordMatched, missing, {JobSummary}, {MatchReasons}, advice, {},
            [dimensions |-> << >>, references |-> {}, claims |-> {}])

\* compact_analysis_to_result and normalize_result; the reason of the model comes before
\* the one that is derived from the skills.  One given as a single text replaces both
\* (model_response_to_result).
Converted(c) ==
  Draft(KeywordMatched, KeywordMissing,
        IF c.job_summary = {} THEN {JobSummary} ELSE c.job_summary,
        IF c.match_reason = {} THEN c.match_reasons \cup {WeightedReason} ELSE c.match_reason,
        c.recommendations, c.resume_improvements,
        [dimensions |-> c.concise_dimension_assessments, references |-> c.evidence_references,
         claims |-> c.unsupported_claim_candidates])

\* sanitize_provider_narratives
Supported(texts) == {t \in texts : t.token \notin Unsupported}

Sanitized(d) ==
  [d EXCEPT !.summary = Supported(@), !.reason = Supported(@),
            !.recommendations = Supported(@), !.suggestions = Supported(@)]

-----------------------------------------------------------------------------

Init ==
  /\ ask \in Asked
  /\ stage = "run_llm_analysis"
  /\ draft = LocalFallback
  /\ status = "none" /\ warnings = {} /\ content = [form |-> "blank"]

\* _select_provider_fallback
Fallback ==
  /\ stage' = "validate_evidence_references"
  /\ draft' = LocalFallback /\ status' = "fallback"
  /\ warnings' = warnings \cup {"fallback"}
  /\ UNCHANGED <<ask, content>>

\* adapt_provider_completion: an answer that was cut off, is too long or is empty is none.
Answers(completion) ==
  completion.finish \notin {"length", "resource"} /\ completion.size = "within"

RunLlmAnalysis ==
  /\ stage = "run_llm_analysis"
  /\ \E completion \in [finish: {"stop", "other", "length", "resource"},
                        size: {"blank", "within", "too_large"}] :
       IF Answers(completion)
         THEN \E c \in Contents(ask) :
                /\ content' = c /\ stage' = "parse_model_json"
                /\ UNCHANGED <<ask, draft, status, warnings>>
         ELSE Fallback

\* model_response_to_result, sanitize_provider_result_narratives: the content c, of which
\* `used` is used
Accepted(c, used, repaired) ==
  \E plain \in {Converted(used.fields)} :
    LET parsed == IF used.actions # {} THEN "partial"
                  ELSE IF repaired \/ ParseWarnings(c) # {} THEN "repaired" ELSE "complete"
        removed == Sanitized(plain) # plain
    IN  /\ stage' = "validate_evidence_references"
        /\ draft' = Sanitized(plain) /\ content' = c
        /\ status' = IF removed /\ parsed = "complete" THEN "partial" ELSE parsed
        /\ warnings' = warnings \cup When(repaired, "repair_call") \cup ParseWarnings(c)
                         \cup ContractWarnings(Data(c)) \cup SalvageWarnings(used.actions)
                         \cup When(removed, "narratives_removed")
        /\ UNCHANGED ask

\* What cannot be used is repaired once, if there is still a call to spend on it.
ParseModelJson ==
  /\ stage = "parse_model_json"
  /\ \E read \in {Read(content)} :
       \/ read.usable /\ Accepted(content, read, FALSE)
       \/ /\ ~read.usable /\ content.form # "too_deep"
          /\ \E c \in Repairs : \E used \in {Read(c)} :
               IF used.usable THEN Accepted(c, used, TRUE) ELSE Fallback
       \/ ~read.usable /\ Fallback

-----------------------------------------------------------------------------
(* refine_analyze_result *)

\* What a step finds fault with turns a complete result into a partial one.
Downgraded(faults, warning) ==
  /\ status' = IF faults # {} /\ status = "complete" THEN "partial" ELSE status
  /\ warnings' = warnings \cup {warning : f \in faults}

\* coordinate_skill_states
Coordinated(d) ==
  [d EXCEPT !.missing = @ \ d.matched, !.unknown = @ \ (d.matched \cup d.missing)]

ChunkId == "pk:1"
Holds(id, k) == (id = "resume" /\ InResume(k)) \/ (id = ChunkId /\ InChunks(k))

\* The citations of matched skills, and of dimensions, that the request does not bear out
RejectedCitations ==
  (UNION {{<<r.skill, id>> : id \in {i \in r.ids : ~Holds(i, r.skill)}} :
            r \in {s \in draft.references : s.skill \in draft.matched}})
  \cup UNION {{<<d, t.token>> : t \in {e \in draft.dimensions[d].evidence :
                  e.token # "resume" /\ ~(e.token = ChunkId /\ ask.retrieved)}} :
                d \in DOMAIN draft.dimensions}

\* Mutant: a skill that nothing supports is dropped.
DropUnsupported(d) == [d EXCEPT !.matched = {k \in d.matched : InResume(k) \/ InChunks(k)}]

\* validate_model_evidence_references: cited or not, a match needs a source of its own.
SetAsideUnsupported(d) ==
  LET supported == {k \in d.matched : InResume(k) \/ InChunks(k)}
  IN  [d EXCEPT !.matched = supported, !.unknown = @ \cup (d.matched \ supported)]

ValidateEvidenceReferences ==
  /\ stage = "validate_evidence_references" /\ stage' = "reconcile_evidence"
  /\ draft' = Coordinated(SetAsideUnsupported(draft))
  /\ Downgraded(RejectedCitations, "references_ignored")
  /\ UNCHANGED <<ask, content>>

\* apply_rag_supported_skill_corrections: of these, what the knowledge has
Corrected(skills) == {k \in skills \ {NoSkill} : InChunks(k)}

\* reconcile_result_with_rag_evidence, which also says so in the reason; the score it
\* computes is replaced below.
Reconciled(d) ==
  LET skills == Corrected(d.missing)
      terms == Corrected(d.keywords.missing)
  IN  Coordinated([d EXCEPT
        !.matched = @ \cup skills, !.missing = @ \ skills,
        !.keywords = [matched |-> @.matched \cup terms, missing |-> @.missing \ terms],
        !.reason = @ \cup {Backend("knowledge_supports") : k \in skills \cup terms}])

\* build_evidence_mapping
Source(k) == IF InResume(k) THEN "resume" ELSE IF InChunks(k) THEN "project_knowledge" ELSE "unknown"

\* enforce_analysis_grounding: what is still unsupported is missing.
Grounded(d) ==
  LET supported == {k \in d.matched : Source(k) # "unknown"}
  IN  [d EXCEPT !.matched = supported, !.missing = @ \cup (d.matched \ supported),
                !.mapping = [k \in supported |-> Source(k)], !.claims = {}]

UnsupportedClaims == {t \in draft.claims : t.token \in Unsupported}

\* a hundred times n/m, rounded to even
Rounded(n, m) ==
  LET q == n \div m
      twice == 2 * (n % m)
  IN  IF twice > m \/ (twice = m /\ q % 2 = 1) THEN q + 1 ELSE q

\* calculate_weighted_match_score
Weighted(overlap, project, education, work) ==
  Rounded(35 * overlap + 25 * project + 15 * education + 15 * work + 10 * overlap, 100)

\* deterministic_scoring
Scored(d) ==
  LET m == Cardinality(d.matched)
      total == m + Cardinality(d.missing) + Cardinality(d.unknown)
      share(weight, bonus) ==
        IF total = 0 THEN Least(100, bonus)
        ELSE Rounded(Least(100 * total, weight * m + bonus * total), total)
      bonus(fact, n) == IF fact THEN n ELSE 0
      overlap == share(100, 0)
      project == share(75, bonus(ask.project, 20) + bonus(ask.retrieved, 5))
      work == share(75, bonus(ask.work, 25))
      education == bonus(ask.education = "present", 100)
  IN  [d EXCEPT !.score = Weighted(overlap, project, education, work)]

\* ensure_deterministic_narratives: 320 characters each
TotalLength(texts) == MapThenSumSet(LAMBDA t : t.length, texts)
Shortened(texts) ==
  IF TotalLength(texts) <= 16 THEN texts ELSE {[token |-> "the first 320 characters", length |-> 16]}

Narrated(d) ==
  [d EXCEPT !.summary = IF @ = {} THEN {JobSummary} ELSE Shortened(@),
            !.reason = IF @ = {} THEN {MatchReasons} ELSE Shortened(@)]

\* The recommendations are told twice, the suggestions only if there are none.
Listed(d) ==
  LET told == IF d.recommendations # {} THEN d.recommendations ELSE d.suggestions
  IN  [d EXCEPT !.recommendations = told, !.suggestions = told]

ReconcileEvidence ==
  /\ stage = "reconcile_evidence" /\ stage' = "recommend_next_action"
  /\ draft' = Listed(Narrated(Scored(Grounded(Reconciled(draft)))))
  /\ Downgraded(UnsupportedClaims, "claims_removed")
  /\ UNCHANGED <<ask, content>>

-----------------------------------------------------------------------------
(* recommendation_engine.py *)

\* is_supported_by_evidence: by the name of a skill that is matched, or was by keyword
Covered(k) ==
  \E other \in draft.matched \cup draft.keywords.matched : other = k \/ <<other, k>> \in Covering

\* identify_critical_missing_skills: each of them is a technical gap, being asked for.
Critical == {k \in draft.missing \cup draft.keywords.missing : ~Covered(k)}

\* generate_next_action
NextAction ==
  LET gaps == Least(Cardinality(Critical), 8) IN
  CASE draft.score >= 85 /\ gaps = 0 -> "apply_now"
    [] draft.score < 85 \/ gaps # 0 ->
         IF draft.score >= 70 \/ (draft.score >= 65 /\ gaps <= 2) THEN "improve_resume_first"
         ELSE IF draft.score >= 55 THEN "upskill_first"
         ELSE IF draft.score >= 40 THEN "save_for_later"
         ELSE "skip"

RecommendNextAction ==
  /\ stage = "recommend_next_action" /\ stage' = "final_output_scan"
  /\ draft' = [draft EXCEPT !.action = NextAction]
  /\ UNCHANGED <<ask, status, warnings, content>>

\* The serialized result is scanned once more, and delivered or refused.
FinalOutputScan ==
  /\ stage = "final_output_scan" /\ stage' \in {"delivered", "refused"}
  /\ UNCHANGED <<ask, draft, status, warnings, content>>

Next ==
  \/ RunLlmAnalysis \/ ParseModelJson
  \/ ValidateEvidenceReferences \/ ReconcileEvidence \/ RecommendNextAction \/ FinalOutputScan

Spec == Init /\ [][Next]_resultVars

-----------------------------------------------------------------------------
TypeOK ==
  /\ ask \in Asked
  /\ status \in {"none", "complete", "repaired", "partial", "fallback"}
  /\ draft.matched \cup draft.missing \cup draft.unknown \subseteq Considered \cup {NoSkill}
  /\ draft.score \in 0..100
  /\ draft.action \in {"none", "apply_now", "improve_resume_first", "upskill_first",
                       "save_for_later", "skip"}

Delivered == stage = "delivered"

\* Skills the job asks for that come before k in SKILLS and are told like it by their word
Ahead(k) == {j \in Skills : (ByKeyword(j) <=> ByKeyword(k)) /\ Rank[j] < Rank[k]}

\* Whoever wrote the analysis: a skill the job asks for is said to be matched, missing or
\* unknown, and only one of these, unless MaxListed others were ahead of it in the list it
\* began in; it is matched exactly if a source is named that states it, and it is never
\* missing when the knowledge that was retrieved has it; and "apply now" is not said beside
\* a missing skill, unless another that is not missing covers it.
SkillsAccounted ==
  Delivered =>
    /\ \A k \in Skills :
         k \in draft.matched \cup draft.missing \cup draft.unknown
           <=> Cardinality(Ahead(k)) < MaxListed
    /\ draft.matched \cap draft.missing = {}
    /\ draft.unknown \cap (draft.matched \cup draft.missing) = {}
    /\ DOMAIN draft.mapping = draft.matched
    /\ \A k \in draft.matched :
         IF draft.mapping[k] = "resume" THEN InResume(k) ELSE InChunks(k)
    /\ \A k \in draft.missing \ {NoSkill} : ~InChunks(k)
    /\ draft.action = "apply_now" =>
         \A k \in draft.missing :
           \E other \in Considered \ draft.missing : <<other, k>> \in Covering

\* What the answer of the active contract says, under the names it was asked for
Said(field) ==
  LET fields == content.value.fields IN
  IF field \notin DOMAIN fields THEN {}
  ELSE LET v == fields[field]
           values == IF v.type = "list" THEN {v.items[i] : i \in DOMAIN v.items} ELSE {v}
       IN  {[token |-> u.token, length |-> u.length] : u \in {w \in values : IsText(w)}}

Active == ~LegacyPresent(Data(content))

\* A field is given under two of its names, of which only the first is read.
GivenTwice ==
  \E f \in DOMAIN ProviderAliases : Cardinality(NamesGiven(f, ProviderAliases, Data(content))) > 1

\* A result that calls itself complete hides nothing of the model's answer: the summary and
\* the recommendations are the model's own, none shortened, dropped or added, and it comes
\* with no warning but of the names and the null of a field that was given twice.
CompleteHidesNothing ==
  Delivered /\ status = "complete" /\ Active =>
    /\ warnings \subseteq {"aliases", "nulls"} /\ (warnings # {} => GivenTwice)
    /\ draft.summary = IF Said("job_summary") = {} THEN {JobSummary} ELSE Said("job_summary")
    /\ Said("recommendations") # {} => draft.recommendations = Said("recommendations")
==============================================================================
