---------------------------- MODULE OutputContract ----------------------------
(***************************************************************************)
(* backend/analysis_contract.py: what is taken from the JSON a model       *)
(* answers with.  A response is parsed, each of its fields is salvaged on  *)
(* its own, with a note of what was done to it, and the whole is accepted  *)
(* if some judgment is left.                                               *)
(*                                                                         *)
(* A text is a token and a length in units of twenty characters, so that   *)
(* the bounds are those of the code.  A list that is salvaged loses its    *)
(* duplicates, and is a set here.  Of the aliases of a field one or two    *)
(* stand for all, those among them that two fields share.                  *)
(***************************************************************************)
EXTENDS Integers, FiniteSets, Sequences

-----------------------------------------------------------------------------
(* JSON *)

Null == [type |-> "null"]
Number(n) == [type |-> "number", value |-> n]
String(token, length) ==
  [type |-> "string", token |-> token, length |-> length, digits |-> {}]
Numeral(n) == [String("numeral", 1) EXCEPT !.digits = {n}]
List(items) == [type |-> "list", items |-> items]
Object(fields) == [type |-> "object", fields |-> fields]

\* A string that is not blank
IsText(v) == v.type = "string" /\ v.token # ""

-----------------------------------------------------------------------------
(* The fields *)

ProviderAliases ==
  [ job_summary         |-> <<"summary">>,
    match_reasons       |-> <<"reasons", "match_reason">>,
    recommendations     |-> <<"suggestions">>,
    resume_improvements |-> <<"improvements">> ]

TopLevelAliases ==
  [ matched_skills |-> <<"matches">>, missing_skills |-> <<"gaps">>,
    unknown_skills |-> <<"unknowns">>,
    concise_dimension_assessments |-> <<"dimensions">>,
    evidence_references |-> <<"evidence_mapping">>,
    unsupported_claim_candidates |-> <<"unsupported_claims">>,
    concise_recommendations |-> <<"recommendations", "suggestions">> ]

RequiredFields == {"matched_skills", "missing_skills", "unknown_skills", "concise_recommendations"}

DimensionAliases ==
  [ skills_match |-> <<"skills">>, project_experience |-> <<"projects">>, education |-> << >>,
    work_experience |-> <<"experience">>, keyword_match |-> <<"keywords">> ]

DimensionValueAliases ==
  [score |-> <<"rating">>, assessment |-> <<"comment">>, evidence_ids |-> <<"evidence">>]

ReferenceAliases == [skill |-> <<"name", "requirement">>, evidence_ids |-> <<"evidence">>]

Names(field, aliases) == <<field>> \o aliases[field]
NamesOf(aliases) ==
  UNION {{Names(f, aliases)[i] : i \in DOMAIN Names(f, aliases)} : f \in DOMAIN aliases}

\* The name a field is given under: its own before its aliases, in their order.  (Of a
\* nested field given twice the first in the object counts; none is given twice here.)
NamesGiven(field, aliases, data) ==
  {i \in DOMAIN Names(field, aliases) : Names(field, aliases)[i] \in DOMAIN data}
IsGiven(field, aliases, data) == NamesGiven(field, aliases, data) # {}
SourceKey(field, aliases, data) ==
  LET given == NamesGiven(field, aliases, data)
  IN  Names(field, aliases)[CHOOSE i \in given : \A j \in given : i <= j]

KnownKeys == NamesOf(ProviderAliases) \cup NamesOf(TopLevelAliases)

-----------------------------------------------------------------------------
(* Salvage of one value: what is left of it, and what was done *)

Salvaged(value, actions) == [value |-> value, actions |-> actions]
Noted(salvaged, actions) == [salvaged EXCEPT !.actions = @ \cup actions]
When(condition, action) == IF condition THEN {action} ELSE {}
Least(a, b) == IF a <= b THEN a ELSE b

\* _clean_salvage_string, _clean_text
CutAction(v, maximum) == When(v.type = "string" /\ v.length > maximum, "text_truncated")
Clean(v, maximum) == [token |-> v.token, length |-> Least(v.length, maximum)]
Texts(values, maximum) == {Clean(v, maximum) : v \in {u \in values : IsText(u)}}

\* The items a loop looks at that stops with the one that makes its list full
Seen(items, Accepted(_), maximum) ==
  LET good == {i \in DOMAIN items : Accepted(items[i])}
      last == {i \in good : Cardinality({j \in good : j <= i}) = maximum}
  IN  SubSeq(items, 1, IF last = {} THEN Len(items) ELSE CHOOSE i \in last : TRUE)

\* _salvage_string_list
StringList(v, maximum, length, rejectsBlank) ==
  CASE v.type = "null" -> Salvaged({}, {"null_field_defaulted"})
    [] v.type = "string" ->
         Salvaged(Texts({v}, length),
                  {"scalar_to_list"} \cup CutAction(v, length)
                    \cup When(rejectsBlank /\ ~IsText(v), "invalid_list_item_removed"))
    [] v.type = "list" ->
         LET seen == Seen(v.items, IsText, maximum)
             values == {seen[i] : i \in DOMAIN seen}
             kept == {i \in DOMAIN seen : IsText(seen[i])}
         IN  Salvaged(Texts(values, length),
               (UNION {CutAction(u, length) : u \in values})
                 \cup When(\E u \in values : ~IsText(u), "invalid_list_item_removed")
                 \cup When(Cardinality(kept) = maximum /\ Len(v.items) > maximum,
                           "list_truncated"))
    [] v.type \notin {"null", "string", "list"} -> Salvaged({}, {"invalid_field_defaulted"})

\* A field with a single text; a null or another type leaves it empty.
SingleText(v, length) ==
  CASE v.type = "null" -> Salvaged({}, {"null_field_defaulted"})
    [] v.type = "string" -> Salvaged(Texts({v}, length), CutAction(v, length))
    [] v.type \notin {"null", "string"} -> Salvaged({}, {"invalid_field_defaulted"})

\* _salvage_narrative_field, with the bounds of each field
MaximumItems == [match_reasons |-> 5, recommendations |-> 5, resume_improvements |-> 4]

MaximumLength(field, key) ==
  CASE field = "job_summary" -> IF key = field THEN 16 ELSE 24
    [] field \in {"match_reasons", "recommendations"} -> 9
    [] field = "resume_improvements" -> 11

NarrativeField(v, field, key) ==
  IF field = "job_summary"
    THEN SingleText(v, MaximumLength(field, key))
    ELSE StringList(v, MaximumItems[field], MaximumLength(field, key), FALSE)

\* _score, _salvage_score
Bounded(n) == IF n < 0 THEN 0 ELSE Least(n, 100)

Score(v) ==
  LET clamped(n) == When(Bounded(n) # n, "score_clamped") IN
  CASE v.type = "null" -> Salvaged(0, {"null_field_defaulted"})
    [] v.type = "string" /\ v.digits # {} ->
         LET n == CHOOSE d \in v.digits : TRUE
         IN  Salvaged(Bounded(n), {"numeric_string_normalized"} \cup clamped(n))
    [] v.type = "number" -> Salvaged(Bounded(v.value), clamped(v.value))
    [] OTHER -> Salvaged(0, {"invalid_field_defaulted"})

-----------------------------------------------------------------------------
(* Salvage of the older, nested fields *)

Unassessed == [score |-> 0, assessment |-> {}, evidence |-> {}]

Unknown(fields, aliases) == When(DOMAIN fields \ NamesOf(aliases) # {}, "unknown_nested_field_ignored")
Renamed(fields, aliases) ==
  When(\E f \in DOMAIN aliases : IsGiven(f, aliases, fields) /\ f \notin DOMAIN fields,
       "field_alias_normalized")

\* The value of a nested field, or what it is when it is not given
Nested(field, aliases, fields, Salvage(_), default) ==
  IF IsGiven(field, aliases, fields)
    THEN Salvage(fields[SourceKey(field, aliases, fields)])
    ELSE Salvaged(default, {})

\* _salvage_dimension_value
DimensionValue(v) ==
  CASE v.type = "null" -> Salvaged(Unassessed, {"null_field_defaulted"})
    [] v.type = "string" -> Salvaged([Unassessed EXCEPT !.assessment = Texts({v}, 12)], {})
    [] v.type = "number" -> Salvaged([Unassessed EXCEPT !.score = Bounded(v.value)], {})
    [] v.type = "list" -> Salvaged(Unassessed, {"invalid_field_defaulted"})
    [] v.type = "object" ->
         LET part(field, Salvage(_), default) ==
               Nested(field, DimensionValueAliases, v.fields, Salvage, default)
             score == part("score", Score, 0)
             assessment == part("assessment", LAMBDA u : SingleText(u, 12), {})
             evidence == part("evidence_ids", LAMBDA u : StringList(u, 5, 4, TRUE), {})
         IN  Salvaged([score |-> score.value, assessment |-> assessment.value,
                       evidence |-> evidence.value],
                      score.actions \cup assessment.actions \cup evidence.actions
                        \cup Unknown(v.fields, DimensionValueAliases)
                        \cup Renamed(v.fields, DimensionValueAliases))

\* _canonical_dimension_name of a list item
DimensionsNamed(item) ==
  IF item.type # "object" \/ "dimension" \notin DOMAIN item.fields THEN {}
  ELSE {d \in DOMAIN DimensionAliases :
          \E i \in DOMAIN Names(d, DimensionAliases) :
            Names(d, DimensionAliases)[i] = item.fields["dimension"].token}

Without(fields, keys) == [k \in DOMAIN fields \ keys |-> fields[k]]

\* _salvage_dimensions: of two items with one name the later one counts
Dimensions(v) ==
  CASE v.type = "null" -> Salvaged(<< >>, {"null_field_defaulted"})
    [] v.type = "list" ->
         LET named == {i \in DOMAIN v.items : DimensionsNamed(v.items[i]) # {}}
             salvage(i) == DimensionValue(Object(Without(v.items[i].fields, {"dimension"})))
             last(d) == CHOOSE i \in named :
                          /\ d \in DimensionsNamed(v.items[i])
                          /\ \A j \in named : d \in DimensionsNamed(v.items[j]) => j <= i
         IN  Salvaged([d \in UNION {DimensionsNamed(v.items[i]) : i \in named} |->
                         salvage(last(d)).value],
                      (UNION {salvage(i).actions : i \in named})
                        \cup When(named # {}, "evidence_mapping_normalized")
                        \cup When(named # DOMAIN v.items, "invalid_list_item_removed"))
    [] v.type = "object" ->
         LET given == {d \in DOMAIN DimensionAliases : IsGiven(d, DimensionAliases, v.fields)}
             salvage(d) == DimensionValue(v.fields[SourceKey(d, DimensionAliases, v.fields)])
         IN  Salvaged([d \in given |-> salvage(d).value],
                      (UNION {salvage(d).actions : d \in given})
                        \cup Unknown(v.fields, DimensionAliases)
                        \cup Renamed(v.fields, DimensionAliases))
    [] v.type \in {"string", "number"} -> Salvaged(<< >>, {"invalid_field_defaulted"})

\* One reference, as a set: an item without a usable skill is none.
Reference(item) ==
  IF item.type # "object" THEN Salvaged({}, {"invalid_list_item_removed"})
  ELSE LET part(field, Salvage(_)) == Nested(field, ReferenceAliases, item.fields, Salvage, {})
           skill == part("skill", LAMBDA u :
                      IF IsText(u) THEN Salvaged({u.token}, CutAction(u, 4))
                                   ELSE Salvaged({}, {"invalid_list_item_removed"}))
           ids == part("evidence_ids", LAMBDA u : StringList(u, 5, 4, TRUE))
       IN  Salvaged({[skill |-> s, ids |-> {t.token : t \in ids.value}] : s \in skill.value},
                    skill.actions \cup ids.actions \cup Unknown(item.fields, ReferenceAliases)
                      \cup Renamed(item.fields, ReferenceAliases))

\* _salvage_evidence_references: a reference, a mapping from skills or a list
References(v) ==
  LET all(items) ==
        LET seen == Seen(items, LAMBDA u : Reference(u).value # {}, 12)
            salvaged == {Reference(seen[i]) : i \in DOMAIN seen}
        IN  Salvaged(UNION {s.value : s \in salvaged},
                     (UNION {s.actions : s \in salvaged})
                       \cup When(Len(seen) < Len(items), "list_truncated"))
      single == {"skill", "name", "requirement"}
  IN
  CASE v.type = "null" -> Salvaged({}, {"null_field_defaulted"})
    [] v.type = "list" -> all(v.items)
    [] v.type = "object" /\ DOMAIN v.fields \cap single # {} -> all(<<v>>)
    [] v.type = "object" /\ DOMAIN v.fields \cap single = {} ->
         LET salvaged == {Reference(Object([skill |-> String(k, 1), evidence_ids |-> v.fields[k]])) :
                            k \in DOMAIN v.fields}
         IN  Salvaged(UNION {s.value : s \in salvaged},
                      {"evidence_mapping_normalized"} \cup UNION {s.actions : s \in salvaged})
    [] v.type \in {"string", "number"} -> Salvaged({}, {"invalid_field_defaulted"})

-----------------------------------------------------------------------------
(* salvage_compact_analysis *)

\* Whether the answer has one of the older fields; the recommendations count as one only
\* under the older name.
LegacyPresent(data) ==
  \/ \E f \in DOMAIN TopLevelAliases \ {"concise_recommendations"} : IsGiven(f, TopLevelAliases, data)
  \/ "concise_recommendations" \in DOMAIN data

\* A field of the active contract; beside older fields nothing is noted of it.
ActiveField(field, data) ==
  LET older == field = "recommendations" /\ "concise_recommendations" \in DOMAIN data
      key == IF IsGiven(field, ProviderAliases, data) THEN SourceKey(field, ProviderAliases, data)
             ELSE "concise_recommendations"
      salvaged ==
        IF ~IsGiven(field, ProviderAliases, data) /\ ~older
          THEN Salvaged({}, {"missing_optional_field_defaulted"})
          ELSE Noted(NarrativeField(data[key], field, key), When(key # field, "field_alias_normalized"))
  IN  IF LegacyPresent(data) THEN [salvaged EXCEPT !.actions = {}] ELSE salvaged

EmptyField(field) == IF field = "concise_dimension_assessments" THEN << >> ELSE {}

OlderValue(field, v) ==
  CASE field \in {"matched_skills", "missing_skills"} -> StringList(v, 12, 4, FALSE)
    [] field = "unknown_skills" -> StringList(v, 10, 4, FALSE)
    [] field = "concise_recommendations" -> StringList(v, 5, 9, FALSE)
    [] field = "unsupported_claim_candidates" -> StringList(v, 5, 12, FALSE)
    [] field = "concise_dimension_assessments" -> Dimensions(v)
    [] field = "evidence_references" -> References(v)

\* An older field, which is looked at when there is any
OlderField(field, data) ==
  IF ~LegacyPresent(data) THEN Salvaged(EmptyField(field), {})
  ELSE IF ~IsGiven(field, TopLevelAliases, data)
    THEN Salvaged(EmptyField(field),
           {IF field \in RequiredFields THEN "missing_required_field_defaulted"
                                        ELSE "missing_optional_field_defaulted"})
    ELSE LET key == SourceKey(field, TopLevelAliases, data)
         IN  Noted(OlderValue(field, data[key]), When(key # field, "field_alias_normalized"))

\* OPTIONAL_PROVIDER_NARRATIVE_FIELDS: the summary, and the reason as one text, are kept
\* whenever they are sent.  The summary of the active contract was salvaged before.
OptionalText(v) ==
  IF v.type = "string" THEN SingleText(v, 16) ELSE Salvaged({}, {"invalid_field_defaulted"})

Summary(data) ==
  IF "job_summary" \notin DOMAIN data THEN ActiveField("job_summary", data)
  ELSE IF LegacyPresent(data) THEN OptionalText(data["job_summary"])
  ELSE Noted(ActiveField("job_summary", data),
             When(data["job_summary"].type # "string", "invalid_field_defaulted"))

Reason(data) ==
  IF "match_reason" \in DOMAIN data THEN OptionalText(data["match_reason"]) ELSE Salvaged({}, {})

Fields == DOMAIN ProviderAliases \cup {"match_reason"} \cup DOMAIN TopLevelAliases

Field(f, data) ==
  CASE f = "job_summary" -> Summary(data)
    [] f = "match_reason" -> Reason(data)
    [] f \in DOMAIN ProviderAliases \ {"job_summary"} -> ActiveField(f, data)
    [] f \in DOMAIN TopLevelAliases -> OlderField(f, data)

\* What is left of the fields, and what was done to any of them
Together(salvaged, actions) ==
  [ fields |-> [f \in Fields |-> salvaged[f].value],
    actions |-> actions \cup UNION {salvaged[f].actions : f \in Fields} ]

Salvage(data) ==
  Together([f \in Fields |-> Field(f, data)],
           When(DOMAIN data \ KnownKeys # {}, "unknown_top_level_field_ignored"))

-----------------------------------------------------------------------------
(* Acceptance *)

\* The recommendations under one name serve under the other.
Given(a, b) == IF a # {} THEN a ELSE b

Filled(c) ==
  [c EXCEPT !.recommendations = Given(@, c.concise_recommendations),
            !.concise_recommendations = Given(@, c.recommendations)]

\* compact_has_meaningful_analysis
Meaningful(c) ==
  \/ \E f \in Fields \ {"concise_dimension_assessments", "evidence_references", "match_reason",
                         "unsupported_claim_candidates"} : c[f] # {}
  \/ \E d \in DOMAIN c.concise_dimension_assessments :
       LET found == c.concise_dimension_assessments[d]
       IN  found.assessment # {} \/ found.score > 0

\* SALVAGE_WARNING_MESSAGES
MessageCodes ==
  {"missing_required_field_defaulted", "missing_optional_field_defaulted",
   "null_field_defaulted", "field_alias_normalized", "scalar_to_list",
   "numeric_string_normalized", "score_clamped", "invalid_field_defaulted",
   "invalid_list_item_removed", "list_truncated", "unknown_top_level_field_ignored",
   "unknown_nested_field_ignored", "evidence_mapping_normalized"}

SalvageWarnings(actions) == actions \cap (MessageCodes \cup {"text_truncated"})

\* compact_analysis_warnings, which looks at the answer and not at the salvage
ContractWarnings(data) ==
  LET absent(f) == /\ ~IsGiven(f, ProviderAliases, data)
                   /\ f = "recommendations" => "concise_recommendations" \notin DOMAIN data
      aliases == (NamesOf(ProviderAliases) \ DOMAIN ProviderAliases)
                   \cup (NamesOf(Without(TopLevelAliases,
                           {"concise_recommendations", "unsupported_claim_candidates"}))
                           \ DOMAIN TopLevelAliases)
  IN  When(\E f \in DOMAIN ProviderAliases : absent(f), "fields_missing")
        \cup When(DOMAIN data \cap (aliases \cup {"concise_recommendations"}) # {}, "aliases")
        \cup When(\E k \in DOMAIN data : data[k].type = "null", "nulls")

-----------------------------------------------------------------------------
(* parse_model_json_result *)

\* How the content holds its object: alone, within other text, with a trailing comma,
\* not at all, or nested too deep for the parser; and whether it is wrapped in another.
Content == [form: {"object", "embedded", "comma", "broken", "blank", "too_deep"},
            wrapper: BOOLEAN]

\* _unwrap_analysis_object
Unwraps(content) ==
  content.wrapper /\ content.value.type = "object" /\ DOMAIN content.value.fields \cap KnownKeys # {}

Parses(content) ==
  /\ content.form \in {"object", "embedded", "comma"}
  /\ content.value.type = "object" \/ content.wrapper

Data(content) ==
  IF content.wrapper /\ ~Unwraps(content) THEN [analysis |-> content.value]
  ELSE content.value.fields

ParseWarnings(content) ==
  When(Unwraps(content), "wrapper_removed")
    \cup When(content.form # "object", "local_format_repair")
    \cup When(content.form = "comma", "trailing_comma_removed")

\* validate_compact_analysis: what can be used of a content
Judged(salvaged) ==
  [ fields |-> Filled(salvaged.fields), actions |-> salvaged.actions,
    usable |-> Meaningful(Filled(salvaged.fields)) ]

Read(content) ==
  IF Parses(content) THEN Judged(Salvage(Data(content))) ELSE [usable |-> FALSE]
==============================================================================
