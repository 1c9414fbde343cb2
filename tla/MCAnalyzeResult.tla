---------------------------- MODULE MCAnalyzeResult ----------------------------
(***************************************************************************)
(* Instances of AnalyzeResult for TLC.  The requests vary over a plain *)
(* and an older answer; the answers vary over one request.                 *)
(***************************************************************************)
EXTENDS OutputContract, TLC

-----------------------------------------------------------------------------
(* Requests *)

Support == [keyword: BOOLEAN, resume: BOOLEAN, chunk: BOOLEAN]
Everywhere == [keyword |-> TRUE, resume |-> TRUE, chunk |-> TRUE]

Request(skills, retrieved, project, work, education) ==
  [skills |-> skills, retrieved |-> retrieved, project |-> project, work |-> work,
   education |-> education]

Plain == Request([Python |-> Everywhere], FALSE, TRUE, TRUE, "present")

Stack == {"Python", "SQL", "React", "Linux", "Docker Compose", "Docker"}

\* Their places in SKILLS
MCRank == [Python |-> 1, React |-> 5, SQL |-> 14, Docker |-> 21, Linux |-> 27]
            @@ [k \in {"Docker Compose"} |-> 22]

\* Two skills of every kind; six of which one, or two, are not like the others, or that are
\* all alike, which is more than a list has room for; none.
MCAsked ==
  {Plain}
  \cup {Request(skills, retrieved, TRUE, FALSE, "not_required") :
          skills \in [{"Python", "SQL"} -> Support], retrieved \in BOOLEAN}
  \cup {Request([k \in Stack |-> IF k \in odd THEN support ELSE Everywhere],
                retrieved, TRUE, work, education) :
          odd \in {{"SQL"}, {"Docker"}, {"SQL", "Docker"}}, support \in Support,
          retrieved \in BOOLEAN, work \in BOOLEAN, education \in {"present", "absent"}}
  \cup {Request([k \in Stack |-> support], retrieved, TRUE, FALSE, "not_required") :
          support \in Support, retrieved \in BOOLEAN}
  \cup {Request(<< >>, FALSE, project, TRUE, "absent") : project \in BOOLEAN}

-----------------------------------------------------------------------------
(* Answers *)

Text(n) == String(<<"a", "b", "c", "d", "e", "f">>[n], 3)
Claim == String("claim", 3)
MCUnsupported == {"claim"}
MCCovering == {<<"Docker Compose", "Docker">>}

Answer(data) == [form |-> "object", wrapper |-> FALSE, value |-> Object(data)]

NoField == [k \in {} |-> Null]

Summaries ==
  {NoField, [job_summary |-> Text(1)], [job_summary |-> String("", 0)],
   [job_summary |-> String("a", 20)], [job_summary |-> Null], [job_summary |-> Number(1)],
   [job_summary |-> Claim], [summary |-> String("a", 20)],
   [job_summary |-> Text(1), summary |-> Null]}

Reasons ==
  {NoField, [match_reasons |-> List(<<Text(2)>>)], [match_reasons |-> List(<< >>)],
   [match_reasons |-> List(<<String("b", 9), String("c", 9)>>)],
   [match_reasons |-> List(<<Text(2), Claim>>)], [match_reason |-> Text(3)],
   [match_reason |-> List(<<Text(3)>>)]}

Recommendations ==
  {NoField, [recommendations |-> List(<<Text(4)>>)], [recommendations |-> List(<<Text(4), Null>>)],
   [recommendations |-> List(<<Text(1), Text(2), Text(3), Text(4), Text(5), Text(6)>>)],
   [recommendations |-> Text(4)], [suggestions |-> List(<<String("d", 10), Claim>>)]}

Improvements ==
  {NoField, [resume_improvements |-> List(<<Text(5)>>)], [resume_improvements |-> Object(NoField)],
   [notes |-> Text(6)]}

ActiveData == {s @@ m @@ r @@ i : s \in Summaries, m \in Reasons, r \in Recommendations,
                                  i \in Improvements}

Cited(id) == List(<<Object([skill |-> String("Python", 1), evidence_ids |-> List(<<String(id, 1)>>)])>>)

OlderData ==
  [ matched_skills |-> List(<<String("Python", 1)>>), missing_skills |-> List(<< >>),
    unknown_skills |-> List(<< >>), concise_recommendations |-> List(<<Text(6)>>),
    concise_dimension_assessments |->
      Object([education |-> Object([score |-> Number(70), evidence_ids |-> List(<<String("resume", 1)>>)])]),
    evidence_references |-> Cited("resume"), unsupported_claim_candidates |-> List(<< >>) ]

\* The older answer, whole or with one field in another shape
OlderVariants ==
  {OlderData} \cup
  {[OlderData EXCEPT !.evidence_references = v] :
     v \in {Null, Text(1), Cited("pk:1"), Cited("pk:2"),
            List(<<Null, Object([name |-> Number(1)]), Object([topic |-> Text(1)])>>),
            Object([name |-> String("Python", 1), evidence |-> String("", 0)]),
            Object([Python |-> List(<<String("pk:1", 1)>>)])}}
  \cup {[OlderData EXCEPT !.concise_dimension_assessments = v] :
     v \in {Null, Text(1), Object([skills |-> Null, topic |-> Text(1)]),
            Object([education |-> Number(120), projects |-> List(<< >>), work_experience |-> Text(1)]),
            Object([education |-> Object([rating |-> Numeral(120), comment |-> Null,
                                          evidence |-> String("pk:2", 1), topic |-> Null])]),
            Object([education |-> Object([score |-> Text(1), assessment |-> Number(1)])]),
            Object([education |-> Object([score |-> Null, assessment |-> String("a", 13)])]),
            List(<<Null, Object([dimension |-> String("education", 1), score |-> Number(-1)]),
                   Object([dimension |-> String("topic", 1)]),
                   Object([dimension |-> String("education", 1), score |-> Number(1)])>>)}}
  \cup {[OlderData EXCEPT !.unsupported_claim_candidates = v] : v \in {Null, List(<<Claim>>)}}
  \cup {[OlderData EXCEPT !.concise_recommendations = v] : v \in {Null, List(<< >>)}}
  \cup {Without(OlderData, {f}) : f \in DOMAIN OlderData}
  \cup {[gaps |-> List(<<String("SQL", 1)>>)], [matched_skills |-> List(<< >>)],
        [concise_recommendations |-> List(<< >>)]}

Beside == {NoField, [job_summary |-> Number(1), recommendations |-> Text(4)],
           [match_reasons |-> List(<<Text(2), Null>>), job_summary |-> String("a", 20)]}

Forms == [form: {"object", "embedded", "comma", "broken", "blank", "too_deep"}, wrapper: BOOLEAN,
          value: {Object([job_summary |-> Text(1)]), Object([notes |-> Text(1)]), List(<< >>)}]

Simple == Answer([job_summary |-> Text(1), match_reasons |-> List(<<Text(2)>>),
                  recommendations |-> List(<<Text(4)>>), resume_improvements |-> List(<< >>)])

MCContents(request) ==
  IF request = Plain
    THEN {Answer(d) : d \in ActiveData} \cup {Answer(o @@ b) : o \in OlderVariants, b \in Beside}
           \cup Forms
    ELSE {Simple, Answer([OlderData EXCEPT !.evidence_references = Cited("pk:1")]),
          Answer([OlderData EXCEPT !.evidence_references = Cited("resume")])}

MCRepairs == {Simple, Answer([summary |-> Text(1)]), Answer([notes |-> Text(1)]),
              [form |-> "comma", wrapper |-> FALSE, value |-> Object([job_summary |-> Claim])]}
==============================================================================
