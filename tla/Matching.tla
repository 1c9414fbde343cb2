------------------------------- MODULE Matching -------------------------------
(***************************************************************************)
(* Matching a profile with the Requirements of Jobs (app/matching): the    *)
(* deterministic engine, the Analyses the service saves and reuses, and    *)
(* the ranking of Jobs by them.                                            *)
(*                                                                         *)
(* Scores are counted in hundredths of a point, contributions in hundredths*)
(* of a percent; a contribution that is no whole number is cut off.  Terms *)
(* are compared by the relation term_relation finds between them.  A       *)
(* request reads rows without locks and inserts rows nobody changes; it is *)
(* one step.                                                               *)
(***************************************************************************)
EXTENDS Integers, Sequences, FiniteSets, FiniteSetsExt, Functions

CONSTANTS
  MatchedJobs,     \* ids of Jobs, numbers
  Names,           \* what Requirements ask for
  Relation,        \* Relation[name][value]: term_relation
  Demands,         \* [job, category, type, minimum, name]: Requirements Jobs may get
  Snapshots,       \* contents of profile revisions
  WeightConfigs,   \* weights a request may ask for
  Factors,         \* what deadline and priority may add to the rank score of each Job
  NoYears,         \* a fact that tells no years, a Requirement that asks for none
  MaxRequirements, \* bound: Requirements in all
  MaxRevisions,    \* bound: profile revisions
  MaxAnalyses      \* bound: Analyses in all

VARIABLES
  demand,    \* rows of job_requirements
  revision,  \* the snapshots of profile_revisions
  analysis,  \* rows of job_match_analyses with their evidence
  ranking    \* the rows of the last job_rank_run

matchVars == <<demand, revision, analysis, ranking>>

-----------------------------------------------------------------------------
DIMENSIONS == {"required_skills", "experience", "projects", "education",
               "location_and_authorization", "languages", "seniority", "preferences"}

DEFAULT_WEIGHTS ==
  [required_skills |-> 30, experience |-> 20, projects |-> 15, education |-> 10,
   location_and_authorization |-> 10, languages |-> 5, seniority |-> 5, preferences |-> 5]

\* profile_facts: the dimensions the items of a resource are facts of
FactDimensions ==
  [skills         |-> {"required_skills"},
   experiences    |-> {"experience", "required_skills", "seniority"},
   projects       |-> {"projects", "required_skills"},
   educations     |-> {"education"},
   languages      |-> {"languages"},
   certifications |-> {"required_skills"},
   location       |-> {"location_and_authorization"}]

\* Mutant: facts that await a confirmation count.
AnyFact(item) == item.resource \in DOMAIN FactDimensions

\* _confirmed; the location of a profile is taken as it is.
Confirmed(item) == item.confirmed \/ item.resource = "location"

\* Where the snapshot has the facts of a dimension
Facts(snapshot, dimension) ==
  {i \in DOMAIN snapshot :
     Confirmed(snapshot[i]) /\ dimension \in FactDimensions[snapshot[i].resource]}

\* _dimension_for, for a Requirement on experience that names no seniority
DimensionFor(category) ==
  CASE category \in {"skill", "certification"} -> "required_skills"
    [] category = "education" -> "education"
    [] category \in {"location", "work_authorization"} -> "location_and_authorization"
    [] category = "language" -> "languages"
    [] category = "experience" -> "experience"
    [] category = "responsibility" -> "projects"
    [] OTHER -> "preferences"

\* term_relation
Contribution == [exact |-> 10000, synonym |-> 9000, related |-> 5000, missing |-> 0]

Relates(name, fact) == Relation[name][fact.value]

\* _best: the first of the facts that contribute most
Best(name, snapshot, facts) ==
  LET counts(i) == Contribution[Relates(name, snapshot[i])]
  IN Min({i \in facts : \A k \in facts : counts(k) <= counts(i)})

\* score_match of one confirmed Requirement: too few years scale the
\* contribution, and leave the relation "related".
Evaluated(row, snapshot, facts) ==
  LET fact == snapshot[Best(row.name, snapshot, facts)]
      relation == Relates(row.name, fact)
      short == row.minimum # NoYears /\ fact.years # NoYears /\ fact.years < row.minimum
      scaled == Min({Contribution[relation], (fact.years * 10000) \div row.minimum})
  IN CASE facts = {} -> [contribution |-> 0, relation |-> "missing", years |-> NoYears]
       [] facts # {} /\ short ->
            [contribution |-> scaled, relation |-> IF scaled > 0 THEN "related" ELSE "missing",
             years |-> fact.years]
       [] facts # {} /\ ~short ->
            [contribution |-> Contribution[relation], relation |-> relation, years |-> fact.years]

IsHard(row) ==
  \/ row.type = "hard_filter"
  \/ row.category \in {"work_authorization", "location", "language", "certification"}
  \/ row.category = "experience" /\ row.minimum # NoYears

\* _hard_result
HardResult(row, found, facts) ==
  CASE found.relation \in {"exact", "synonym"} ->
         IF row.minimum = NoYears THEN "passed"
         ELSE IF found.years = NoYears THEN "unknown"
         ELSE IF found.years >= row.minimum THEN "passed" ELSE "failed"
    [] found.relation = "related" -> "warning"
    [] OTHER ->
         IF facts # {} /\ row.category \in {"location", "work_authorization", "language", "certification"}
         THEN "failed" ELSE "unknown"

\* The evidence of a Requirement that is not rejected.
Evidence(row, snapshot) ==
  LET facts == Facts(snapshot, DimensionFor(row.category))
      found == Evaluated(row, snapshot, facts)
  IN IF row.status # "confirmed"
     THEN [dimension |-> DimensionFor(row.category), kind |-> "unknown", counts |-> FALSE,
           contribution |-> 0, hard |-> "none"]
     ELSE [dimension |-> DimensionFor(row.category),
           kind |-> CASE IsHard(row) -> "hard_filter"
                      [] ~IsHard(row) /\ found.relation \in {"exact", "synonym"} -> "matched"
                      [] ~IsHard(row) /\ found.relation = "related" -> "partial"
                      [] OTHER -> "missing",
           counts |-> TRUE,
           contribution |-> found.contribution,
           hard |-> IF IsHard(row) THEN HardResult(row, found, facts) ELSE "none"]

\* The raw score of a dimension: the mean of its rows, or neutral without one.
RawScore(evidence, dimension) ==
  LET rows == {i \in DOMAIN evidence : evidence[i].counts /\ evidence[i].dimension = dimension}
  IN IF rows = {} THEN 5000
     ELSE SumFunction([i \in rows |-> evidence[i].contribution]) \div Cardinality(rows)

\* The code's min and max leave it as it is (AnalysesAreGrounded).
Overall(evidence, weights) ==
  SumFunction([d \in DIMENSIONS |-> RawScore(evidence, d) * weights[d]]) \div 100

HardFilter(evidence) ==
  LET results == {evidence[i].hard : i \in DOMAIN evidence} \ {"none"}
  IN CASE "failed" \in results -> "failed"
       [] "failed" \notin results /\ "warning" \in results -> "warning"
       [] results = {"passed"} -> "passed"
       [] OTHER -> "unknown"

Recommendation(overall, hard) ==
  CASE hard = "failed" -> "not_recommended"
    [] hard = "passed" /\ overall >= 8000 -> "high_priority"
    [] hard # "failed" /\ overall >= 6500 /\ ~(hard = "passed" /\ overall >= 8000) -> "worth_applying"
    [] hard # "failed" /\ overall \in 4500..6499 -> "apply_with_preparation"
    [] hard # "failed" /\ overall \in 2500..4499 -> "low_priority"
    [] OTHER -> "not_recommended"

Preparation(evidence) ==
  LET missing == Cardinality({i \in DOMAIN evidence : evidence[i].kind \in {"missing", "unknown"}})
  IN IF missing >= 4 THEN "high" ELSE IF missing >= 2 THEN "medium" ELSE "low"

\* score_match
ScoreMatch(snapshot, rows, weights) ==
  LET considered == {i \in DOMAIN rows : rows[i].status # "rejected"}
      evidence == [i \in considered |-> Evidence(rows[i], snapshot)]
      overall == Overall(evidence, weights)
  IN [overall |-> overall,
      hard |-> HardFilter(evidence),
      recommendation |-> Recommendation(overall, HardFilter(evidence)),
      preparation |-> Preparation(evidence)]

-----------------------------------------------------------------------------
Status == {"needs_review", "confirmed", "rejected"}

TypeOK ==
  /\ Len(demand) <= MaxRequirements
  /\ \A i \in DOMAIN demand : demand[i].job \in MatchedJobs /\ demand[i].status \in Status
  /\ revision \in Seq(Snapshots) /\ Len(revision) \in 1..MaxRevisions
  /\ Len(analysis) <= MaxAnalyses
  /\ \A item \in ranking : item.score \in 0..10000

Init ==
  /\ demand = << >>
  /\ \E snapshot \in Snapshots : revision = <<snapshot>>
  /\ analysis = << >> /\ ranking = {}

RequirementsOf(j) == Restrict(demand, {i \in DOMAIN demand : demand[i].job = j})

\* add_requirement by a user, or by an extraction that awaits a review, and
\* the review (app/jobs); neither is another revision of the Job.
AddDemand(demanded, status) ==
  /\ Len(demand) < MaxRequirements
  /\ demand' = Append(demand, [job |-> demanded.job, status |-> status, name |-> demanded.name,
                               category |-> demanded.category, type |-> demanded.type,
                               minimum |-> demanded.minimum])
  /\ UNCHANGED <<revision, analysis, ranking>>

ReviewDemand(i, status) ==
  /\ i \in DOMAIN demand
  /\ demand' = [demand EXCEPT ![i].status = status]
  /\ UNCHANGED <<revision, analysis, ranking>>

SaveProfile(snapshot) ==
  /\ Len(revision) < MaxRevisions
  /\ revision' = Append(revision, snapshot)
  /\ UNCHANGED <<demand, analysis, ranking>>

\* MatchingService.run: the Analysis, and the Requirements it was made of.
Analyse(j, n, weights) ==
  [job |-> j, revision |-> n, weights |-> weights, rows |-> RequirementsOf(j),
   result |-> ScoreMatch(revision[n], RequirementsOf(j), weights)]

\* reusable: the newest Analysis with the same fingerprint, which does not
\* cover the Requirements.
Reusable(analyses, j, n, weights) ==
  {i \in DOMAIN analyses : /\ analyses[i].job = j /\ analyses[i].revision = n
                           /\ analyses[i].weights = weights}

Match(j, n, weights, force) ==
  /\ n \in DOMAIN revision /\ Len(analysis) < MaxAnalyses
  /\ force \/ Reusable(analysis, j, n, weights) = {}
  /\ analysis' = Append(analysis, Analyse(j, n, weights))
  /\ UNCHANGED <<demand, revision, ranking>>

\* rank: an Analysis for every Job, made or reused, and the penalties of its
\* hard filter.
RankScore(result, factor) ==
  LET penalty == [failed |-> -2500, warning |-> -500, passed |-> 0, unknown |-> 0]
  IN Max({0, Min({10000, result.overall + factor + penalty[result.hard]})})

Precedes(a, b) ==
  LET failed(x) == IF x.hard = "failed" THEN 1 ELSE 0
  IN \/ failed(a) < failed(b)
     \/ failed(a) = failed(b) /\ a.score > b.score
     \/ failed(a) = failed(b) /\ a.score = b.score /\ a.job < b.job

\* The rows of a run, each at its rank_position
Ranked(items) ==
  {[job |-> item.job, analysis |-> item.analysis, hard |-> item.hard, score |-> item.score,
    position |-> Cardinality({other \in items : Precedes(other, item)}) + 1] : item \in items}

\* rank, over the Jobs in one order or another
Rank(factors) ==
  LET n == Len(revision)
      missing == {j \in MatchedJobs : Reusable(analysis, j, n, DEFAULT_WEIGHTS) = {}}
  IN \E made \in Bijection(1..Cardinality(missing), missing) :
       LET all == analysis \o [i \in DOMAIN made |-> Analyse(made[i], n, DEFAULT_WEIGHTS)]
           used(j) == Max(Reusable(all, j, n, DEFAULT_WEIGHTS))
           item(j) == [job |-> j, analysis |-> used(j), hard |-> all[used(j)].result.hard,
                       score |-> RankScore(all[used(j)].result, factors[j])]
       IN /\ Len(all) <= MaxAnalyses
          /\ analysis' = all
          /\ ranking' = Ranked({item(j) : j \in MatchedJobs})
          /\ UNCHANGED <<demand, revision>>

Next ==
  \/ \E demanded \in Demands, status \in {"needs_review", "confirmed"} : AddDemand(demanded, status)
  \/ \E i \in 1..MaxRequirements, status \in Status : ReviewDemand(i, status)
  \/ \E snapshot \in Snapshots : SaveProfile(snapshot)
  \/ \E j \in MatchedJobs, n \in 1..MaxRevisions, weights \in WeightConfigs, force \in BOOLEAN :
       Match(j, n, weights, force)
  \/ \E factors \in Factors : Rank(factors)

Spec == Init /\ [][Next]_matchVars

-----------------------------------------------------------------------------
(* What an Analysis claims, from the facts and the Requirements somebody confirmed *)

KnownOf(snapshot) ==
  Restrict(snapshot, {k \in DOMAIN snapshot :
                        snapshot[k].confirmed \/ snapshot[k].resource = "location"})

AskedOf(rows) == Restrict(rows, {k \in DOMAIN rows : rows[k].status = "confirmed"})

HardRows(asked) == {asked[k] : k \in {l \in DOMAIN asked : IsHard(asked[l])}}

FailsOn(known, asked) ==
  \E row \in HardRows(asked) : Facts(known, DimensionFor(row.category)) # {}

Passes(row, fact) ==
  /\ Relates(row.name, fact) \in {"exact", "synonym"}
  /\ row.minimum # NoYears => fact.years # NoYears /\ fact.years >= row.minimum

PassesOn(known, asked) ==
  /\ HardRows(asked) # {}
  /\ \A row \in HardRows(asked) :
       \E k \in Facts(known, DimensionFor(row.category)) : Passes(row, known[k])

Grounded(result, known, asked, weights) ==
  /\ result.overall = ScoreMatch(known, asked, weights).overall
  /\ result.hard = ScoreMatch(known, asked, weights).hard
  /\ result.overall \in 0..10000
  /\ result.hard = "failed" =>
       FailsOn(known, asked) /\ result.recommendation = "not_recommended"
  /\ result.hard = "passed" => PassesOn(known, asked)

Places(items) ==
  \A a, b \in items :
    /\ a.hard = "failed" /\ b.hard # "failed" => b.position < a.position
    /\ a # b => a.position # b.position

\* Every Analysis is grounded in confirmed facts: what nobody confirmed, a fact
\* or a Requirement, changes neither its score nor its hard filter; a score is one
\* without being cut; a hard filter fails only where the profile has a fact of that
\* dimension and passes only on a fact with the years asked for; a failed one is never
\* recommended, and a Job with one never ranks before a Job without; no two Jobs
\* have the same rank.
AnalysesAreGrounded ==
  /\ \A i \in DOMAIN analysis :
       LET a == analysis[i]
       IN Grounded(a.result, KnownOf(revision[a.revision]), AskedOf(a.rows), a.weights)
  /\ Places(ranking)
=============================================================================
