-------------------------- MODULE RecordTypesProofs ---------------------------
(***************************************************************************)
(* That every row of the owner's records is of its type, for any clients   *)
(* and bounds.  The guards that cap the tables are not enough: what a      *)
(* transaction has read has to stay within them until it commits.          *)
(***************************************************************************)
EXTENDS OwnerRecordsProofs, MaterialsProofs

-----------------------------------------------------------------------------
(* Matching: the scores of a run are scores.                               *)

Scored(items) == \A item \in items : IsScore(item.score)

EngineTyped ==
  /\ MatchingInv
  /\ Len(demand) <= MaxRequirements /\ Len(revision) <= MaxRevisions
  /\ Len(analysis) <= MaxAnalyses /\ Scored(ranking)

-----------------------------------------------------------------------------
(* The profile: what a snapshot holds is typed, so what is restored is.    *)

Written(c) ==
  /\ DOMAIN c = {"fields", "items", "preference"}
  /\ c.fields \in Values \cup {Blank} /\ c.preference \in Values \cup {Blank}
  /\ DOMAIN c.items \subseteq 1 .. MaxItems
  /\ \A i \in DOMAIN c.items : c.items[i] \in Career!Item

CareerTyped ==
  /\ ProfiledInv
  /\ profile.revision <= MaxProfiles /\ profile.score \in 0 .. 3
  /\ Written(content) /\ \A i \in DOMAIN snapshot : Written(snapshot[i].content)
  /\ shown \in [Clients -> 0 .. MaxProfiles]
  /\ getting.op \in {"none", "row", "items"}
  /\ getting.op = "items" => getting.computed \in 0 .. 3

-----------------------------------------------------------------------------
(* Resumes: every row of a file has a file of its own, so the bound of the *)
(* files is one of the rows.                                               *)

Allowed(row) == row.active \in 0 .. MaxResumeVersions

Few(rows) == Len(rows) <= MaxResumes /\ \A r \in DOMAIN rows : Allowed(rows[r])

ResumesTyped ==
  /\ FilesInv
  /\ Few(resume) /\ Len(disk) <= MaxFiles /\ served \in 0 .. MaxServed

-----------------------------------------------------------------------------
(* The Job Library: what a transaction has read is within the tables.      *)

IsJob(j) == j \in Library!Jobs

\* A Job as an import that has inserted n rows numbers it
Known(j, n) == j \in 1 .. (MaxJobs + n)
PairOf(pair, n) == \E i, k : Known(i, n) /\ Known(k, n) /\ pair = {i, k}

ImportWithin(t, n) ==
  /\ t.seen \in {-1, 0} \/ Known(t.seen, n)
  /\ \A i \in DOMAIN t.touched : Known(t.touched[i], n)
  /\ \A pair \in t.pairs : PairOf(pair, n)

Within(t) ==
  /\ t.op = "create" => t.existing = 0 \/ IsJob(t.existing)
  /\ t.op = "apply" => t.job = 0 \/ IsJob(t.job)
  /\ t.op = "task" => (t.job = 0 \/ IsJob(t.job)) /\ t.application \in 0 .. MaxApplications
  /\ t.op = "merge" => IsJob(t.target)
  /\ t.op = "csv" => ImportWithin(t, Len(t.inserted))

SourcesOfJobs(rows) == \A k \in DOMAIN rows : IsJob(rows[k].job)
CandidatePairs(rows) ==
  \A pair \in DOMAIN rows : PairOf(pair, 0) /\ rows[pair] \in Library!CandidateStatus
OfJobs(rows) == \A a \in DOMAIN rows : rows[a].job = 0 \/ IsJob(rows[a].job)

TablesTyped ==
  /\ Len(job) <= MaxJobs /\ Len(application) <= MaxApplications /\ Len(run) <= MaxRows
  /\ SourcesOfJobs(source) /\ requirement \in Seq(0 .. MaxJobs)
  /\ CandidatePairs(candidate)
  /\ OfJobs(application) /\ task \in Seq(Library!TaskRow)

LibraryTyped ==
  /\ LibraryInv
  /\ TablesTyped
  /\ \A c \in Clients : Within(libraryTx[c])
  /\ libraryRequests \in 0 .. MaxLibraryRequests

LEMMA ScoreBounds ==
  ASSUME NEW result, NEW factor \in Int, result.overall \in Int,
         result.hard \in {"failed", "warning", "passed", "unknown"}
  PROVE  IsScore(Engine!RankScore(result, factor))
<1>1. PICK penalty : penalty = Penalty[result.hard]
  OBVIOUS
<1>2. PICK total : total = result.overall + factor + penalty
  OBVIOUS
<1>3. total \in Int
  BY <1>1, <1>2 DEF Penalty
<1>4. PICK most \in Int, zero \in Int : most = 10000 /\ zero = 0
  OBVIOUS
<1>5. PICK low : low = Engine!Min({most, total})
  OBVIOUS
<1>6. PICK score : score = Engine!Max({zero, low})
  OBVIOUS
<1>7. Engine!RankScore(result, factor) = score
  BY <1>1, <1>2, <1>4, <1>5, <1>6 DEF Engine!RankScore, Penalty
<1>8. low \in {most, total} /\ low <= most
  <2>1. \E y \in {most, total} : \A z \in {most, total} : y <= z
    BY <1>3, <1>4
  <2> QED
    BY <1>5, <2>1 DEF Engine!Min
<1>9. low \in Int
  BY <1>3, <1>4, <1>8
<1>10. score \in {zero, low} /\ score >= zero
  <2>1. \E y \in {zero, low} : \A z \in {zero, low} : y >= z
    BY <1>4, <1>9
  <2> QED
    BY <1>6, <2>1 DEF Engine!Max
<1>11. score \in 0 .. 10000
  BY <1>4, <1>8, <1>9, <1>10
<1> QED
  BY <1>7, <1>11 DEF IsScore

LEMMA RankedAreScored ==
  ASSUME NEW items, NEW m, \A x \in items : IsScore(x.score), m = Engine!Ranked(items)
  PROVE  Scored(m)
<1>1. ASSUME NEW p \in m
      PROVE  IsScore(p.score)
  <2>1. PICK x \in items : \E position : p = [job |-> x.job, analysis |-> x.analysis, hard |-> x.hard,
                                          score |-> x.score, position |-> position]
    BY <1>1, Zenon DEF Engine!Ranked
  <2>2. p.score = x.score
    BY <2>1
  <2> QED
    BY <2>2
<1> QED
  BY <1>1 DEF Scored

LEMMA ItemIsScored ==
  ASSUME NEW all, Listed(all), revision \in Seq(Snapshots),
         \A i \in DOMAIN all : Made(all[i], revision),
         NEW n, NEW j \in MatchedJobs, NEW factors \in Factors,
         Engine!Reusable(all, j, n, Engine!DEFAULT_WEIGHTS) # {},
         NEW x, x = ItemOf(all, j, n, factors)
  PROVE  IsScore(x.score)
<1>1. PICK R : R = Engine!Reusable(all, j, n, Engine!DEFAULT_WEIGHTS)
  OBVIOUS
<1>2. PICK m : m = Len(all)
  OBVIOUS
<1>3. m \in Nat /\ DOMAIN all = 1 .. m
  BY <1>2, ListedIs
<1>4. R \subseteq 1 .. m /\ R # {}
  BY <1>1, <1>3 DEF Engine!Reusable
<1>5. PICK used : used = Engine!Max(R)
  OBVIOUS
<1>6. used \in 1 .. m
  BY <1>3, <1>4, <1>5, GreatestIs
<1>7. Made(all[used], revision)
  BY <1>3, <1>6
<1>8. revision[all[used].revision] \in Snapshots
  BY <1>7 DEF Made
<1>9. PICK result : result = all[used].result
  OBVIOUS
<1>10. result.overall \in Int /\ result.hard \in {"failed", "warning", "passed", "unknown"}
  BY <1>7, <1>8, <1>9, ResultIs DEF Made
<1>11. factors[j] \in Int
  BY MatchingAssumption
<1>12. PICK score : score = Engine!RankScore(result, factors[j])
  OBVIOUS
<1>13. IsScore(score)
  BY <1>10, <1>11, <1>12, ScoreBounds
<1>14. x = [job |-> j, analysis |-> used, hard |-> result.hard, score |-> score]
  BY <1>1, <1>5, <1>9, <1>12 DEF ItemOf
<1> QED
  BY <1>13, <1>14

LEMMA RankKeepsTypes ==
  ASSUME EngineTyped, NEW factors \in Factors, Engine!Rank(factors)
  PROVE  Len(analysis') <= MaxAnalyses /\ Scored(ranking')
<1>1. MatchingInv
  BY DEF EngineTyped
<1>2. PICK n : n = Len(revision)
  OBVIOUS
<1>3. PICK missing : missing = Unmatched(analysis, n)
  OBVIOUS
<1>4. PICK m : m = Engine!Cardinality(missing)
  OBVIOUS
<1>5. m \in Nat
  BY <1>3, <1>4, UnmatchedAreFew
<1>6. \E made \in Engine!Bijection(1 .. m, missing) :
        /\ analysis' = analysis \o AddedFor(made, n)
        /\ ranking' = Engine!Ranked(ItemsOf(analysis \o AddedFor(made, n), n, factors))
  BY <1>2, <1>3, <1>4, RankIs
<1>7. PICK made \in Engine!Bijection(1 .. m, missing) :
        /\ analysis' = analysis \o AddedFor(made, n)
        /\ ranking' = Engine!Ranked(ItemsOf(analysis \o AddedFor(made, n), n, factors))
  BY <1>6
<1>8. PICK all : all = analysis \o AddedFor(made, n)
  OBVIOUS
<1>9. /\ Listed(all) /\ \A i \in DOMAIN all : Made(all[i], revision)
      /\ \A j \in MatchedJobs : Engine!Reusable(all, j, n, Engine!DEFAULT_WEIGHTS) # {}
  BY <1>1, <1>2, <1>3, <1>5, <1>8, AddedAnalyses
<1>10. PICK items : items = ItemsOf(all, n, factors)
  OBVIOUS
<1>11. revision \in Seq(Snapshots)
  BY <1>1 DEF MatchingInv
<1>12. ASSUME NEW j \in MatchedJobs
       PROVE  IsScore(ItemOf(all, j, n, factors).score)
  BY <1>9, <1>11, ItemIsScored
<1>13. \A x \in items : IsScore(x.score)
  BY <1>10, <1>12 DEF ItemsOf
<1>14. ranking' = Engine!Ranked(items)
  BY <1>7, <1>8, <1>10
<1>15. Scored(ranking')
  BY <1>13, <1>14, RankedAreScored
<1>16. Len(analysis') <= MaxAnalyses
  BY DEF Engine!Rank
<1> QED
  BY <1>15, <1>16

LEMMA EngineStarts == Engine!Init => EngineTyped
<1> SUFFICES ASSUME Engine!Init
             PROVE  EngineTyped
  OBVIOUS
<1>1. MatchingInv
  BY MatchingStarts
<1>2. PICK s \in Snapshots : revision = <<s>>
  BY DEF Engine!Init
<1>3. demand = << >> /\ analysis = << >> /\ ranking = {}
  BY DEF Engine!Init
<1>4. Len(revision) = 1 /\ Len(demand) = 0 /\ Len(analysis) = 0
  BY <1>2, <1>3
<1> QED
  BY <1>1, <1>3, <1>4, MatchingAssumption DEF EngineTyped, Scored

LEMMA EngineKeepsTypes ==
  EngineTyped /\ [Engine!Next]_matchVars => EngineTyped'
<1>1. ASSUME EngineTyped, [Engine!Next]_matchVars
      PROVE  MatchingInv'
  BY <1>1, MatchingKeepsInv DEF EngineTyped
<1>2. ASSUME EngineTyped, UNCHANGED matchVars
      PROVE  EngineTyped'
  BY <1>1, <1>2 DEF matchVars, EngineTyped
<1>3. ASSUME EngineTyped, Engine!Next
      PROVE  EngineTyped'
  <2>0. /\ demand \in Seq(DemandShape) /\ revision \in Seq(Snapshots)
        /\ Len(demand) \in Nat /\ Len(revision) \in Nat /\ Listed(analysis)
    BY <1>3 DEF EngineTyped, MatchingInv
  <2>1. CASE \E demanded \in Demands, status \in {"needs_review", "confirmed"} :
               Engine!AddDemand(demanded, status)
    <3>1. PICK row : demand' = Append(demand, row)
      BY <2>1 DEF Engine!AddDemand
    <3>2. /\ Len(demand) < MaxRequirements /\ UNCHANGED <<revision, analysis, ranking>>
      BY <2>1 DEF Engine!AddDemand
    <3>3. Len(demand') = Len(demand) + 1
      BY <2>0, <3>1
    <3> QED
      BY <1>1, <1>3, <2>0, <3>2, <3>3, MatchingAssumption DEF EngineTyped
  <2>2. CASE \E i \in 1 .. MaxRequirements, status \in Engine!Status :
               Engine!ReviewDemand(i, status)
    <3>1. PICK i \in 1 .. MaxRequirements, status \in Engine!Status :
            Engine!ReviewDemand(i, status)
      BY <2>2
    <3>2. PICK row : demand' = [demand EXCEPT ![i] = row]
      BY <3>1 DEF Engine!ReviewDemand
    <3>3. Len(demand') = Len(demand)
      BY <2>0, <3>2
    <3>4. UNCHANGED <<revision, analysis, ranking>>
      BY <3>1 DEF Engine!ReviewDemand
    <3> QED
      BY <1>1, <1>3, <3>3, <3>4 DEF EngineTyped
  <2>3. CASE \E s \in Snapshots : Engine!SaveProfile(s)
    <3>1. PICK s \in Snapshots : Engine!SaveProfile(s)
      BY <2>3
    <3>2. /\ revision' = Append(revision, s) /\ Len(revision) < MaxRevisions
          /\ UNCHANGED <<demand, analysis, ranking>>
      BY <3>1 DEF Engine!SaveProfile
    <3>3. Len(revision') = Len(revision) + 1
      BY <2>0, <3>2
    <3> QED
      BY <1>1, <1>3, <2>0, <3>2, <3>3, MatchingAssumption DEF EngineTyped
  <2>4. CASE \E j \in MatchedJobs, n \in 1 .. MaxRevisions, weights \in WeightConfigs,
                force \in BOOLEAN : Engine!Match(j, n, weights, force)
    <3>1. PICK j \in MatchedJobs, n \in 1 .. MaxRevisions, weights \in WeightConfigs,
               force \in BOOLEAN : Engine!Match(j, n, weights, force)
      BY <2>4
    <3>2. PICK a : a = Engine!Analyse(j, n, weights)
      OBVIOUS
    <3>3. /\ analysis' = Append(analysis, a) /\ Len(analysis) < MaxAnalyses
          /\ UNCHANGED <<demand, revision, ranking>>
      BY <3>1, <3>2 DEF Engine!Match
    <3>4. PICK old, all : old = analysis /\ all = analysis'
      OBVIOUS
    <3>5. Listed(old) /\ Longer(all, old, a)
      BY <2>0, <3>3, <3>4 DEF Longer
    <3>6. Len(all) = Len(old) + 1 /\ Len(old) \in Nat
      BY <3>5, ListedAppends, ListedIs
    <3> QED
      BY <1>1, <1>3, <3>3, <3>4, <3>6, MatchingAssumption DEF EngineTyped
  <2>5. CASE \E factors \in Factors : Engine!Rank(factors)
    <3>1. PICK factors \in Factors : Engine!Rank(factors)
      BY <2>5
    <3>2. UNCHANGED <<demand, revision>>
      BY <3>1, RankIs
    <3>3. Len(analysis') <= MaxAnalyses /\ Scored(ranking')
      BY <1>3, <3>1, RankKeepsTypes
    <3> QED
      BY <1>1, <1>3, <3>2, <3>3 DEF EngineTyped
  <2> QED
    BY <1>3, <2>1, <2>2, <2>3, <2>4, <2>5 DEF Engine!Next
<1> QED
  BY <1>2, <1>3

LEMMA EngineTypes == EngineTyped => Engine!TypeOK
<1> SUFFICES ASSUME EngineTyped
             PROVE  Engine!TypeOK
  OBVIOUS
<1>1. /\ demand \in Seq(DemandShape) /\ revision \in Seq(Snapshots) /\ revision # << >>
  BY DEF EngineTyped, MatchingInv
<1>2. \A i \in DOMAIN demand : demand[i].job \in MatchedJobs /\ demand[i].status \in Engine!Status
  <2>1. \A i \in DOMAIN demand : demand[i] \in DemandShape
    BY <1>1
  <2> QED
    BY <2>1 DEF DemandShape
<1>3. Len(revision) \in 1 .. MaxRevisions
  <2>1. Len(revision) \in Nat /\ Len(revision) # 0
    BY <1>1
  <2> QED
    BY <2>1, MatchingAssumption DEF EngineTyped
<1>4. Len(demand) <= MaxRequirements /\ Len(analysis) <= MaxAnalyses /\ Scored(ranking)
  BY DEF EngineTyped
<1> QED
  BY <1>1, <1>2, <1>3, <1>4, PTL DEF Engine!TypeOK, Scored, IsScore

LEMMA CompletenessBounds == \A c : Career!Completeness(c) \in 0 .. 3
<1> SUFFICES ASSUME NEW c
             PROVE  Career!Completeness(c) \in 0 .. 3
  OBVIOUS
<1> DEFINE sections == {"fields", "experiences", "preference"}
           counted == {section \in sections :
             \/ section = "fields" /\ c.fields # Blank
             \/ section = "experiences" /\
                  \E i \in DOMAIN c.items : c.items[i].resource = "experiences"
             \/ section = "preference" /\ c.preference # Blank}
<1>1. IsFiniteSet(sections) /\ Cardinality(sections) <= 3
  <2>1. IsFiniteSet({"fields"}) /\ Cardinality({"fields"}) = 1
    BY FS_Singleton
  <2>2. PICK two : two = {"fields"} \cup {"experiences"}
    OBVIOUS
  <2>3. IsFiniteSet(two) /\ Cardinality(two) <= 2
    <3>1. \/ Cardinality(two) = Cardinality({"fields"})
          \/ Cardinality(two) = Cardinality({"fields"}) + 1
      BY <2>1, <2>2, FS_AddElement
    <3> QED
      BY <2>1, <2>2, <3>1, FS_AddElement
  <2>4. sections = two \cup {"preference"}
    BY <2>2
  <2>5. Cardinality(two) \in Nat
    BY <2>3, FS_CardinalityType
  <2>6. /\ IsFiniteSet(two \cup {"preference"})
        /\ \/ Cardinality(two \cup {"preference"}) = Cardinality(two)
           \/ Cardinality(two \cup {"preference"}) = Cardinality(two) + 1
    BY <2>3, FS_AddElement
  <2> QED
    BY <2>3, <2>4, <2>5, <2>6
<1>2. counted \subseteq sections
  OBVIOUS
<1>3. Career!Completeness(c) = Cardinality(counted)
  BY CareerCounts DEF Career!Completeness
<1> HIDE DEF counted, sections
<1>4. Cardinality(counted) \in Nat /\ Cardinality(counted) <= Cardinality(sections)
      /\ Cardinality(sections) \in Nat
  BY <1>1, <1>2, FS_Subset, FS_CardinalityType
<1> QED
  BY <1>1, <1>3, <1>4

\* What a request flushes is typed, and so is what is kept of it.
LEMMA RecordKeepsTypes ==
  ASSUME CareerTyped, profile.revision > 0, NEW contents, NEW from,
         DOMAIN contents = 1 .. Len(contents), Len(contents) \in Nat \ {0},
         Career!Record(contents, from), \A k \in DOMAIN contents : Written(contents[k]),
         ProfiledInv'
  PROVE  CareerTyped'
<1> DEFINE row(i) == [revision |-> profile.revision + i, restored |-> from,
                      content |-> contents[i], score |-> Career!Completeness(contents[i])]
<1>1. PICK n : n = Len(contents)
  OBVIOUS
<1>2. PICK m : m = Len(snapshot)
  OBVIOUS
<1>3. PICK added : added = [i \in 1 .. n |-> row(i)]
  OBVIOUS
<1>4. PICK S : S = {snapshot[i] : i \in DOMAIN snapshot} \cup {row(i) : i \in 1 .. n}
  OBVIOUS
<1>5. snapshot \in Seq(S) /\ n \in Nat \ {0} /\ m \in Nat
  <2>1. snapshot \in Seq({snapshot[i] : i \in DOMAIN snapshot})
    BY DEF CareerTyped, ProfiledInv, Profiled
  <2> QED
    BY <1>1, <1>2, <1>4, <2>1
<1>6. added \in [1 .. n -> S]
  BY <1>3, <1>4
<1>7. /\ snapshot' = snapshot \o added
      /\ profile' = [revision |-> profile.revision + n,
                     score |-> Career!Completeness(contents[n])]
      /\ profile.revision + n <= MaxProfiles
      /\ content' = contents[n] /\ getting' = getting /\ shown' = shown
  BY <1>1, <1>3 DEF Career!Record
<1>8. /\ DOMAIN snapshot' = 1 .. (m + n) /\ DOMAIN snapshot = 1 .. m
      /\ \A k \in 1 .. m : snapshot'[k] = snapshot[k]
      /\ \A k \in (m + 1) .. (m + n) : k - m \in 1 .. n /\ snapshot'[k] = added[k - m]
  BY <1>2, <1>5, <1>6, <1>7, Joined
<1>9. ASSUME NEW k \in DOMAIN snapshot'
      PROVE  Written(snapshot'[k].content)
  <2>1. CASE k \in 1 .. m
    BY <1>8, <2>1 DEF CareerTyped
  <2>2. CASE k \notin 1 .. m
    <3>1. k \in (m + 1) .. (m + n)
      BY <1>5, <1>8, <2>2
    <3>2. k - m \in 1 .. n /\ snapshot'[k] = row(k - m)
      BY <1>3, <1>8, <3>1
    <3>3. snapshot'[k].content = contents[k - m]
      BY <3>2
    <3> QED
      BY <1>1, <3>2, <3>3
  <2> QED
    BY <2>1, <2>2
<1>10. Written(contents[n]) /\ Career!Completeness(contents[n]) \in 0 .. 3
  BY <1>1, <1>5, CompletenessBounds
<1>11. profile'.revision <= MaxProfiles /\ profile'.score \in 0 .. 3
  BY <1>7, <1>10
<1> QED
  BY <1>7, <1>9, <1>10, <1>11 DEF CareerTyped

LEMMA OneRecordKeepsTypes ==
  ASSUME CareerTyped, profile.revision > 0, NEW c, NEW from, Career!Record(<<c>>, from),
         Written(c), ProfiledInv'
  PROVE  CareerTyped'
<1>1. PICK contents : contents = <<c>>
  OBVIOUS
<1>2. DOMAIN contents = 1 .. Len(contents) /\ Len(contents) \in Nat \ {0}
  BY <1>1
<1>3. \A k \in DOMAIN contents : Written(contents[k])
  BY <1>1
<1>4. Career!Record(contents, from)
  BY <1>1
<1> QED
  BY <1>2, <1>3, <1>4, RecordKeepsTypes

LEMMA FieldIsWritten ==
  ASSUME NEW c, Written(c), NEW value \in Values \cup {Blank}
  PROVE  Written([c EXCEPT !.fields = value]) /\ Written([c EXCEPT !.preference = value])
<1>1. PICK f : f = [c EXCEPT !.fields = value]
  OBVIOUS
<1>2. PICK p : p = [c EXCEPT !.preference = value]
  OBVIOUS
<1>3. DOMAIN c = {"fields", "items", "preference"}
  BY DEF Written
<1>4. /\ DOMAIN f = {"fields", "items", "preference"} /\ f.fields = value
      /\ f.items = c.items /\ f.preference = c.preference
  BY <1>1, <1>3
<1>5. /\ DOMAIN p = {"fields", "items", "preference"} /\ p.preference = value
      /\ p.items = c.items /\ p.fields = c.fields
  BY <1>2, <1>3
<1>6. Written(f)
  BY <1>4 DEF Written
<1>7. Written(p)
  BY <1>5 DEF Written
<1> QED
  BY <1>1, <1>2, <1>6, <1>7

\* The items of a page, with others in their places
LEMMA ItemsAreWritten ==
  ASSUME NEW c, Written(c), NEW items, DOMAIN items \subseteq 1 .. MaxItems,
         \A i \in DOMAIN items : items[i] \in Career!Item
  PROVE  Written([c EXCEPT !.items = items])
<1>1. PICK d : d = [c EXCEPT !.items = items]
  OBVIOUS
<1>2. DOMAIN c = {"fields", "items", "preference"}
  BY DEF Written
<1>3. /\ DOMAIN d = {"fields", "items", "preference"} /\ d.items = items
      /\ d.fields = c.fields /\ d.preference = c.preference
  BY <1>1, <1>2
<1>4. Written(d)
  BY <1>3 DEF Written
<1> QED
  BY <1>1, <1>4

LEMMA WithIsWritten ==
  ASSUME NEW c, Written(c), NEW id \in 1 .. MaxItems, NEW item \in Career!Item
  PROVE  Written(Career!With(c, id, item))
<1>1. PICK items : items = [i \in DOMAIN c.items \cup {id} |-> IF i = id THEN item ELSE c.items[i]]
  OBVIOUS
<1>2. DOMAIN items \subseteq 1 .. MaxItems
  BY <1>1 DEF Written
<1>3. ASSUME NEW i \in DOMAIN items
      PROVE  items[i] \in Career!Item
  BY <1>1 DEF Written
<1>4. Career!With(c, id, item) = [c EXCEPT !.items = items]
  BY <1>1 DEF Career!With
<1>5. Written([c EXCEPT !.items = items])
  BY <1>2, <1>3, ItemsAreWritten
<1> QED
  BY <1>4, <1>5

LEMMA NewIdIsNumber ==
  ASSUME CareerTyped
  PROVE  Career!NewId \in Nat \ {0}
<1>1. PICK used : used = Career!Used
  OBVIOUS
<1>2. used \subseteq 1 .. MaxItems
  BY <1>1 DEF CareerTyped, Written, Career!Used
<1>3. IsFiniteSet(used)
  <2>1. PICK a \in Int, b \in Int : a = 1 /\ b = MaxItems
    BY BoundsAssumption
  <2>2. IsFiniteSet(a .. b)
    BY FS_Interval
  <2>3. used \subseteq a .. b
    BY <1>2, <2>1
  <2> QED
    BY <2>2, <2>3, FS_Subset
<1>4. Cardinality(used) \in Nat
  BY <1>3, FS_CardinalityType
<1>5. Career!Cardinality(used) = Cardinality(used)
  BY CareerCounts
<1> QED
  BY <1>1, <1>4, <1>5 DEF Career!NewId

\* What an import copies is typed item by item.
LEMMA CopiesAreWritten ==
  ASSUME CareerTyped, NEW copy \in Copies, NEW n \in Nat, n <= Len(copy), NEW id, id = Career!NewId,
         id + n - 1 <= MaxItems, NEW k \in 1 .. n,
         NEW items, items = [i \in DOMAIN content.items \cup (id .. (id + k - 1)) |->
                               IF i \in DOMAIN content.items THEN content.items[i]
                               ELSE copy[i - id + 1]]
  PROVE  Written([content EXCEPT !.items = items])
<1>1. copy \in Seq(Career!Item)
  BY RecordsAssumption
<1>2. id \in Nat \ {0} /\ MaxItems \in Nat
  BY NewIdIsNumber, BoundsAssumption
<1>3. id .. (id + k - 1) \subseteq 1 .. MaxItems
  BY <1>2
<1>4. Written(content)
  BY DEF CareerTyped
<1>5. DOMAIN items = DOMAIN content.items \cup (id .. (id + k - 1))
  OBVIOUS
<1>6. DOMAIN items \subseteq 1 .. MaxItems
  BY <1>3, <1>4, <1>5 DEF Written
<1>7. ASSUME NEW i \in DOMAIN items
      PROVE  items[i] \in Career!Item
  <2>1. CASE i \in DOMAIN content.items
    BY <1>4, <2>1 DEF Written
  <2>2. CASE i \notin DOMAIN content.items
    <3>1. i \in id .. (id + k - 1) /\ items[i] = copy[i - id + 1]
      BY <1>5, <2>2
    <3>2. i - id + 1 \in 1 .. Len(copy)
      BY <1>2, <3>1
    <3>3. copy[i - id + 1] \in Career!Item
      BY <1>1, <3>2
    <3> QED
      BY <3>1, <3>3
  <2> QED
    BY <2>1, <2>2
<1> QED
  BY <1>4, <1>6, <1>7, ItemsAreWritten

LEMMA CopiedIsPart ==
  ASSUME NEW copy \in Copies, NEW refused,
         refused = {i \in DOMAIN copy : copy[i].value = Blank},
         NEW n, n = IF refused = {} THEN Len(copy) ELSE Career!Min(refused) - 1
  PROVE  n <= Len(copy)
<1>1. copy \in Seq(Career!Item)
  BY RecordsAssumption
<1>2. refused \subseteq 1 .. Len(copy) /\ Len(copy) \in Nat
  BY <1>1
<1>3. CASE refused # {}
  <2>1. \E x \in refused : \A y \in refused : x <= y
    BY <1>2, <1>3, LeastNumber
  <2>2. Career!Min(refused) \in refused
    BY <2>1 DEF Career!Min
  <2> QED
    BY <1>2, <1>3, <2>2
<1> QED
  BY <1>2, <1>3

LEMMA ImportKeepsTypes ==
  ASSUME CareerTyped, NEW p \in Clients, NEW copy \in Copies, Career!ConfirmImport(p, copy),
         ProfiledInv'
  PROVE  CareerTyped'
<1>1. PICK refused : refused = {i \in DOMAIN copy : copy[i].value = Blank}
  OBVIOUS
<1>2. PICK n \in Int : n = IF refused = {} THEN Len(copy) ELSE Career!Min(refused) - 1
  BY <1>1, CopiedIsNumber
<1> DEFINE Items(k) == [i \in DOMAIN content.items \cup (Career!NewId .. (Career!NewId + k - 1)) |->
                          IF i \in DOMAIN content.items THEN content.items[i]
                          ELSE copy[i - Career!NewId + 1]]
           Upto(k) == [content EXCEPT !.items = Items(k)]
<1>3. /\ Career!Expected(p) /\ n > 0 /\ Career!NewId + n - 1 <= MaxItems
      /\ Career!Record([k \in 1 .. n |-> Upto(k)], 0)
  BY <1>1, <1>2, Zenon DEF Career!ConfirmImport
<1>4. n \in Nat /\ n <= Len(copy)
  <2>1. n <= Len(copy)
    BY <1>1, <1>2, CopiedIsPart
  <2> QED
    BY <1>2, <1>3, <2>1
<1>5. \A k \in 1 .. n : Written(Upto(k))
  BY <1>3, <1>4, CopiesAreWritten
<1> HIDE DEF Upto
<1>6. PICK contents : contents = [k \in 1 .. n |-> Upto(k)]
  OBVIOUS
<1>7. DOMAIN contents = 1 .. Len(contents) /\ Len(contents) \in Nat \ {0}
  BY <1>3, <1>4, <1>6
<1>8. \A k \in DOMAIN contents : Written(contents[k])
  BY <1>5, <1>6
<1>9. Career!Record(contents, 0)
  BY <1>3, <1>6
<1>10. profile.revision > 0
  BY <1>3 DEF Career!Expected
<1> QED
  BY <1>7, <1>8, <1>9, <1>10, RecordKeepsTypes

LEMMA ChangeKeepsTypes ==
  ASSUME CareerTyped, NEW p \in Clients, Career!Change(p), ProfiledInv'
  PROVE  CareerTyped'
<1>1. ASSUME Career!Expected(p)
      PROVE  profile.revision > 0
  BY <1>1 DEF Career!Expected
<1>2. Written(content)
  BY DEF CareerTyped
<1>3. CASE \E value \in Values \cup {Blank} :
             Career!UpdateProfile(p, value) \/ Career!SetPreference(p, value)
  <2>1. PICK value \in Values \cup {Blank} :
          Career!UpdateProfile(p, value) \/ Career!SetPreference(p, value)
    BY <1>3
  <2>2. PICK c : Written(c) /\ Career!Record(<<c>>, 0) /\ Career!Expected(p)
    BY <1>2, <2>1, FieldIsWritten DEF Career!UpdateProfile, Career!SetPreference
  <2> QED
    BY <1>1, <2>2, OneRecordKeepsTypes
<1>4. CASE \E item \in Career!Item : Career!CreateItem(p, item)
  <2>1. PICK item \in Career!Item : Career!CreateItem(p, item)
    BY <1>4
  <2>2. Career!NewId \in 1 .. MaxItems
    BY <2>1, NewIdIsNumber, BoundsAssumption DEF Career!CreateItem
  <2>3. Written(Career!With(content, Career!NewId, item))
    BY <1>2, <2>2, WithIsWritten
  <2> QED
    BY <1>1, <2>1, <2>3, OneRecordKeepsTypes DEF Career!CreateItem
<1>5. CASE \E id \in 1 .. MaxItems : Career!DeleteItem(p, id)
  <2>1. PICK id \in 1 .. MaxItems : Career!DeleteItem(p, id)
    BY <1>5
  <2>2. PICK items : items = [i \in DOMAIN content.items \ {id} |-> content.items[i]]
    OBVIOUS
  <2>3. DOMAIN items \subseteq 1 .. MaxItems /\ \A i \in DOMAIN items : items[i] \in Career!Item
    BY <1>2, <2>2 DEF Written
  <2>4. Written([content EXCEPT !.items = items])
    BY <1>2, <2>3, ItemsAreWritten
  <2>5. Career!Record(<<[content EXCEPT !.items = items]>>, 0) /\ Career!Expected(p)
    BY <2>1, <2>2 DEF Career!DeleteItem
  <2> QED
    BY <1>1, <2>4, <2>5, OneRecordKeepsTypes
<1>6. CASE \E id \in 1 .. MaxItems : \E value \in Values \cup {Blank} :
             Career!UpdateItem(p, id, value)
  <2>1. PICK id \in 1 .. MaxItems, value \in Values \cup {Blank} : Career!UpdateItem(p, id, value)
    BY <1>6
  <2>2. PICK item : item = [content.items[id] EXCEPT !.value = value]
    OBVIOUS
  <2>3. content.items[id] \in Career!Item
    BY <1>2, <2>1 DEF Career!UpdateItem, Written
  <2>4. item \in Career!Item
    BY <2>2, <2>3 DEF Career!Item
  <2>5. Written(Career!With(content, id, item))
    BY <1>2, <2>4, WithIsWritten
  <2>6. Career!Record(<<Career!With(content, id, item)>>, 0) /\ Career!Expected(p)
    BY <2>1, <2>2 DEF Career!UpdateItem
  <2> QED
    BY <1>1, <2>5, <2>6, OneRecordKeepsTypes
<1>7. CASE \E n \in 1 .. MaxProfiles : Career!Restore(p, n)
  <2>1. PICK n \in 1 .. MaxProfiles : Career!Restore(p, n)
    BY <1>7
  <2>2. PICK i \in DOMAIN snapshot : Career!Record(<<snapshot[i].content>>, n)
    BY <2>1 DEF Career!Restore
  <2>3. Career!Expected(p)
    BY <2>1 DEF Career!Restore
  <2>4. Written(snapshot[i].content)
    BY DEF CareerTyped
  <2> QED
    BY <1>1, <2>2, <2>3, <2>4, OneRecordKeepsTypes
<1>8. CASE \E copy \in Copies : Career!ConfirmImport(p, copy)
  BY <1>8, ImportKeepsTypes
<1> QED
  BY <1>3, <1>4, <1>5, <1>6, <1>7, <1>8 DEF Career!Change

LEMMA GetKeepsTypes ==
  ASSUME CareerTyped, ProfiledInv',
         \/ Career!FirstGet \/ Career!GetRow \/ Career!GetItems \/ Career!GetCommit
         \/ \E p \in Clients : Career!Load(p)
  PROVE  CareerTyped'
<1>1. content' = content /\ snapshot' = snapshot
  BY DEF Career!FirstGet, Career!GetRow, Career!GetItems, Career!GetCommit, Career!Load
<1>2. profile \in [revision : Nat, score : Nat] /\ MaxProfiles \in Nat \ {0}
  BY BoundsAssumption DEF CareerTyped, ProfiledInv, Profiled
<1>3. profile'.revision <= MaxProfiles /\ profile'.score \in 0 .. 3
  <2>1. CASE Career!FirstGet
    BY <1>2, <2>1 DEF Career!FirstGet, CareerTyped
  <2>2. CASE Career!GetCommit
    BY <1>2, <2>2 DEF Career!GetCommit, CareerTyped
  <2>3. CASE ~Career!FirstGet /\ ~Career!GetCommit
    <3>1. profile' = profile
      BY <2>3 DEF Career!GetRow, Career!GetItems, Career!Load
    <3> QED
      BY <3>1 DEF CareerTyped
  <2> QED
    BY <2>1, <2>2, <2>3
<1>4. shown' \in [Clients -> 0 .. MaxProfiles]
  <2>1. CASE \E p \in Clients : Career!Load(p)
    <3>1. profile.revision \in 0 .. MaxProfiles
      BY <1>2 DEF CareerTyped
    <3> QED
      BY <2>1, <3>1 DEF Career!Load, CareerTyped
  <2>2. CASE ~\E p \in Clients : Career!Load(p)
    BY <2>2 DEF Career!FirstGet, Career!GetRow, Career!GetItems, Career!GetCommit, CareerTyped
  <2> QED
    BY <2>1, <2>2
<1>5. /\ getting'.op \in {"none", "row", "items"}
      /\ getting'.op = "items" => getting'.computed \in 0 .. 3
  <2>1. CASE Career!GetItems
    BY <2>1, CompletenessBounds DEF Career!GetItems
  <2>2. CASE Career!GetRow \/ Career!GetCommit
    BY <2>2 DEF Career!GetRow, Career!GetCommit, Career!NoGet
  <2>3. CASE Career!FirstGet \/ \E p \in Clients : Career!Load(p)
    BY <2>3 DEF Career!FirstGet, Career!Load, CareerTyped
  <2> QED
    BY <2>1, <2>2, <2>3
<1> QED
  BY <1>1, <1>3, <1>4, <1>5 DEF CareerTyped

LEMMA CareerTypesStart == Career!Init => CareerTyped
<1> SUFFICES ASSUME Career!Init
             PROVE  CareerTyped
  OBVIOUS
<1>1. ProfiledInv
  BY CareerStarts
<1>2. /\ profile = [revision |-> 0, score |-> 0] /\ content = Career!Nothing /\ snapshot = << >>
      /\ shown = [p \in Clients |-> 0] /\ getting = Career!NoGet
  BY DEF Career!Init
<1>3. Written(content)
  BY <1>2 DEF Written, Career!Nothing
<1> QED
  BY <1>1, <1>2, <1>3, BoundsAssumption DEF CareerTyped, Career!NoGet

LEMMA CareerKeepsTypes ==
  CareerTyped /\ [Career!Next]_profileVars => CareerTyped'
<1>1. ASSUME CareerTyped, [Career!Next]_profileVars
      PROVE  ProfiledInv'
  BY <1>1, CareerKeepsInv DEF CareerTyped
<1>2. ASSUME CareerTyped, UNCHANGED profileVars
      PROVE  CareerTyped'
  BY <1>1, <1>2 DEF profileVars, CareerTyped
<1>3. ASSUME CareerTyped, Career!Next
      PROVE  CareerTyped'
  BY <1>1, <1>3, GetKeepsTypes, ChangeKeepsTypes DEF Career!Next
<1> QED
  BY <1>2, <1>3

LEMMA CareerTypes == CareerTyped => Career!TypeOK
<1> SUFFICES ASSUME CareerTyped
             PROVE  Career!TypeOK
  OBVIOUS
<1>1. profile \in [revision : Nat, score : Nat] /\ MaxProfiles \in Nat \ {0}
  BY BoundsAssumption DEF CareerTyped, ProfiledInv, Profiled
<1>2. profile \in Career!ProfileRow
  BY <1>1 DEF CareerTyped, Career!ProfileRow
<1>3. Len(snapshot) < MaxProfiles
  <2>1. CASE profile.revision = 0
    <3>1. Len(snapshot) = 0
      BY <2>1 DEF CareerTyped, ProfiledInv, Profiled
    <3> QED
      BY <1>1, <3>1
  <2>2. CASE profile.revision > 0
    BY <1>1, <2>2 DEF CareerTyped, ProfiledInv, Career!ProfileHistory
  <2> QED
    BY <1>1, <2>1, <2>2
<1> QED
  BY <1>2, <1>3 DEF CareerTyped, Career!TypeOK, Written

LEMMA FewChanged ==
  ASSUME NEW rows, NEW S, rows \in Seq(S), Few(rows), NEW r, NEW row,
         r \in DOMAIN rows => Allowed(row)
  PROVE  Few([rows EXCEPT ![r] = row])
<1>1. PICK new : new = [rows EXCEPT ![r] = row]
  OBVIOUS
<1>2. DOMAIN new = DOMAIN rows /\ Len(new) = Len(rows)
  BY <1>1
<1>3. \A i \in DOMAIN new : Allowed(new[i])
  BY <1>1, <1>2 DEF Few
<1>4. Few(new)
  BY <1>2, <1>3 DEF Few
<1> QED
  BY <1>1, <1>4

LEMMA FewAdded ==
  ASSUME NEW rows, NEW S, rows \in Seq(S), Few(rows), Len(rows) < MaxResumes, NEW row, Allowed(row)
  PROVE  Few(Append(rows, row))
<1>1. PICK new : new = Append(rows, row)
  OBVIOUS
<1>2. PICK T : T = S \cup {row}
  OBVIOUS
<1>3. rows \in Seq(T) /\ row \in T
  BY <1>2
<1>4. /\ Len(new) = Len(rows) + 1 /\ Len(rows) \in Nat /\ DOMAIN new = 1 .. (Len(rows) + 1)
      /\ DOMAIN rows = 1 .. Len(rows) /\ new[Len(rows) + 1] = row
      /\ \A i \in 1 .. Len(rows) : new[i] = rows[i]
  BY <1>1, <1>3, AppendProperties
<1>5. ASSUME NEW i \in DOMAIN new
      PROVE  Allowed(new[i])
  <2>1. CASE i \in 1 .. Len(rows)
    BY <1>4, <2>1 DEF Few
  <2>2. CASE i = Len(rows) + 1
    BY <1>4, <2>2
  <2> QED
    BY <1>4, <2>1, <2>2
<1>6. Len(new) <= MaxResumes
  BY <1>4, BoundsAssumption
<1>7. Few(new)
  BY <1>5, <1>6 DEF Few
<1> QED
  BY <1>1, <1>7

LEMMA FlagsKeepActive ==
  ASSUME NEW row \in ResumeShape, Allowed(row)
  PROVE  /\ \A b \in BOOLEAN : Allowed([row EXCEPT !.primary = b])
         /\ Allowed([row EXCEPT !.primary = FALSE, !.archived = TRUE])
<1>1. ASSUME NEW b \in BOOLEAN
      PROVE  Allowed([row EXCEPT !.primary = b])
  <2>1. [row EXCEPT !.primary = b].active = row.active
    BY DEF ResumeShape
  <2> QED
    BY <2>1 DEF Allowed
<1>2. Allowed([row EXCEPT !.primary = FALSE, !.archived = TRUE])
  <2>1. [row EXCEPT !.primary = FALSE, !.archived = TRUE].active = row.active
    BY DEF ResumeShape
  <2> QED
    BY <2>1 DEF Allowed
<1> QED
  BY <1>1, <1>2

LEMMA ClearedKeepsFew ==
  ASSUME FilesInv, Few(resume), NEW rows, NEW cleared, cleared = Resumes!Cleared(rows)
  PROVE  /\ cleared \in Seq(ResumeShape) /\ Few(cleared)
         /\ DOMAIN cleared = DOMAIN resume /\ Len(cleared) = Len(resume)
<1>1. Refer(resume, Sources(asset)) /\ resume \in Seq(ResumeShape)
  BY DEF FilesInv, Refer
<1>2. cleared \in Seq(ResumeShape) /\ DOMAIN cleared = DOMAIN resume
  BY <1>1, ReferCleared DEF Refer
<1>3. Len(cleared) = Len(resume)
  BY <1>1, <1>2
<1>4. ASSUME NEW r \in DOMAIN cleared
      PROVE  Allowed(cleared[r])
  <2>1. resume[r] \in ResumeShape /\ Allowed(resume[r])
    BY <1>1, <1>2 DEF Few
  <2>2. Allowed([resume[r] EXCEPT !.primary = FALSE])
    BY <2>1, FlagsKeepActive
  <2> QED
    BY <1>2, <2>1, <2>2 DEF Resumes!Cleared
<1> QED
  BY <1>2, <1>3, <1>4 DEF Few

LEMMA ArchiveKeepsFew ==
  ASSUME FilesInv, Few(resume), NEW c \in Clients, Resumes!ArchiveCommit(c)
  PROVE  Few(resume')
<1>1. resume \in Seq(ResumeShape)
  BY DEF FilesInv, Refer
<1>2. PICK r : r = upload[c].resume
  OBVIOUS
<1>3. PICK row : row = Resumes!Archived(r)
  OBVIOUS
<1>4. r \in DOMAIN resume => row \in ResumeShape /\ Allowed(row)
  <2>1. r \in DOMAIN resume => resume[r] \in ResumeShape /\ Allowed(resume[r])
    BY <1>1 DEF Few
  <2>2. r \in DOMAIN resume => row \in ResumeShape
    BY <1>3, <2>1 DEF Resumes!Archived, ResumeShape
  <2>3. r \in DOMAIN resume => Allowed(row)
    BY <1>3, <2>1, FlagsKeepActive DEF Resumes!Archived
  <2> QED
    BY <2>2, <2>3
<1>5. CASE resume' = [resume EXCEPT ![r] = row]
  BY <1>1, <1>4, <1>5, FewChanged
<1>6. ASSUME NEW remaining, NEW without,
             without = [Resumes!Cleared(remaining) EXCEPT ![r] = row],
             \/ resume' = without
             \/ \E next \in remaining : resume' = [without EXCEPT ![next].primary = TRUE]
      PROVE  Few(resume')
  <2>1. PICK cleared : cleared = Resumes!Cleared(remaining)
    OBVIOUS
  <2>2. /\ cleared \in Seq(ResumeShape) /\ Few(cleared) /\ DOMAIN cleared = DOMAIN resume
    BY <2>1, ClearedKeepsFew
  <2>3. without = [cleared EXCEPT ![r] = row]
    BY <1>6, <2>1
  <2>4. Few(without)
    BY <1>4, <2>2, <2>3, FewChanged
  <2>5. without \in Seq(ResumeShape)
    <3>1. CASE r \in DOMAIN cleared
      BY <1>4, <2>2, <2>3, <3>1, ExceptSeq
    <3>2. CASE r \notin DOMAIN cleared
      <4>1. [cleared EXCEPT ![r] = row] = cleared
        BY <2>2, <3>2
      <4> QED
        BY <2>2, <2>3, <4>1
    <3> QED
      BY <3>1, <3>2
  <2>6. CASE \E next \in remaining : resume' = [without EXCEPT ![next].primary = TRUE]
    <3>1. PICK next : resume' = [without EXCEPT ![next].primary = TRUE]
      BY <2>6
    <3>2. PICK new : new = [without[next] EXCEPT !.primary = TRUE]
      OBVIOUS
    <3>3. resume' = [without EXCEPT ![next] = new]
      BY <3>1, <3>2
    <3>4. next \in DOMAIN without => without[next] \in ResumeShape /\ Allowed(without[next])
      BY <2>4, <2>5 DEF Few
    <3>5. next \in DOMAIN without => Allowed(new)
      BY <3>2, <3>4, FlagsKeepActive
    <3> QED
      BY <2>4, <2>5, <3>3, <3>5, FewChanged
  <2> QED
    BY <1>6, <2>4, <2>6
<1>7. ASSUME NEW remaining,
             LET without == [Resumes!Cleared(remaining) EXCEPT ![r] = row]
             IN \/ resume' = without
                \/ \E next \in remaining : resume' = [without EXCEPT ![next].primary = TRUE]
      PROVE  Few(resume')
  <2>1. PICK without : without = [Resumes!Cleared(remaining) EXCEPT ![r] = row]
    OBVIOUS
  <2> QED
    BY <1>6, <1>7, <2>1
<1>8. \/ resume' = [resume EXCEPT ![r] = row]
      \/ LET remaining == upload[c].seen \cap Resumes!ActiveResumes
             without == [Resumes!Cleared(remaining) EXCEPT ![r] = row]
         IN \/ resume' = without
            \/ \E next \in remaining : resume' = [without EXCEPT ![next].primary = TRUE]
  BY <1>2, <1>3, Zenon DEF Resumes!ArchiveCommit
<1> QED
  BY <1>5, <1>7, <1>8

LEMMA RequestsServed ==
  ASSUME served \in 0 .. MaxServed, served' = served \/ Resumes!Serve
  PROVE  served' \in 0 .. MaxServed
BY BoundsAssumption DEF Resumes!Serve

LEMMA FileStepStaysFew ==
  ASSUME ResumesTyped, NEW c \in Clients, Resumes!FileStep(c)
  PROVE  resume' = resume /\ Len(disk') <= MaxFiles /\ served' \in 0 .. MaxServed
<1>1. disk \in Seq(Resumes!FileState) /\ Len(disk) \in Nat /\ Len(disk) <= MaxFiles
  BY DEF ResumesTyped, FilesInv
<1>2. served \in 0 .. MaxServed
  BY DEF ResumesTyped
<1>3. ASSUME NEW k, NEW now, disk' = [disk EXCEPT ![k] = now]
      PROVE  Len(disk') <= MaxFiles
  <2>1. DOMAIN disk' = DOMAIN disk
    BY <1>3
  <2>2. Len(disk') = Len(disk)
    BY <1>1, <1>3, <2>1
  <2> QED
    BY <1>1, <2>2
<1>4. ASSUME NEW data \in Datas, NEW goal \in Goals,
             Resumes!UploadDuplicate(c, data, goal) \/ Resumes!WriteBegin(c, data, goal)
      PROVE  resume' = resume /\ Len(disk') <= MaxFiles /\ (served' = served \/ Resumes!Serve)
  <2>1. CASE Resumes!UploadDuplicate(c, data, goal)
    BY <1>1, <2>1 DEF Resumes!UploadDuplicate, Resumes!Begin
  <2>2. CASE Resumes!WriteBegin(c, data, goal)
    <3>1. PICK T : T = Resumes!FileState \cup {"temporary"}
      OBVIOUS
    <3>2. disk \in Seq(T) /\ "temporary" \in T
      BY <1>1, <3>1
    <3>3. disk' = Append(disk, "temporary") /\ Len(disk) < MaxFiles
      BY <2>2 DEF Resumes!WriteBegin
    <3>4. Len(disk') = Len(disk) + 1
      BY <3>2, <3>3, AppendProperties
    <3>5. Len(disk') <= MaxFiles
      BY <1>1, <3>3, <3>4, BoundsAssumption
    <3> QED
      BY <2>2, <3>5 DEF Resumes!WriteBegin, Resumes!Begin
  <2> QED
    BY <1>4, <2>1, <2>2
<1>5. CASE \E data \in Datas, goal \in Goals :
             Resumes!UploadDuplicate(c, data, goal) \/ Resumes!WriteBegin(c, data, goal)
  BY <1>2, <1>4, <1>5, RequestsServed
<1>6. CASE \/ Resumes!WriteEnd(c) \/ Resumes!WriteFails(c)
           \/ Resumes!JobFileFails(c) \/ Resumes!JobFileRefused(c)
  <2>1. resume' = resume /\ served' = served
    BY <1>6 DEF Resumes!WriteEnd, Resumes!WriteFails, Resumes!JobFileFails,
       Resumes!JobFileRefused, Resumes!Goto
  <2>2. \E k, now : disk' = [disk EXCEPT ![k] = now]
    BY <1>6 DEF Resumes!WriteEnd, Resumes!WriteFails, Resumes!JobFileFails,
       Resumes!JobFileRefused
  <2> QED
    BY <1>2, <1>3, <2>1, <2>2
<1>7. CASE Resumes!FileCommit(c) \/ Resumes!DeleteCommit(c)
  BY <1>1, <1>2, <1>7 DEF Resumes!FileCommit, Resumes!DeleteCommit, Resumes!Goto
<1>8. CASE \E a \in 1 .. MaxFiles : Resumes!DeleteRead(c, a)
  <2>1. resume' = resume /\ disk' = disk /\ Resumes!Serve
    BY <1>8 DEF Resumes!DeleteRead, Resumes!Begin
  <2> QED
    BY <1>1, <1>2, <2>1, RequestsServed
<1> QED
  BY <1>5, <1>6, <1>7, <1>8 DEF Resumes!FileStep, Goals

LEMMA NewResumeAllowed ==
  ASSUME NEW primary, NEW versions, Len(versions) \in 0 .. 1
  PROVE  Allowed(Resumes!NewResume(primary, versions))
<1>1. Resumes!NewResume(primary, versions).active = Len(versions)
  BY DEF Resumes!NewResume
<1> QED
  BY <1>1, BoundsAssumption DEF Allowed

LEMMA ResumeStepStaysFew ==
  ASSUME ResumesTyped, NEW c \in Clients, Resumes!ResumeStep(c)
  PROVE  Few(resume') /\ disk' = disk /\ served' \in 0 .. MaxServed
<1>1. /\ FilesInv /\ Few(resume) /\ served \in 0 .. MaxServed
      /\ resume \in Seq(ResumeShape) /\ Len(resume) \in Nat
  BY DEF ResumesTyped, FilesInv, Refer
<1>2. disk' = disk /\ (served' = served \/ Resumes!Serve)
  BY DEF Resumes!ResumeStep, Resumes!ImportLock, Resumes!ImportRefused, Resumes!ImportCommit,
     Resumes!CreateRead, Resumes!CreateLock, Resumes!CreateCommit, Resumes!ArchiveLock,
     Resumes!ArchiveAll, Resumes!ArchiveCommit, Resumes!Abort, Resumes!Goto, Resumes!Begin
<1>3. served' \in 0 .. MaxServed
  BY <1>1, <1>2, RequestsServed
<1>4. ASSUME NEW primary \in BOOLEAN, NEW versions, Len(versions) \in 0 .. 1,
             Len(resume) < MaxResumes, NEW rows,
             \/ rows = resume
             \/ \E seen : rows = Resumes!Cleared(seen)
      PROVE  Few(Append(rows, Resumes!NewResume(primary, versions)))
  <2>1. PICK new : new = Resumes!NewResume(primary, versions)
    OBVIOUS
  <2>2. Allowed(new)
    BY <1>4, <2>1, NewResumeAllowed
  <2>3. rows \in Seq(ResumeShape) /\ Few(rows) /\ Len(rows) = Len(resume)
    BY <1>1, <1>4, ClearedKeepsFew
  <2>4. Few(Append(rows, new))
    BY <1>4, <2>2, <2>3, FewAdded
  <2> QED
    BY <2>1, <2>4
<1>5. CASE Resumes!ImportRefused(c)
  <2>1. PICK versions : versions = << >>
    OBVIOUS
  <2>2. Len(versions) \in 0 .. 1
    BY <2>1
  <2>3. Len(resume) < MaxResumes /\ resume' = Append(resume, Resumes!NewResume(FALSE, versions))
    BY <1>5, <2>1 DEF Resumes!ImportRefused
  <2> QED
    BY <1>2, <1>3, <1>4, <2>2, <2>3
<1>6. CASE Resumes!ImportCommit(c)
  <2>1. PICK versions : versions = <<[final |-> FALSE, asset |-> Resumes!AssetOf(c)]>>
    OBVIOUS
  <2>2. Len(versions) \in 0 .. 1
    BY <2>1
  <2>3. PICK rows : rows = Resumes!Cleared(upload[c].seen)
    OBVIOUS
  <2>4. Len(resume) < MaxResumes /\ resume' = Append(rows, Resumes!NewResume(TRUE, versions))
    BY <1>6, <2>1, <2>3 DEF Resumes!ImportCommit
  <2> QED
    BY <1>2, <1>3, <1>4, <2>2, <2>3, <2>4
<1>7. CASE Resumes!CreateCommit(c)
  <2>1. PICK versions : versions = << >>
    OBVIOUS
  <2>2. Len(versions) \in 0 .. 1
    BY <2>1
  <2>3. PICK rows : rows = Resumes!Cleared(upload[c].seen)
    OBVIOUS
  <2>4. /\ Len(resume) < MaxResumes
        /\ \/ resume' = Append(resume, Resumes!NewResume(FALSE, versions))
           \/ resume' = Append(rows, Resumes!NewResume(TRUE, versions))
    BY <1>7, <2>1, <2>3 DEF Resumes!CreateCommit
  <2> QED
    BY <1>2, <1>3, <1>4, <2>2, <2>3, <2>4
<1>8. CASE Resumes!ArchiveCommit(c)
  BY <1>1, <1>2, <1>3, <1>8, ArchiveKeepsFew
<1>9. CASE UNCHANGED resume
  BY <1>1, <1>2, <1>3, <1>9
<1> QED
  BY <1>5, <1>6, <1>7, <1>8, <1>9 DEF Resumes!ResumeStep, Resumes!ImportLock, Resumes!CreateRead,
     Resumes!CreateLock, Resumes!ArchiveLock, Resumes!ArchiveAll, Resumes!Abort

LEMMA VersionStepStaysFew ==
  ASSUME ResumesTyped, NEW r, NEW v \in 1 .. MaxResumeVersions,
         Resumes!CreateVersion(r) \/ Resumes!Finalize(r, v) \/ Resumes!SetActive(r, v)
  PROVE  Few(resume') /\ disk' = disk /\ served' \in 0 .. MaxServed
<1>1. /\ Few(resume) /\ served \in 0 .. MaxServed /\ resume \in Seq(ResumeShape)
  BY DEF ResumesTyped, FilesInv, Refer
<1>2. disk' = disk /\ Resumes!Serve /\ r \in DOMAIN resume
  BY DEF Resumes!CreateVersion, Resumes!Finalize, Resumes!SetActive, Resumes!ActiveResumes
<1>3. served' \in 0 .. MaxServed
  BY <1>1, <1>2, RequestsServed
<1>4. PICK old : old = resume[r]
  OBVIOUS
<1>5. old \in ResumeShape /\ Allowed(old)
  BY <1>1, <1>2, <1>4 DEF Few
<1>6. ASSUME NEW row, NEW versions, NEW active, resume' = [resume EXCEPT ![r] = row],
             row = [[old EXCEPT !.versions = versions] EXCEPT !.active = active],
             active \in 0 .. MaxResumeVersions
      PROVE  Few(resume')
  <2>1. row.active = active
    BY <1>5, <1>6 DEF ResumeShape
  <2>2. Allowed(row)
    BY <1>6, <2>1 DEF Allowed
  <2> QED
    BY <1>1, <1>6, <2>2, FewChanged
<1>7. CASE Resumes!CreateVersion(r)
  <2>1. PICK versions : versions = Append(old.versions, [final |-> FALSE, asset |-> 0])
    OBVIOUS
  <2>2. PICK active : active = IF old.active = 0 THEN Len(old.versions) + 1 ELSE old.active
    OBVIOUS
  <2>3. old.versions \in Seq(Imported) /\ Len(old.versions) < MaxResumeVersions
    BY <1>4, <1>5, <1>7 DEF Resumes!CreateVersion, ResumeShape
  <2>4. active \in 0 .. MaxResumeVersions
    <3>1. Len(old.versions) \in Nat
      BY <2>3
    <3>2. CASE old.active = 0
      BY <2>2, <2>3, <3>1, <3>2, BoundsAssumption
    <3>3. CASE old.active # 0
      BY <1>5, <2>2, <3>3 DEF Allowed
    <3> QED
      BY <3>2, <3>3
  <2>5. PICK row : row = [[old EXCEPT !.versions = versions] EXCEPT !.active = active]
    OBVIOUS
  <2>6. resume' = [resume EXCEPT ![r] = row]
    BY <1>4, <1>7, <2>1, <2>2, <2>5 DEF Resumes!CreateVersion
  <2> QED
    BY <1>2, <1>3, <1>6, <2>4, <2>5, <2>6
<1>8. v \in 0 .. MaxResumeVersions
  BY BoundsAssumption
<1>9. CASE Resumes!Finalize(r, v)
  <2>1. PICK versions : versions = [old.versions EXCEPT ![v] = [old.versions[v] EXCEPT !.final = TRUE]]
    OBVIOUS
  <2>2. PICK row : row = [[old EXCEPT !.versions = versions] EXCEPT !.active = v]
    OBVIOUS
  <2>3. resume' = [resume EXCEPT ![r] = row]
    BY <1>4, <1>9, <2>1, <2>2 DEF Resumes!Finalize
  <2> QED
    BY <1>2, <1>3, <1>6, <1>8, <2>2, <2>3
<1>10. CASE Resumes!SetActive(r, v)
  <2>1. PICK row : row = [old EXCEPT !.active = v]
    OBVIOUS
  <2>2. Allowed(row)
    <3>1. row.active = v
      BY <1>5, <2>1 DEF ResumeShape
    <3> QED
      BY <1>8, <3>1 DEF Allowed
  <2>3. resume' = [resume EXCEPT ![r] = row]
    BY <1>4, <1>10, <2>1 DEF Resumes!SetActive
  <2> QED
    BY <1>1, <1>2, <1>3, <2>2, <2>3, FewChanged
<1> QED
  BY <1>7, <1>9, <1>10

LEMMA ResumesTypesStart == Resumes!Init => ResumesTyped
BY ResumesStart, BoundsAssumption DEF Resumes!Init, ResumesTyped, Few

LEMMA ResumesKeepTypes == ResumesTyped /\ [Resumes!Next]_resumeVars => ResumesTyped'
<1>1. ASSUME ResumesTyped, UNCHANGED resumeVars
      PROVE  ResumesTyped'
  <2>1. FilesInv'
    BY <1>1, ResumesKeepInv DEF ResumesTyped
  <2> QED
    BY <1>1, <2>1 DEF resumeVars, ResumesTyped, Few
<1>2. ASSUME ResumesTyped, Resumes!Next
      PROVE  ResumesTyped'
  <2>1. FilesInv'
    BY <1>2, ResumesKeepInv DEF ResumesTyped
  <2>2. Len(disk) <= MaxFiles /\ Few(resume)
    BY <1>2 DEF ResumesTyped
  <2>3. ASSUME NEW c \in Clients, Resumes!FileStep(c) \/ Resumes!ResumeStep(c)
        PROVE  Few(resume') /\ Len(disk') <= MaxFiles /\ served' \in 0 .. MaxServed
    <3>1. CASE Resumes!FileStep(c)
      BY <1>2, <2>2, <3>1, FileStepStaysFew
    <3>2. CASE Resumes!ResumeStep(c)
      BY <1>2, <2>2, <3>2, ResumeStepStaysFew
    <3> QED
      BY <2>3, <3>1, <3>2
  <2>4. ASSUME NEW r, NEW v \in 1 .. MaxResumeVersions,
               Resumes!CreateVersion(r) \/ Resumes!Finalize(r, v) \/ Resumes!SetActive(r, v)
        PROVE  Few(resume') /\ Len(disk') <= MaxFiles /\ served' \in 0 .. MaxServed
    BY <1>2, <2>2, <2>4, VersionStepStaysFew
  <2>5. Few(resume') /\ Len(disk') <= MaxFiles /\ served' \in 0 .. MaxServed
    <3>1. CASE \E c \in Clients : Resumes!FileStep(c) \/ Resumes!ResumeStep(c)
      BY <2>3, <3>1
    <3>2. CASE \E r \in 1 .. MaxResumes : Resumes!CreateVersion(r)
      <4>1. 1 \in 1 .. MaxResumeVersions
        BY BoundsAssumption
      <4> QED
        BY <2>4, <3>2, <4>1
    <3>3. CASE \E r \in 1 .. MaxResumes, v \in 1 .. MaxResumeVersions :
                 Resumes!Finalize(r, v) \/ Resumes!SetActive(r, v)
      BY <2>4, <3>3
    <3> QED
      BY <1>2, <3>1, <3>2, <3>3 DEF Resumes!Next
  <2> QED
    BY <2>1, <2>5 DEF ResumesTyped, Few
<1> QED
  BY <1>1, <1>2

\* Every row of a file has a file of its own: there are no more rows than files.
LEMMA RowsAreFewerThanFiles ==
  ASSUME FilesInv
  PROVE  Len(asset) <= Len(disk)
<1>1. /\ asset \in Seq(FileRow) /\ Len(asset) \in Nat /\ DOMAIN asset = 1 .. Len(asset)
      /\ Len(disk) \in Nat /\ DOMAIN disk = 1 .. Len(disk)
  BY DEF FilesInv
<1>2. PICK keys : keys = [a \in DOMAIN asset |-> asset[a].key]
  OBVIOUS
<1>3. keys \in Injection(DOMAIN asset, DOMAIN disk)
  <2>1. \A a \in DOMAIN asset : asset[a].key \in DOMAIN disk
    BY DEF FilesInv
  <2>2. keys \in [DOMAIN asset -> DOMAIN disk]
    BY <1>2, <2>1
  <2>3. \A a, b \in DOMAIN asset : asset[a].key = asset[b].key => a = b
    BY DEF FilesInv
  <2>4. \A a, b \in DOMAIN asset : keys[a] = keys[b] => a = b
    BY <1>2, <2>3
  <2>5. IsInjective(keys)
    BY <2>2, <2>4 DEF IsInjective
  <2> QED
    BY <2>2, <2>5 DEF Injection
<1>4. ASSUME NEW n \in Nat
      PROVE  IsFiniteSet(1 .. n) /\ Cardinality(1 .. n) = n
  <2>1. PICK a \in Int, b \in Int : a = 1 /\ b = n
    OBVIOUS
  <2>2. IsFiniteSet(a .. b) /\ Cardinality(a .. b) = IF a > b THEN 0 ELSE b - a + 1
    BY FS_Interval
  <2> QED
    BY <2>1, <2>2
<1>5. Cardinality(DOMAIN asset) <= Cardinality(DOMAIN disk)
  BY <1>1, <1>3, <1>4, FS_Injection
<1> QED
  BY <1>1, <1>4, <1>5

LEMMA ResumesTypes == ResumesTyped => Resumes!TypeOK
<1> SUFFICES ASSUME ResumesTyped
             PROVE  Resumes!TypeOK
  OBVIOUS
<1>1. /\ FilesInv /\ Few(resume) /\ Len(disk) <= MaxFiles /\ served \in 0 .. MaxServed
      /\ disk \in Seq(Resumes!FileState) /\ DOMAIN upload = Clients
      /\ Refer(resume, Sources(asset))
      /\ asset \in Seq(FileRow) /\ Len(asset) \in Nat /\ Len(disk) \in Nat
      /\ DOMAIN disk = 1 .. Len(disk)
  BY DEF ResumesTyped, FilesInv
<1>2. Len(asset) <= Len(disk)
  BY <1>1, RowsAreFewerThanFiles
<1>3. ASSUME NEW n \in 0 .. Len(asset)
      PROVE  n \in 0 .. MaxFiles
  BY <1>1, <1>2, BoundsAssumption
<1>4. ASSUME NEW a \in DOMAIN asset
      PROVE  asset[a] \in Resumes!AssetRow
  <2>1. asset[a] \in FileRow
    BY <1>1
  <2>2. asset[a].key \in DOMAIN disk
    BY <1>1 DEF FilesInv
  <2>3. PICK k : k = asset[a].key
    OBVIOUS
  <2>4. k \in 1 .. MaxFiles
    BY <1>1, <2>2, <2>3, BoundsAssumption
  <2> QED
    BY <2>1, <2>3, <2>4 DEF FileRow, Resumes!AssetRow
<1>5. asset \in Seq(Resumes!AssetRow)
  BY <1>1, <1>4, ElementsOf
<1>6. ASSUME NEW r \in DOMAIN resume
      PROVE  resume[r] \in Resumes!ResumeRow
  <2>1. PICK row : row = resume[r]
    OBVIOUS
  <2>2. row \in ResumeShape /\ Allowed(row)
    BY <1>1, <2>1 DEF Refer, Few
  <2>3. ASSUME NEW v \in DOMAIN row.versions
        PROVE  row.versions[v] \in Resumes!VersionRow
    <3>1. row.versions[v] \in Imported
      BY <2>2 DEF ResumeShape
    <3>2. PICK n : n = row.versions[v].asset
      OBVIOUS
    <3>3. n \in Sources(asset)
      BY <1>1, <2>1, <3>2 DEF Refer
    <3>4. n \in 0 .. Len(asset)
      BY <1>1, <3>3 DEF Sources
    <3>5. n \in 0 .. MaxFiles
      BY <1>3, <3>4
    <3> QED
      BY <3>1, <3>2, <3>5 DEF Imported, Resumes!VersionRow
  <2>4. row.versions \in Seq(Imported)
    BY <2>2 DEF ResumeShape
  <2>5. row.versions \in Seq(Resumes!VersionRow)
    BY <2>3, <2>4, ElementsOf
  <2>6. PICK n : n = row.active
    OBVIOUS
  <2>7. n \in 0 .. MaxResumeVersions
    BY <2>2, <2>6 DEF Allowed
  <2> QED
    BY <2>1, <2>2, <2>5, <2>6, <2>7 DEF ResumeShape, Resumes!ResumeRow
<1>7. resume \in Seq(Resumes!ResumeRow)
  BY <1>1, <1>6, ElementsOf DEF Refer
<1> QED
  BY <1>1, <1>5, <1>7 DEF Resumes!TypeOK, Few

LEMMA JobsAre ==
  ASSUME NEW j
  PROVE  /\ IsJob(j) <=> j \in Nat /\ 1 <= j /\ j <= MaxJobs
         /\ \A n \in Nat : Known(j, n) <=> j \in Nat /\ 1 <= j /\ j <= MaxJobs + n
<1>1. ASSUME NEW n \in Nat
      PROVE  Known(j, n) <=> j \in Nat /\ 1 <= j /\ j <= MaxJobs + n
  BY RecordsAssumption DEF Known
<1>2. IsJob(j) <=> j \in Nat /\ 1 <= j /\ j <= MaxJobs
  BY RecordsAssumption DEF IsJob, Library!Jobs
<1> QED
  BY <1>1, <1>2

LEMMA KnownLonger ==
  ASSUME NEW n \in Nat
  PROVE  /\ \A j : Known(j, n) => Known(j, n + 1)
         /\ \A pair : PairOf(pair, n) => PairOf(pair, n + 1)
         /\ \A j : IsJob(j) => Known(j, n)
<1>1. ASSUME NEW j
      PROVE  (Known(j, n) => Known(j, n + 1)) /\ (IsJob(j) => Known(j, n))
  <2>1. n + 1 \in Nat /\ MaxJobs \in Nat
    BY RecordsAssumption
  <2> QED
    BY <2>1, JobsAre
<1> QED
  BY <1>1 DEF PairOf

LEMMA JobsWithin ==
  ASSUME LibraryTyped
  PROVE  /\ \A j \in DOMAIN job : IsJob(j)
         /\ \A text : \A j \in Library!Near(text) : IsJob(j)
         /\ \A row : \A j \in Library!Exact(row) : IsJob(j)
<1>1. job \in Seq(Library!JobRow) /\ Len(job) <= MaxJobs
  BY DEF LibraryTyped, TablesTyped, LibraryInv, TxInv
<1>2. ASSUME NEW j \in DOMAIN job
      PROVE  IsJob(j)
  BY <1>1, JobsAre, RecordsAssumption
<1>3. Library!ActiveJobs \subseteq DOMAIN job
  BY DEF Library!ActiveJobs
<1> QED
  BY <1>2, <1>3 DEF Library!Near, Library!Exact

LEMMA TxWithin ==
  ASSUME LibraryTyped, NEW c \in Clients, NEW t, libraryTx' = [libraryTx EXCEPT ![c] = t], Within(t)
  PROVE  \A d \in Clients : Within(libraryTx'[d])
<1>1. DOMAIN libraryTx = Clients /\ \A d \in Clients : Within(libraryTx[d])
  BY DEF LibraryTyped, LibraryInv, TxInv
<1>2. libraryTx'[c] = t /\ \A d \in Clients : d # c => libraryTx'[d] = libraryTx[d]
  BY <1>1
<1> QED
  BY <1>1, <1>2

LEMMA OtherWithin ==
  ASSUME NEW t, t.op \notin {"create", "apply", "task", "merge", "csv"}
  PROVE  Within(t)
BY DEF Within

LEMMA EndWithin ==
  ASSUME LibraryTyped, NEW c \in Clients, Library!End(c)
  PROVE  /\ \A d \in Clients : Within(libraryTx'[d])
         /\ libraryRequests' \in 0 .. MaxLibraryRequests
<1>1. PICK t : t = Library!Idle
  OBVIOUS
<1>2. Within(t)
  BY <1>1, OtherWithin DEF Library!Idle
<1>3. libraryTx' = [libraryTx EXCEPT ![c] = t] /\ libraryRequests' = libraryRequests
  BY <1>1 DEF Library!End
<1> QED
  BY <1>2, <1>3, TxWithin DEF LibraryTyped

LEMMA RequestsWithin ==
  ASSUME libraryRequests \in 0 .. MaxLibraryRequests, libraryRequests < MaxLibraryRequests,
         libraryRequests' = libraryRequests + 1
  PROVE  libraryRequests' \in 0 .. MaxLibraryRequests
BY BoundsAssumption

LEMMA TablesStay ==
  ASSUME TablesTyped, UNCHANGED <<job, source, requirement, candidate, application, task, run>>
  PROVE  TablesTyped'
BY DEF TablesTyped

(* Reads *)

LEMMA BeginWithin ==
  ASSUME LibraryTyped, NEW c \in Clients, NEW t, Library!Begin(c, t), Within(t)
  PROVE  /\ TablesTyped' /\ libraryRequests' \in 0 .. MaxLibraryRequests
         /\ \A d \in Clients : Within(libraryTx'[d])
<1>1. TablesTyped'
  BY TablesStay DEF LibraryTyped, Library!Begin
<1>2. \A d \in Clients : Within(libraryTx'[d])
  BY TxWithin DEF Library!Begin
<1>3. libraryRequests' \in 0 .. MaxLibraryRequests
  BY RequestsWithin DEF LibraryTyped, Library!Begin
<1> QED
  BY <1>1, <1>2, <1>3

LEMMA ReadStepWithin ==
  ASSUME LibraryTyped, NEW c \in Clients,
         \/ \E content0 \in Contents, imports \in BOOLEAN : Library!CreateRead(c, content0, imports)
         \/ \E rows \in Files, validateOnly \in BOOLEAN : Library!CsvBegin(c, rows, validateOnly)
         \/ \E t, s \in DOMAIN job : Library!MergeRead(c, t, s)
         \/ \E j \in DOMAIN job : Library!ApplyRead(c, j)
         \/ \E analysis0 \in Analyses \cup {None} : Library!SubmitRead(c, analysis0)
         \/ \E a \in {0} \cup DOMAIN application, j \in {0} \cup DOMAIN job :
              Library!TaskRead(c, a, j)
  PROVE  /\ TablesTyped' /\ libraryRequests' \in 0 .. MaxLibraryRequests
         /\ \A d \in Clients : Within(libraryTx'[d])
<1>1. \E t : Within(t) /\ Library!Begin(c, t)
  <2>1. ASSUME NEW content0 \in Contents, NEW imports \in BOOLEAN,
               Library!CreateRead(c, content0, imports)
        PROVE  \E t : Within(t) /\ Library!Begin(c, t)
    <3>1. PICK existing \in IF Library!Exact(content0) = {} THEN {0} ELSE Library!Exact(content0) :
            Library!Begin(c, [op |-> "create", content |-> content0, existing |-> existing,
                              imports |-> imports])
      BY <2>1 DEF Library!CreateRead
    <3>2. existing = 0 \/ IsJob(existing)
      BY <3>1, JobsWithin
    <3>3. PICK t : t = [op |-> "create", content |-> content0, existing |-> existing,
                        imports |-> imports]
      OBVIOUS
    <3>4. t.op = "create" /\ t.existing = existing
      BY <3>3
    <3>5. Within(t)
      BY <3>2, <3>4 DEF Within
    <3> QED
      BY <3>1, <3>3, <3>5
  <2>2. ASSUME NEW rows, NEW validateOnly, Library!CsvBegin(c, rows, validateOnly)
        PROVE  \E t : Within(t) /\ Library!Begin(c, t)
    <3>1. PICK t : t = [op |-> "csv", rows |-> rows, at |-> 1, seen |-> -1,
                        validate |-> validateOnly, inserted |-> << >>, touched |-> << >>,
                        pairs |-> {}, duplicate |-> 0, failed |-> 0]
      OBVIOUS
    <3>2. t.op = "csv" /\ t.seen = -1 /\ t.touched = << >> /\ t.pairs = {}
      BY <3>1
    <3>3. PICK n : n = Len(t.inserted)
      OBVIOUS
    <3>4. DOMAIN t.touched = {}
      BY <3>2
    <3>5. ImportWithin(t, n)
      BY <3>2, <3>4 DEF ImportWithin
    <3>6. Within(t)
      BY <3>2, <3>3, <3>5 DEF Within
    <3> QED
      BY <2>2, <3>1, <3>6 DEF Library!CsvBegin
  <2>3. ASSUME NEW t \in DOMAIN job, NEW s \in DOMAIN job, Library!MergeRead(c, t, s)
        PROVE  \E u : Within(u) /\ Library!Begin(c, u)
    <3>1. PICK a : Library!Begin(c, [op |-> "merge", target |-> t, origin |-> s, application |-> a])
      BY <2>3 DEF Library!MergeRead
    <3>2. PICK u : u = [op |-> "merge", target |-> t, origin |-> s, application |-> a]
      OBVIOUS
    <3>3. u.op = "merge" /\ u.target = t /\ IsJob(t)
      BY <3>2, JobsWithin
    <3>4. Within(u)
      BY <3>3 DEF Within
    <3> QED
      BY <3>1, <3>2, <3>4
  <2>4. ASSUME NEW j, NEW analysis0, j = 0 \/ IsJob(j),
               Library!Begin(c, [op |-> "apply", job |-> j, analysis |-> analysis0])
        PROVE  \E t : Within(t) /\ Library!Begin(c, t)
    <3>1. PICK u : u = [op |-> "apply", job |-> j, analysis |-> analysis0]
      OBVIOUS
    <3>2. u.op = "apply" /\ u.job = j
      BY <3>1
    <3>3. Within(u)
      BY <2>4, <3>2 DEF Within
    <3> QED
      BY <2>4, <3>1, <3>3
  <2>5. ASSUME NEW j \in DOMAIN job, Library!ApplyRead(c, j)
        PROVE  \E t : Within(t) /\ Library!Begin(c, t)
    BY <2>4, <2>5, JobsWithin DEF Library!ApplyRead
  <2>6. ASSUME NEW analysis0, Library!SubmitRead(c, analysis0)
        PROVE  \E t : Within(t) /\ Library!Begin(c, t)
    <3>1. PICK j : j = 0
      OBVIOUS
    <3>2. Library!Begin(c, [op |-> "apply", job |-> j, analysis |-> analysis0])
      BY <2>6, <3>1 DEF Library!SubmitRead
    <3> QED
      BY <2>4, <3>1, <3>2
  <2>7. ASSUME NEW a \in {0} \cup DOMAIN application, NEW j \in {0} \cup DOMAIN job,
               Library!TaskRead(c, a, j)
        PROVE  \E t : Within(t) /\ Library!Begin(c, t)
    <3>1. PICK u : u = [op |-> "task", application |-> a, job |-> j]
      OBVIOUS
    <3>2. u.op = "task" /\ u.job = j /\ u.application = a
      BY <3>1
    <3>3. j = 0 \/ IsJob(j)
      BY JobsWithin
    <3>4. a \in 0 .. MaxApplications
      <4>1. application \in Seq(ApplicationShape) /\ Len(application) <= MaxApplications
        BY DEF LibraryTyped, LibraryInv, ApplicationsInv, TablesTyped
      <4>2. a = 0 \/ a \in 1 .. Len(application)
        BY <4>1
      <4> QED
        BY <4>1, <4>2, BoundsAssumption
    <3>5. Within(u)
      BY <3>2, <3>3, <3>4 DEF Within
    <3> QED
      BY <2>7, <3>1, <3>5 DEF Library!TaskRead
  <2> QED
    BY <2>1, <2>2, <2>3, <2>5, <2>6, <2>7
<1>2. PICK t : Within(t) /\ Library!Begin(c, t)
  BY <1>1
<1> QED
  BY <1>2, BeginWithin

(* Imports, row by row *)

\* A row that leaves what is inserted as it is, or adds to it
LEMMA RowWithin ==
  ASSUME LibraryTyped, NEW c \in Clients, NEW h, libraryTx' = [libraryTx EXCEPT ![c] = h],
         h.op = "csv", NEW n, n = Len(h.inserted), ImportWithin(h, n),
         UNCHANGED <<job, source, requirement, candidate, application, task, run, libraryRequests>>
  PROVE  /\ TablesTyped' /\ libraryRequests' \in 0 .. MaxLibraryRequests
         /\ \A d \in Clients : Within(libraryTx'[d])
<1>1. Within(h)
  BY DEF Within
<1>2. TablesTyped'
  BY TablesStay DEF LibraryTyped
<1> QED
  BY <1>1, <1>2, TxWithin DEF LibraryTyped

LEMMA ImportOf ==
  ASSUME LibraryTyped, NEW c \in Clients, libraryTx[c].op = "csv"
  PROVE  \E t, n : /\ n \in Nat /\ t = libraryTx[c] /\ n = Len(t.inserted)
                    /\ ImportWithin(t, n) /\ CsvLegal(t) /\ DOMAIN t = CsvFields
<1>1. PICK t : t = libraryTx[c]
  OBVIOUS
<1>2. CsvLegal(t) /\ DOMAIN t = CsvFields
  BY <1>1, CsvOf DEF LibraryTyped, LibraryInv
<1>3. PICK n : n = Len(t.inserted)
  OBVIOUS
<1>4. n \in Nat
  BY <1>2, <1>3 DEF CsvLegal
<1>5. Within(t)
  BY <1>1 DEF LibraryTyped
<1>6. ImportWithin(t, n)
  BY <1>1, <1>3, <1>5 DEF Within
<1> QED
  BY <1>1, <1>2, <1>3, <1>4, <1>6

LEMMA CountedRowWithin ==
  ASSUME LibraryTyped, NEW c \in Clients, NEW t, NEW n \in Nat, t = libraryTx[c],
         t.op = "csv", n = Len(t.inserted), ImportWithin(t, n), DOMAIN t = CsvFields,
         NEW failed,
         libraryTx' = [libraryTx EXCEPT ![c] = Library!CsvNext([t EXCEPT !.failed = failed])],
         UNCHANGED <<job, source, requirement, candidate, application, task, run, libraryRequests>>
  PROVE  /\ TablesTyped' /\ libraryRequests' \in 0 .. MaxLibraryRequests
         /\ \A d \in Clients : Within(libraryTx'[d])
<1>1. PICK f : f = [t EXCEPT !.failed = failed]
  OBVIOUS
<1>2. PICK h : h = [[f EXCEPT !.at = f.at + 1] EXCEPT !.seen = -1]
  OBVIOUS
<1>3. /\ DOMAIN f = CsvFields /\ f.op = t.op /\ f.inserted = t.inserted
      /\ f.touched = t.touched /\ f.pairs = t.pairs
  BY <1>1 DEF CsvFields
<1>4. h = Library!CsvNext(f)
  BY <1>2, <1>3 DEF Library!CsvNext, CsvFields
<1>5. /\ h.op = "csv" /\ h.inserted = t.inserted /\ h.touched = t.touched /\ h.pairs = t.pairs
      /\ h.seen = -1
  BY <1>2, <1>3 DEF CsvFields
<1>6. ImportWithin(h, n)
  BY <1>5 DEF ImportWithin
<1> QED
  BY <1>1, <1>4, <1>5, <1>6, RowWithin

LEMMA CsvCheckWithin ==
  ASSUME LibraryTyped, NEW c \in Clients, Library!CsvCheck(c)
  PROVE  /\ TablesTyped' /\ libraryRequests' \in 0 .. MaxLibraryRequests
         /\ \A d \in Clients : Within(libraryTx'[d])
<1>1. libraryTx[c].op = "csv"
  BY DEF Library!CsvCheck
<1>2. PICK t, n : /\ n \in Nat /\ t = libraryTx[c] /\ n = Len(t.inserted)
                  /\ ImportWithin(t, n) /\ CsvLegal(t) /\ DOMAIN t = CsvFields
  BY <1>1, ImportOf
<1>3. PICK failed : failed = t.failed + IF t.rows[t.at] = Library!Refused THEN 1 ELSE 0
  OBVIOUS
<1>4. libraryTx' = [libraryTx EXCEPT ![c] = Library!CsvNext([t EXCEPT !.failed = failed])]
  BY <1>2, <1>3 DEF Library!CsvCheck
<1>5. UNCHANGED <<job, source, requirement, candidate, application, task, run, libraryRequests>>
  BY DEF Library!CsvCheck
<1>6. t.op = "csv"
  BY <1>1, <1>2
<1> QED
  BY <1>2, <1>4, <1>5, <1>6, CountedRowWithin

LEMMA CsvReadWithin ==
  ASSUME LibraryTyped, NEW c \in Clients, Library!CsvRead(c)
  PROVE  /\ TablesTyped' /\ libraryRequests' \in 0 .. MaxLibraryRequests
         /\ \A d \in Clients : Within(libraryTx'[d])
<1>1. libraryTx[c].op = "csv"
  BY DEF Library!CsvRead
<1>2. PICK t, n : /\ n \in Nat /\ t = libraryTx[c] /\ n = Len(t.inserted)
                  /\ ImportWithin(t, n) /\ CsvLegal(t) /\ DOMAIN t = CsvFields
  BY <1>1, ImportOf
<1>3. PICK own : own = {MaxJobs + i : i \in {k \in DOMAIN t.inserted :
                                               Library!SameAs(t.rows[t.at], t.inserted[k])}}
  OBVIOUS
<1>4. PICK found : found = Library!Exact(t.rows[t.at])
  OBVIOUS
<1>5. PICK existing \in IF found \cup own = {} THEN {0} ELSE found \cup own :
        libraryTx' = [libraryTx EXCEPT ![c].seen = existing]
  BY <1>2, <1>3, <1>4 DEF Library!CsvRead
<1>6. DOMAIN t.inserted = 1 .. n
  BY <1>2 DEF CsvLegal
<1>7. ASSUME NEW j \in own
      PROVE  Known(j, n)
  <2>1. PICK i \in 1 .. n : j = MaxJobs + i
    BY <1>3, <1>6
  <2>2. j \in Nat /\ 1 <= j /\ j <= MaxJobs + n
    BY <1>2, <2>1, RecordsAssumption
  <2> QED
    BY <1>2, <2>2, JobsAre
<1>8. ASSUME NEW j \in found
      PROVE  Known(j, n)
  <2>1. IsJob(j)
    BY <1>4, JobsWithin
  <2> QED
    BY <1>2, <2>1, KnownLonger
<1>9. existing \in {-1, 0} \/ Known(existing, n)
  BY <1>5, <1>7, <1>8
<1>10. PICK h : h = [t EXCEPT !.seen = existing]
  OBVIOUS
<1>11. /\ h.op = "csv" /\ h.inserted = t.inserted /\ h.touched = t.touched /\ h.pairs = t.pairs
       /\ h.seen = existing
  BY <1>1, <1>2, <1>10 DEF CsvFields
<1>12. ImportWithin(h, n)
  BY <1>2, <1>9, <1>11 DEF ImportWithin
<1>13. libraryTx' = [libraryTx EXCEPT ![c] = h]
  BY <1>2, <1>5, <1>10
<1> QED
  BY <1>2, <1>11, <1>12, <1>13, RowWithin DEF Library!CsvRead

LEMMA CsvInsertWithin ==
  ASSUME LibraryTyped, NEW c \in Clients, Library!CsvInsert(c)
  PROVE  /\ TablesTyped' /\ libraryRequests' \in 0 .. MaxLibraryRequests
         /\ \A d \in Clients : Within(libraryTx'[d])
<1>1. libraryTx[c].op = "csv"
  BY DEF Library!CsvInsert
<1>2. PICK t, n : /\ n \in Nat /\ t = libraryTx[c] /\ n = Len(t.inserted)
                  /\ ImportWithin(t, n) /\ CsvLegal(t) /\ DOMAIN t = CsvFields
  BY <1>1, ImportOf
<1>3. UNCHANGED <<job, source, requirement, candidate, application, task, run, libraryRequests>>
  BY DEF Library!CsvInsert
<1>4. t.touched \in Seq(Nat) /\ t.inserted \in Seq(Contents) /\ DOMAIN t.inserted = 1 .. n
  BY <1>2 DEF CsvLegal
<1>5. ASSUME NEW f, DOMAIN f = CsvFields, f.op = "csv", NEW m, m = Len(f.inserted),
             \A i \in DOMAIN f.touched : Known(f.touched[i], m),
             \A pair \in f.pairs : PairOf(pair, m),
             libraryTx' = [libraryTx EXCEPT ![c] = Library!CsvNext(f)]
      PROVE  /\ TablesTyped' /\ libraryRequests' \in 0 .. MaxLibraryRequests
             /\ \A d \in Clients : Within(libraryTx'[d])
  <2>1. PICK h : h = [[f EXCEPT !.at = f.at + 1] EXCEPT !.seen = -1]
    OBVIOUS
  <2>2. h = Library!CsvNext(f)
    BY <1>5, <2>1 DEF Library!CsvNext, CsvFields
  <2>3. /\ h.op = "csv" /\ h.inserted = f.inserted /\ h.touched = f.touched
        /\ h.pairs = f.pairs /\ h.seen = -1
    BY <1>5, <2>1 DEF CsvFields
  <2>4. ImportWithin(h, m)
    BY <1>5, <2>3 DEF ImportWithin
  <2> QED
    BY <1>3, <1>5, <2>2, <2>3, <2>4, RowWithin
<1>6. ASSUME NEW s \in Seq(Nat), NEW j \in Nat, NEW m, Known(j, m),
             \A i \in DOMAIN s : Known(s[i], m)
      PROVE  \A i \in DOMAIN Append(s, j) : Known(Append(s, j)[i], m)
  <2>1. /\ DOMAIN Append(s, j) = 1 .. (Len(s) + 1) /\ DOMAIN s = 1 .. Len(s) /\ Len(s) \in Nat
        /\ Append(s, j)[Len(s) + 1] = j /\ \A i \in 1 .. Len(s) : Append(s, j)[i] = s[i]
    BY AppendProperties
  <2>2. \A i \in 1 .. (Len(s) + 1) : i \in 1 .. Len(s) \/ i = Len(s) + 1
    BY <2>1
  <2> QED
    BY <1>6, <2>1, <2>2
<1>7. CASE /\ t.seen # 0
           /\ libraryTx' = [libraryTx EXCEPT ![c] =
                Library!CsvNext([t EXCEPT !.duplicate = @ + 1, !.touched = Append(@, t.seen)])]
  <2>1. PICK f : f = [[t EXCEPT !.duplicate = t.duplicate + 1]
                         EXCEPT !.touched = Append(t.touched, t.seen)]
    OBVIOUS
  <2>2. f = [t EXCEPT !.duplicate = @ + 1, !.touched = Append(@, t.seen)]
    BY <1>2, <2>1 DEF CsvFields
  <2>3. /\ DOMAIN f = CsvFields /\ f.op = t.op /\ f.inserted = t.inserted
        /\ f.touched = Append(t.touched, t.seen) /\ f.pairs = t.pairs
    BY <1>2, <2>1 DEF CsvFields
  <2>4. t.seen # -1
    BY <1>2 DEF Library!CsvInsert
  <2>5. Known(t.seen, n)
    BY <1>2, <1>7, <2>4 DEF ImportWithin
  <2>6. t.seen \in Nat
    BY <1>2, <2>5, JobsAre
  <2>7. \A i \in DOMAIN t.touched : Known(t.touched[i], n)
    BY <1>2 DEF ImportWithin
  <2>8. \A i \in DOMAIN f.touched : Known(f.touched[i], n)
    BY <1>4, <1>6, <2>3, <2>5, <2>6, <2>7
  <2>9. \A pair \in f.pairs : PairOf(pair, n)
    BY <1>2, <2>3 DEF ImportWithin
  <2> QED
    BY <1>1, <1>2, <1>5, <1>7, <2>2, <2>3, <2>8, <2>9
<1>8. ASSUME NEW row, NEW pairs, NEW id, row = t.rows[t.at], id = MaxJobs + Len(t.inserted) + 1,
             \A pair \in pairs : PairOf(pair, n + 1), t.seen = 0,
             libraryTx' = [libraryTx EXCEPT ![c] =
               Library!CsvNext([t EXCEPT !.inserted = Append(@, row),
                                         !.pairs = @ \cup pairs, !.touched = Append(@, id)])]
      PROVE  /\ TablesTyped' /\ libraryRequests' \in 0 .. MaxLibraryRequests
             /\ \A d \in Clients : Within(libraryTx'[d])
  <2>1. PICK all : all = t.pairs \cup pairs
    OBVIOUS
  <2>2. PICK f : f = [[[t EXCEPT !.inserted = Append(t.inserted, row)] EXCEPT !.pairs = all]
                         EXCEPT !.touched = Append(t.touched, id)]
    OBVIOUS
  <2>3. f = [t EXCEPT !.inserted = Append(@, row), !.pairs = @ \cup pairs, !.touched = Append(@, id)]
    BY <1>2, <2>1, <2>2 DEF CsvFields
  <2>4. /\ DOMAIN f = CsvFields /\ f.op = t.op /\ f.inserted = Append(t.inserted, row)
        /\ f.touched = Append(t.touched, id) /\ f.pairs = all
    BY <1>2, <2>2 DEF CsvFields
  <2>5. Len(f.inserted) = n + 1
    <3>1. PICK S : S = Contents \cup {row}
      OBVIOUS
    <3>2. t.inserted \in Seq(S) /\ row \in S
      BY <1>4, <3>1
    <3>3. Len(Append(t.inserted, row)) = Len(t.inserted) + 1
      BY <3>2, AppendProperties
    <3> QED
      BY <1>2, <2>4, <3>3
  <2>6. n + 1 \in Nat /\ id = MaxJobs + n + 1 /\ MaxJobs \in Nat
    BY <1>2, <1>8, RecordsAssumption
  <2>7. id \in Nat /\ Known(id, n + 1)
    <3>1. id \in Nat /\ 1 <= id /\ id <= MaxJobs + (n + 1)
      BY <1>2, <2>6
    <3> QED
      BY <2>6, <3>1, JobsAre
  <2>8. \A i \in DOMAIN t.touched : Known(t.touched[i], n + 1)
    BY <1>2, KnownLonger DEF ImportWithin
  <2>9. \A i \in DOMAIN f.touched : Known(f.touched[i], n + 1)
    BY <1>4, <1>6, <2>4, <2>7, <2>8
  <2>10. \A pair \in t.pairs : PairOf(pair, n + 1)
    BY <1>2, KnownLonger DEF ImportWithin
  <2>11. \A pair \in f.pairs : PairOf(pair, n + 1)
    BY <1>8, <2>1, <2>4, <2>10
  <2>12. PICK m : m = Len(f.inserted)
    OBVIOUS
  <2>13. m = n + 1
    BY <2>5, <2>12
  <2> QED
    BY <1>1, <1>2, <1>5, <1>8, <2>3, <2>4, <2>9, <2>11, <2>12, <2>13
<1>9. CASE libraryTx' = [libraryTx EXCEPT ![c] = Library!RowFails(t)]
  <2>1. PICK failed : failed = t.failed + 1
    OBVIOUS
  <2>2. libraryTx' = [libraryTx EXCEPT ![c] = Library!CsvNext([t EXCEPT !.failed = failed])]
    BY <1>9, <2>1 DEF Library!RowFails
  <2> QED
    BY <1>1, <1>2, <1>3, <2>2, CountedRowWithin
<1>10. ASSUME NEW row, NEW id, NEW own, NEW near, NEW pairs, row = t.rows[t.at],
              id = MaxJobs + Len(t.inserted) + 1,
              near = Library!Near(row.text),
              own = {MaxJobs + i : i \in {k \in DOMAIN t.inserted :
                                            {t.inserted[k].text, row.text} \in NearTexts}},
              pairs \in Library!Pairs(id, near \cup own)
       PROVE  \A pair \in pairs : PairOf(pair, n + 1)
  <2>1. n + 1 \in Nat /\ id = MaxJobs + n + 1 /\ MaxJobs \in Nat
    BY <1>2, <1>10, RecordsAssumption
  <2>2. Known(id, n + 1)
    <3>1. id \in Nat /\ 1 <= id /\ id <= MaxJobs + (n + 1)
      BY <1>2, <2>1
    <3> QED
      BY <2>1, <3>1, JobsAre
  <2>3. \A j \in near : Known(j, n + 1)
    BY <1>10, <2>1, JobsWithin, KnownLonger
  <2>4. ASSUME NEW j \in own
        PROVE  Known(j, n + 1)
    <3>1. PICK i \in 1 .. n : j = MaxJobs + i
      BY <1>4, <1>10
    <3>2. j \in Nat /\ 1 <= j /\ j <= MaxJobs + (n + 1)
      BY <1>2, <2>1, <3>1
    <3> QED
      BY <2>1, <3>2, JobsAre
  <2>5. \A pair \in pairs : \E k \in near \cup own : pair = {id, k}
    BY <1>10 DEF Library!Pairs
  <2> QED
    BY <2>2, <2>3, <2>4, <2>5 DEF PairOf
<1>11. CASE /\ t.seen = 0
            /\ LET row == t.rows[t.at]
                   id == MaxJobs + Len(t.inserted) + 1
                   own == {MaxJobs + i : i \in {k \in DOMAIN t.inserted :
                                                  {t.inserted[k].text, row.text} \in NearTexts}}
               IN \E pairs \in Library!Pairs(id, Library!Near(row.text) \cup own) :
                    libraryTx' = [libraryTx EXCEPT ![c] =
                      Library!CsvNext([t EXCEPT !.inserted = Append(@, row),
                                        !.pairs = @ \cup pairs, !.touched = Append(@, id)])]
  <2>1. PICK row : row = t.rows[t.at]
    OBVIOUS
  <2>2. PICK id : id = MaxJobs + Len(t.inserted) + 1
    OBVIOUS
  <2>3. PICK own : own = {MaxJobs + i : i \in {k \in DOMAIN t.inserted :
                                                 {t.inserted[k].text, row.text} \in NearTexts}}
    OBVIOUS
  <2>4. PICK near : near = Library!Near(row.text)
    OBVIOUS
  <2>5. PICK pairs \in Library!Pairs(id, near \cup own) :
          libraryTx' = [libraryTx EXCEPT ![c] =
            Library!CsvNext([t EXCEPT !.inserted = Append(@, row),
                                      !.pairs = @ \cup pairs, !.touched = Append(@, id)])]
    BY <1>11, <2>1, <2>2, <2>3, <2>4
  <2>6. \A pair \in pairs : PairOf(pair, n + 1)
    BY <1>10, <2>1, <2>2, <2>3, <2>4, <2>5
  <2> QED
    BY <1>8, <1>11, <2>1, <2>2, <2>5, <2>6
<1>12. \/ /\ t.seen # 0
          /\ libraryTx' = [libraryTx EXCEPT ![c] =
               Library!CsvNext([t EXCEPT !.duplicate = @ + 1, !.touched = Append(@, t.seen)])]
       \/ /\ t.seen = 0
          /\ LET row == t.rows[t.at]
                 id == MaxJobs + Len(t.inserted) + 1
                 own == {MaxJobs + i : i \in {k \in DOMAIN t.inserted :
                                                {t.inserted[k].text, row.text} \in NearTexts}}
             IN \E pairs \in Library!Pairs(id, Library!Near(row.text) \cup own) :
                  libraryTx' = [libraryTx EXCEPT ![c] =
                    Library!CsvNext([t EXCEPT !.inserted = Append(@, row),
                                      !.pairs = @ \cup pairs, !.touched = Append(@, id)])]
       \/ libraryTx' = [libraryTx EXCEPT ![c] = Library!RowFails(t)]
  BY <1>2, ZenonT(60) DEF Library!CsvInsert
<1> QED
  BY <1>7, <1>9, <1>11, <1>12

(* Commits *)

LEMMA SourceAdded ==
  ASSUME NEW rows \in Seq(SourceShape), SourcesOfJobs(rows), NEW row, IsJob(row.job)
  PROVE  SourcesOfJobs(Append(rows, row))
<1>1. PICK S : S = SourceShape \cup {row}
  OBVIOUS
<1>2. rows \in Seq(S) /\ row \in S
  BY <1>1
<1>3. PICK new : new = Append(rows, row)
  OBVIOUS
<1>4. /\ DOMAIN new = 1 .. (Len(rows) + 1) /\ DOMAIN rows = 1 .. Len(rows) /\ Len(rows) \in Nat
      /\ new[Len(rows) + 1] = row /\ \A i \in 1 .. Len(rows) : new[i] = rows[i]
  BY <1>2, <1>3, AppendProperties
<1>5. \A i \in 1 .. (Len(rows) + 1) : i \in 1 .. Len(rows) \/ i = Len(rows) + 1
  BY <1>4
<1> QED
  BY <1>3, <1>4, <1>5 DEF SourcesOfJobs

LEMMA RequirementsAdded ==
  ASSUME TablesTyped, NEW m \in Nat, NEW f \in [1 .. m -> 0 .. MaxJobs]
  PROVE  requirement \o f \in Seq(0 .. MaxJobs)
<1>1. PICK S : S = 0 .. MaxJobs
  OBVIOUS
<1>2. requirement \in Seq(S) /\ f \in [1 .. m -> S]
  BY <1>1 DEF TablesTyped
<1> QED
  BY <1>1, <1>2, Joined

LEMMA PairsRecorded ==
  ASSUME CandidatePairs(candidate), NEW pairs, Library!Record(pairs),
         \A pair \in pairs : PairOf(pair, 0)
  PROVE  CandidatePairs(candidate')
<1>1. candidate' = [pair \in pairs \cup DOMAIN candidate |->
                      IF pair \in pairs THEN "pending" ELSE candidate[pair]]
  BY DEF Library!Record
<1>2. "pending" \in Library!CandidateStatus
  BY DEF Library!CandidateStatus
<1> QED
  BY <1>1, <1>2 DEF CandidatePairs

LEMMA JobNumber ==
  ASSUME NEW j
  PROVE  /\ IsJob(j) <=> Known(j, 0)
         /\ IsJob(j) => j \in 0 .. MaxJobs
<1>1. PICK n \in Nat : n = 0
  OBVIOUS
<1>2. MaxJobs + n = MaxJobs
  BY <1>1, RecordsAssumption
<1>3. IsJob(j) <=> Known(j, n)
  BY <1>2, JobsAre
<1>4. IsJob(j) => j \in 0 .. MaxJobs
  BY JobsAre, RecordsAssumption
<1> QED
  BY <1>1, <1>3, <1>4

LEMMA RunRoom ==
  ASSUME TablesTyped, LibraryInv, Len(run) < MaxRows, NEW row,
         run' = Append(run, row) \/ run' = run
  PROVE  Len(run') <= MaxRows
<1>1. run \in Seq(Library!RunRow)
  BY DEF LibraryInv, RunsInv
<1>2. PICK S : S = Library!RunRow \cup {row}
  OBVIOUS
<1>3. run \in Seq(S) /\ row \in S
  BY <1>1, <1>2
<1>4. CASE run' = Append(run, row)
  <2>1. Len(run') = Len(run) + 1 /\ Len(run) \in Nat
    BY <1>3, <1>4, AppendProperties
  <2> QED
    BY <2>1, BoundsAssumption
<1>5. CASE run' = run
  BY <1>5 DEF TablesTyped
<1> QED
  BY <1>4, <1>5

LEMMA CreateWithin ==
  ASSUME LibraryTyped, NEW c \in Clients, Library!CreateCommit(c)
  PROVE  TablesTyped'
<1>1. PICK t : t = libraryTx[c]
  OBVIOUS
<1>2. PICK id : id = IF t.existing = 0 THEN Len(job) + 1 ELSE t.existing
  OBVIOUS
<1>3. /\ LibraryInv /\ TablesTyped /\ job \in Seq(Library!JobRow) /\ source \in Seq(SourceShape)
      /\ Within(t)
  BY <1>1 DEF LibraryTyped, LibraryInv, TxInv, RunsInv
<1>4. t.op = "create" /\ UNCHANGED <<application, task>> /\ Len(run) < MaxRows
  BY <1>1 DEF Library!CreateCommit
<1>5. \/ /\ t.existing = 0 /\ Len(job) < MaxJobs
         /\ job' = Append(job, [text |-> t.content.text, url |-> t.content.url, archived |-> FALSE])
         /\ requirement' = requirement \o [i \in 1 .. Library!Found(t.content.text) |-> id]
         /\ \E pairs \in Library!Pairs(id, Library!Near(t.content.text)) : Library!Record(pairs)
      \/ t.existing # 0 /\ UNCHANGED <<job, requirement, candidate>>
  BY <1>1, <1>2, Zenon DEF Library!CreateCommit
<1>6. Len(job) \in Nat /\ Len(job) <= MaxJobs
  BY <1>3 DEF TablesTyped
<1>7. IsJob(id)
  <2>1. CASE t.existing = 0
    <3>1. id = Len(job) + 1 /\ Len(job) < MaxJobs
      BY <1>2, <1>5, <2>1
    <3>2. id \in Nat /\ 1 <= id /\ id <= MaxJobs
      BY <1>6, <3>1, RecordsAssumption
    <3> QED
      BY <3>2, JobsAre
  <2>2. CASE t.existing # 0
    BY <1>2, <1>3, <1>4, <2>2 DEF Within
  <2> QED
    BY <2>1, <2>2
<1>8. SourcesOfJobs(source')
  <2>1. PICK row : row = [job |-> id, run |-> IF t.imports THEN Len(run) + 1 ELSE 0]
    OBVIOUS
  <2>2. source' = Append(source, row)
    BY <1>1, <1>2, <2>1 DEF Library!CreateCommit
  <2>3. IsJob(row.job)
    BY <1>7, <2>1
  <2>4. SourcesOfJobs(source)
    BY <1>3 DEF TablesTyped
  <2> QED
    BY <1>3, <2>2, <2>3, <2>4, SourceAdded
<1>9. Len(run') <= MaxRows
  <2>1. PICK row : row = Library!OneRowRun(t.existing = 0)
    OBVIOUS
  <2>2. run' = Append(run, row) \/ run' = run
    BY <1>1, <2>1 DEF Library!CreateCommit
  <2> QED
    BY <1>3, <1>4, <2>2, RunRoom
<1>10. Len(job') <= MaxJobs
  <2>1. CASE t.existing = 0
    <3>1. PICK row : row = [text |-> t.content.text, url |-> t.content.url, archived |-> FALSE]
      OBVIOUS
    <3>2. job' = Append(job, row) /\ Len(job) < MaxJobs
      BY <1>5, <2>1, <3>1
    <3>3. PICK S : S = Library!JobRow \cup {row}
      OBVIOUS
    <3>4. job \in Seq(S) /\ row \in S
      BY <1>3, <3>3
    <3>5. Len(job') = Len(job) + 1
      BY <3>2, <3>4, AppendProperties
    <3> QED
      BY <1>6, <3>2, <3>5, RecordsAssumption
  <2> QED
    BY <1>5, <1>6, <2>1
<1>11. requirement' \in Seq(0 .. MaxJobs)
  <2>1. CASE t.existing = 0
    <3>1. PICK m \in Nat : m = Library!Found(t.content.text)
      BY DEF Library!Found
    <3>2. PICK f : f = [i \in 1 .. m |-> id]
      OBVIOUS
    <3>3. f \in [1 .. m -> 0 .. MaxJobs]
      BY <1>7, <3>2, JobNumber
    <3>4. requirement' = requirement \o f
      BY <1>5, <2>1, <3>1, <3>2
    <3> QED
      BY <1>3, <3>3, <3>4, RequirementsAdded
  <2> QED
    BY <1>3, <1>5, <2>1 DEF TablesTyped
<1>12. CandidatePairs(candidate')
  <2>1. CASE t.existing = 0
    <3>1. PICK near : near = Library!Near(t.content.text)
      OBVIOUS
    <3>2. PICK pairs \in Library!Pairs(id, near) : Library!Record(pairs)
      BY <1>5, <2>1, <3>1
    <3>3. \A pair \in pairs : \E k \in near : pair = {id, k}
      BY <3>2 DEF Library!Pairs
    <3>4. \A k \in near : IsJob(k)
      BY <3>1, JobsWithin
    <3>5. \A k \in near : Known(k, 0)
      BY <3>4, JobNumber
    <3>6. Known(id, 0)
      BY <1>7, JobNumber
    <3>7. \A pair \in pairs : PairOf(pair, 0)
      BY <3>3, <3>5, <3>6 DEF PairOf
    <3> QED
      BY <1>3, <3>2, <3>7, PairsRecorded DEF TablesTyped
  <2> QED
    BY <1>3, <1>5, <2>1 DEF TablesTyped
<1> QED
  BY <1>3, <1>4, <1>8, <1>9, <1>10, <1>11, <1>12 DEF TablesTyped

\* The number a Job of an import gets when it is committed
Placed(j) == IF j > MaxJobs THEN Len(job) + j - MaxJobs ELSE j

LEMMA PlacedAreJobs ==
  ASSUME NEW n \in Nat, NEW k \in Nat, k = Len(job), k + n <= MaxJobs, NEW j, Known(j, n)
  PROVE  IsJob(Placed(j))
<1>1. j \in Nat /\ 1 <= j /\ j <= MaxJobs + n /\ MaxJobs \in Nat
  BY JobsAre, RecordsAssumption
<1>2. PICK p : p = Placed(j)
  OBVIOUS
<1>3. p = IF j > MaxJobs THEN k + j - MaxJobs ELSE j
  BY <1>2 DEF Placed
<1>4. CASE j > MaxJobs
  <2>1. p = k + j - MaxJobs
    BY <1>3, <1>4
  <2>2. p \in Nat /\ 1 <= p /\ p <= MaxJobs
    BY <1>1, <1>4, <2>1
  <2> QED
    BY <1>2, <2>2, JobsAre
<1>5. CASE ~(j > MaxJobs)
  BY <1>1, <1>2, <1>3, <1>5, JobsAre
<1> QED
  BY <1>4, <1>5

LEMMA CsvCommitWithin ==
  ASSUME LibraryTyped, NEW c \in Clients, Library!CsvCommit(c)
  PROVE  TablesTyped'
<1>1. libraryTx[c].op = "csv"
  BY DEF Library!CsvCommit
<1>2. PICK t, n : /\ n \in Nat /\ t = libraryTx[c] /\ n = Len(t.inserted)
                  /\ ImportWithin(t, n) /\ CsvLegal(t) /\ DOMAIN t = CsvFields
  BY <1>1, ImportOf
<1>3. /\ LibraryInv /\ TablesTyped /\ job \in Seq(Library!JobRow) /\ source \in Seq(SourceShape)
  BY DEF LibraryTyped, LibraryInv, TxInv, RunsInv
<1>4. /\ UNCHANGED <<application, task>> /\ Len(run) < MaxRows
      /\ Len(job) + Len(t.inserted) <= MaxJobs
  BY <1>2 DEF Library!CsvCommit
<1>5. PICK k \in Nat : k = Len(job)
  BY <1>3
<1>6. k + n <= MaxJobs
  BY <1>2, <1>4, <1>5
<1>7. \A j : Known(j, n) => IsJob(Placed(j))
  BY <1>2, <1>5, <1>6, PlacedAreJobs
<1>8. PICK inserted \in Seq(Contents) : inserted = t.inserted
  BY <1>2 DEF CsvLegal
<1>9. PICK touched \in Seq(Nat) : touched = t.touched
  BY <1>2 DEF CsvLegal
<1>10. PICK m \in Nat : m = Len(touched)
  OBVIOUS
<1>11. DOMAIN inserted = 1 .. n /\ DOMAIN touched = 1 .. m /\ n = Len(inserted)
  BY <1>2, <1>8, <1>9, <1>10
<1>12. Len(job') <= MaxJobs
  <2>1. PICK new : new = [i \in 1 .. n |-> [text |-> inserted[i].text, url |-> inserted[i].url,
                                            archived |-> FALSE]]
    OBVIOUS
  <2>2. job' = job \o new
    BY <1>2, <1>8, <1>11, <2>1 DEF Library!CsvCommit
  <2>3. \A i \in 1 .. n : inserted[i] \in Contents
    BY <1>8, <1>11
  <2>4. new \in [1 .. n -> Library!JobRow]
    BY <2>1, <2>3 DEF Library!JobRow, Library!Texts, Library!Urls
  <2>5. PICK S : S = Library!JobRow
    OBVIOUS
  <2>6. job \in Seq(S) /\ new \in [1 .. n -> S] /\ n \in Nat
    BY <1>2, <1>3, <2>4, <2>5
  <2>7. Len(job \o new) = Len(job) + n
    BY <2>6, Joined
  <2> QED
    BY <1>5, <1>6, <2>2, <2>7
<1>13. SourcesOfJobs(source')
  <2>1. PICK r \in Nat : r = Len(run) + 1
    BY <1>3 DEF LibraryInv, RunsInv
  <2>2. PICK new : new = [i \in 1 .. m |-> [job |-> Placed(touched[i]), run |-> r]]
    OBVIOUS
  <2>3. source' = source \o new
    <3>1. source' = source \o [i \in DOMAIN touched |->
                                 [job |-> IF touched[i] > MaxJobs THEN Len(job) + touched[i] - MaxJobs
                                          ELSE touched[i], run |-> Len(run) + 1]]
      BY <1>2, <1>9 DEF Library!CsvCommit
    <3> QED
      BY <1>11, <2>1, <2>2, <3>1 DEF Placed
  <2>4. \A i \in 1 .. m : IsJob(Placed(touched[i]))
    BY <1>2, <1>7, <1>9, <1>11 DEF ImportWithin
  <2>5. ASSUME NEW i \in 1 .. m
        PROVE  new[i] \in SourceShape /\ IsJob(new[i].job)
    <3>1. PICK p : p = Placed(touched[i])
      OBVIOUS
    <3>2. IsJob(p)
      BY <2>4, <3>1
    <3>3. new[i] = [job |-> p, run |-> r] /\ p \in Nat
      BY <2>2, <3>1, <3>2, JobsAre
    <3> QED
      BY <2>1, <3>2, <3>3 DEF SourceShape
  <2>6. new \in [1 .. m -> SourceShape]
    BY <2>2, <2>5
  <2>7. PICK o \in Nat : o = Len(source)
    BY <1>3
  <2>8. /\ DOMAIN source' = 1 .. (o + m) /\ DOMAIN source = 1 .. o
        /\ \A i \in 1 .. o : source'[i] = source[i]
        /\ \A i \in (o + 1) .. (o + m) : i - o \in 1 .. m /\ source'[i] = new[i - o]
    BY <1>3, <2>3, <2>6, <2>7, Joined
  <2>9. ASSUME NEW i \in 1 .. (o + m)
        PROVE  IsJob(source'[i].job)
    <3>1. CASE i \in 1 .. o
      BY <1>3, <2>8, <3>1 DEF TablesTyped, SourcesOfJobs
    <3>2. CASE i \in (o + 1) .. (o + m)
      BY <2>5, <2>8, <3>2
    <3> QED
      BY <3>1, <3>2
  <2> QED
    BY <2>8, <2>9 DEF SourcesOfJobs
<1>14. requirement' \in Seq(0 .. MaxJobs)
  <2>1. PICK found : found = {Len(job) + i : i \in {h \in DOMAIN t.inserted :
                                                      t.inserted[h].text \in Requiring}}
    OBVIOUS
  <2>2. \E ids \in [1 .. Library!Cardinality(found) -> found] : requirement' = requirement \o ids
    BY <1>2, <2>1 DEF Library!CsvCommit
  <2>3. PICK ids \in [1 .. Cardinality(found) -> found] : requirement' = requirement \o ids
    BY <2>2, LibraryCounts
  <2>4. found \subseteq (k + 1) .. (k + n)
    <3>1. \A j \in found : \E i \in 1 .. n : j = k + i
      BY <1>5, <1>8, <1>11, <2>1
    <3> QED
      BY <1>2, <3>1
  <2>5. Cardinality(found) \in Nat
    <3>1. IsFiniteSet((k + 1) .. (k + n))
      <4>1. PICK a \in Int, b \in Int : a = k + 1 /\ b = k + n
        BY <1>2
      <4>2. IsFiniteSet(a .. b)
        BY FS_Interval
      <4> QED
        BY <4>1, <4>2
    <3> QED
      BY <2>4, <3>1, FS_Subset, FS_CardinalityType
  <2>6. PICK q \in Nat : q = Cardinality(found)
    BY <2>5
  <2>7. found \subseteq 0 .. MaxJobs
    BY <1>2, <1>6, <2>4, RecordsAssumption
  <2>8. ids \in [1 .. q -> 0 .. MaxJobs]
    BY <2>3, <2>6, <2>7
  <2> QED
    BY <1>3, <2>3, <2>8, RequirementsAdded
<1>15. CandidatePairs(candidate')
  <2>1. PICK pairs : pairs = {{Placed(j) : j \in pair} : pair \in t.pairs}
    OBVIOUS
  <2>2. Library!Record(pairs)
    BY <1>2, <2>1 DEF Library!CsvCommit, Placed
  <2>3. ASSUME NEW placed \in pairs
        PROVE  PairOf(placed, 0)
    <3>1. PICK pair \in t.pairs : placed = {Placed(j) : j \in pair}
      BY <2>1
    <3>2. PairOf(pair, n)
      BY <1>2 DEF ImportWithin
    <3>3. PICK i, j : Known(i, n) /\ Known(j, n) /\ pair = {i, j}
      BY <3>2 DEF PairOf
    <3>4. placed = {Placed(i), Placed(j)}
      BY <3>1, <3>3
    <3>5. Known(Placed(i), 0) /\ Known(Placed(j), 0)
      BY <1>7, <3>3, JobNumber
    <3> QED
      BY <3>4, <3>5 DEF PairOf
  <2> QED
    BY <1>3, <2>2, <2>3, PairsRecorded DEF TablesTyped
<1>16. Len(run') <= MaxRows
  <2>1. \E row : run' = Append(run, row)
    BY <1>2 DEF Library!CsvCommit
  <2> QED
    BY <1>3, <1>4, <2>1, RunRoom
<1> QED
  BY <1>3, <1>4, <1>12, <1>13, <1>14, <1>15, <1>16 DEF TablesTyped

\* Rows of one Job become rows of another.
LEMMA MovedSources ==
  ASSUME NEW rows, SourcesOfJobs(rows), rows \in Seq(SourceShape), NEW s, NEW t, IsJob(t)
  PROVE  SourcesOfJobs(Library!Moved(rows, s, t))
<1>1. PICK new : new = Library!Moved(rows, s, t)
  OBVIOUS
<1>2. DOMAIN new = DOMAIN rows
  BY <1>1 DEF Library!Moved
<1>3. ASSUME NEW i \in DOMAIN rows
      PROVE  IsJob(new[i].job)
  <2>1. PICK o : o = rows[i]
    OBVIOUS
  <2>2. o \in SourceShape /\ IsJob(o.job)
    BY <2>1 DEF SourcesOfJobs
  <2>3. PICK r : r = [o EXCEPT !.job = t]
    OBVIOUS
  <2>4. r.job = t
    BY <2>2, <2>3 DEF SourceShape
  <2>5. new[i] = IF o.job = s THEN r ELSE o
    BY <1>1, <2>1, <2>3 DEF Library!Moved
  <2> QED
    BY <2>2, <2>4, <2>5
<1> QED
  BY <1>1, <1>2, <1>3 DEF SourcesOfJobs

LEMMA MovedTasks ==
  ASSUME NEW rows \in Seq(Library!TaskRow), NEW s, NEW t, IsJob(t)
  PROVE  Library!Moved(rows, s, t) \in Seq(Library!TaskRow)
<1>1. PICK n \in Nat : n = Len(rows)
  OBVIOUS
<1>2. DOMAIN rows = 1 .. n /\ \A i \in 1 .. n : rows[i] \in Library!TaskRow
  BY <1>1, ElementsOf
<1>3. PICK new : new = [i \in 1 .. n |-> IF rows[i].job = s THEN [rows[i] EXCEPT !.job = t]
                                         ELSE rows[i]]
  OBVIOUS
<1>4. new = Library!Moved(rows, s, t)
  BY <1>2, <1>3 DEF Library!Moved
<1>5. ASSUME NEW i \in 1 .. n
      PROVE  new[i] \in Library!TaskRow
  <2>1. PICK o : o = rows[i]
    OBVIOUS
  <2>2. PICK r : r = [o EXCEPT !.job = t]
    OBVIOUS
  <2>3. o \in Library!TaskRow /\ t \in 0 .. MaxJobs
    BY <1>2, <2>1, JobNumber
  <2>4. r \in Library!TaskRow
    BY <2>2, <2>3 DEF Library!TaskRow
  <2>5. new[i] = IF o.job = s THEN r ELSE o
    BY <1>3, <2>1, <2>2
  <2> QED
    BY <2>3, <2>4, <2>5
<1>6. new \in [1 .. n -> Library!TaskRow]
  BY <1>3, <1>5
<1> QED
  BY <1>4, <1>6

LEMMA MergeWithin ==
  ASSUME LibraryTyped, NEW c \in Clients, NEW content0 \in Contents, NEW first \in BOOLEAN,
         Library!MergeCommit(c, content0, first)
  PROVE  TablesTyped'
<1>1. PICK x : x = libraryTx[c]
  OBVIOUS
<1>2. PICK t : t = x.target
  OBVIOUS
<1>3. PICK s : s = x.origin
  OBVIOUS
<1>4. PICK a : a = x.application
  OBVIOUS
<1>5. /\ x.op = "merge" /\ UNCHANGED <<candidate, run>>
      /\ job' = [job EXCEPT ![t].text = content0.text, ![t].url = content0.url,
                            ![s].archived = TRUE]
      /\ source' = Library!Moved(source, s, t)
      /\ requirement' = [r \in DOMAIN requirement |->
                           IF requirement[r] = s THEN t ELSE requirement[r]]
      /\ task' = Library!Moved(task, s, t)
      /\ application' = application \/ application' = [application EXCEPT ![a].job = t]
  BY <1>1, <1>2, <1>3, <1>4 DEF Library!MergeCommit
<1>6. /\ LibraryInv /\ TablesTyped /\ job \in Seq(Library!JobRow) /\ source \in Seq(SourceShape)
      /\ application \in Seq(ApplicationShape) /\ task \in Seq(Library!TaskRow) /\ Within(x)
      /\ requirement \in Seq(0 .. MaxJobs)
  BY <1>1 DEF LibraryTyped, LibraryInv, TxInv, RunsInv, ApplicationsInv, TablesTyped
<1>7. IsJob(t)
  BY <1>2, <1>5, <1>6 DEF Within
<1>8. Len(job') <= MaxJobs
  <2>1. DOMAIN job' = DOMAIN job
    BY <1>5
  <2>2. LibraryInv'
    BY <1>6, MergeKeepsLibrary
  <2>3. job' \in Seq(Library!JobRow)
    BY <2>2 DEF LibraryInv, TxInv
  <2>4. Len(job') = Len(job)
    BY <1>6, <2>1, <2>3
  <2> QED
    BY <1>6, <2>4 DEF TablesTyped
<1>9. SourcesOfJobs(source')
  BY <1>5, <1>6, <1>7, MovedSources DEF TablesTyped
<1>10. task' \in Seq(Library!TaskRow)
  BY <1>5, <1>6, <1>7, MovedTasks
<1>11. requirement' \in Seq(0 .. MaxJobs)
  <2>1. PICK S : S = 0 .. MaxJobs
    OBVIOUS
  <2>2. PICK n \in Nat : n = Len(requirement)
    BY <1>6
  <2>3. requirement \in Seq(S)
    BY <1>6, <2>1
  <2>4. DOMAIN requirement = 1 .. n /\ \A i \in 1 .. n : requirement[i] \in S
    BY <2>2, <2>3, ElementsOf
  <2>5. t \in S
    BY <1>7, <2>1, JobNumber
  <2>6. requirement' \in [1 .. n -> S]
    BY <1>5, <2>4, <2>5
  <2>7. requirement' \in Seq(S)
    BY <2>6
  <2> QED
    BY <2>1, <2>7
<1>12. Len(application') <= MaxApplications /\ OfJobs(application')
  <2>1. Len(application) <= MaxApplications /\ OfJobs(application)
    BY <1>6 DEF TablesTyped
  <2>2. CASE application' = application
    BY <2>1, <2>2
  <2>3. CASE application' = [application EXCEPT ![a].job = t]
    <3>1. PICK o : o = application[a]
      OBVIOUS
    <3>2. PICK r : r = [o EXCEPT !.job = t]
      OBVIOUS
    <3>3. application' = [application EXCEPT ![a] = r]
      BY <2>3, <3>1, <3>2
    <3>4. DOMAIN application' = DOMAIN application /\ Len(application') = Len(application)
      BY <1>6, <3>3
    <3>5. a \in DOMAIN application => r.job = t
      <4>1. a \in DOMAIN application => o \in ApplicationShape
        BY <1>6, <3>1
      <4> QED
        BY <3>2, <4>1 DEF ApplicationShape
    <3>6. \A i \in DOMAIN application : application'[i].job = 0 \/ IsJob(application'[i].job)
      BY <1>7, <2>1, <3>3, <3>5 DEF OfJobs
    <3> QED
      BY <2>1, <3>4, <3>6 DEF OfJobs
  <2> QED
    BY <1>5, <2>2, <2>3
<1> QED
  BY <1>5, <1>6, <1>8, <1>9, <1>10, <1>11, <1>12 DEF TablesTyped

LEMMA ApplyWithin ==
  ASSUME LibraryTyped, NEW c \in Clients, Library!ApplyCommit(c)
  PROVE  TablesTyped'
<1>1. PICK t : t = libraryTx[c]
  OBVIOUS
<1>2. PICK row : row = [job |-> t.job, archived |-> FALSE, deleted |-> FALSE,
                        analysis |-> t.analysis]
  OBVIOUS
<1>3. /\ t.op = "apply" /\ Len(application) < MaxApplications
      /\ application' = Append(application, row)
      /\ UNCHANGED <<job, source, requirement, candidate, task, run>>
  BY <1>1, <1>2 DEF Library!ApplyCommit
<1>4. /\ TablesTyped /\ application \in Seq(ApplicationShape) /\ Within(t)
      /\ Len(application) <= MaxApplications /\ OfJobs(application)
  BY <1>1 DEF LibraryTyped, LibraryInv, ApplicationsInv, TablesTyped
<1>5. row.job = 0 \/ IsJob(row.job)
  <2>1. row.job = t.job
    BY <1>2
  <2> QED
    BY <1>3, <1>4, <2>1 DEF Within
<1>6. PICK S : S = ApplicationShape \cup {row}
  OBVIOUS
<1>7. application \in Seq(S) /\ row \in S
  BY <1>4, <1>6
<1>8. /\ DOMAIN application' = 1 .. (Len(application) + 1) /\ Len(application) \in Nat
      /\ DOMAIN application = 1 .. Len(application) /\ Len(application') = Len(application) + 1
      /\ application'[Len(application) + 1] = row
      /\ \A i \in 1 .. Len(application) : application'[i] = application[i]
  BY <1>3, <1>7, AppendProperties
<1>9. Len(application') <= MaxApplications
  BY <1>3, <1>8, BoundsAssumption
<1>10. \A i \in 1 .. (Len(application) + 1) : i \in 1 .. Len(application) \/ i = Len(application) + 1
  BY <1>8
<1>11. OfJobs(application')
  BY <1>4, <1>5, <1>8, <1>10 DEF OfJobs
<1> QED
  BY <1>3, <1>4, <1>9, <1>11 DEF TablesTyped

LEMMA TaskWithin ==
  ASSUME LibraryTyped, NEW c \in Clients, Library!TaskCommit(c)
  PROVE  TablesTyped'
<1>1. PICK t : t = libraryTx[c]
  OBVIOUS
<1>2. PICK row : row = [application |-> t.application, job |-> t.job, archived |-> FALSE]
  OBVIOUS
<1>3. /\ t.op = "task" /\ task' = Append(task, row)
      /\ UNCHANGED <<job, source, requirement, candidate, application, run>>
  BY <1>1, <1>2 DEF Library!TaskCommit
<1>4. TablesTyped /\ task \in Seq(Library!TaskRow) /\ Within(t)
  BY <1>1 DEF LibraryTyped, TablesTyped
<1>5. PICK j : j = t.job
  OBVIOUS
<1>6. PICK a : a = t.application
  OBVIOUS
<1>7. j = 0 \/ IsJob(j)
  BY <1>3, <1>4, <1>5 DEF Within
<1>8. a \in 0 .. MaxApplications
  BY <1>3, <1>4, <1>6 DEF Within
<1>9. j \in 0 .. MaxJobs
  BY <1>7, JobNumber, RecordsAssumption
<1>10. row \in Library!TaskRow
  BY <1>2, <1>5, <1>6, <1>8, <1>9 DEF Library!TaskRow
<1>11. task' \in Seq(Library!TaskRow)
  BY <1>3, <1>4, <1>10, AppendProperties
<1> QED
  BY <1>3, <1>4, <1>11 DEF TablesTyped

(* Rows that are locked and changed *)

LEMMA JobStepWithin ==
  ASSUME LibraryTyped, NEW j, NEW content0 \in Contents, j \in DOMAIN job,
         Library!UpdateJob(j, content0) \/ Library!ArchiveJob(j) \/ Library!RestoreJob(j)
  PROVE  TablesTyped' /\ Library!Request
<1>1. TablesTyped /\ job \in Seq(Library!JobRow) /\ LibraryInv
  BY DEF LibraryTyped, LibraryInv, TxInv
<1>2. DOMAIN job' = DOMAIN job /\ UNCHANGED <<source, requirement, candidate, application, task, run>>
  BY DEF Library!UpdateJob, Library!ArchiveJob, Library!RestoreJob
<1>3. LibraryInv'
  BY <1>1, JobStepKeepsLibrary
<1>4. job' \in Seq(Library!JobRow)
  BY <1>3 DEF LibraryInv, TxInv
<1>5. Len(job') = Len(job)
  BY <1>1, <1>2, <1>4
<1> QED
  BY <1>1, <1>2, <1>5 DEF TablesTyped, Library!UpdateJob, Library!ArchiveJob, Library!RestoreJob

LEMMA RequirementStepWithin ==
  ASSUME LibraryTyped,
         \/ \E j \in DOMAIN job : Library!AddRequirement(j)
         \/ \E r \in DOMAIN requirement : Library!DeleteRequirement(r)
  PROVE  TablesTyped' /\ Library!Request
<1>1. TablesTyped /\ requirement \in Seq(0 .. MaxJobs) /\ 0 \in 0 .. MaxJobs
  BY RecordsAssumption DEF LibraryTyped, TablesTyped
<1>2. CASE \E j \in DOMAIN job : Library!AddRequirement(j)
  <2>1. PICK j \in DOMAIN job : Library!AddRequirement(j)
    BY <1>2
  <2>2. j \in 0 .. MaxJobs
    BY JobsWithin, JobNumber
  <2>3. requirement' \in Seq(0 .. MaxJobs)
    BY <1>1, <2>1, <2>2, AppendProperties DEF Library!AddRequirement
  <2> QED
    BY <1>1, <2>1, <2>3 DEF TablesTyped, Library!AddRequirement
<1>3. CASE \E r \in DOMAIN requirement : Library!DeleteRequirement(r)
  <2>1. PICK r \in DOMAIN requirement : Library!DeleteRequirement(r)
    BY <1>3
  <2>2. requirement' = [requirement EXCEPT ![r] = 0]
    BY <2>1 DEF Library!DeleteRequirement
  <2>3. requirement' \in Seq(0 .. MaxJobs)
    BY <1>1, <2>2
  <2> QED
    BY <1>1, <2>1, <2>3 DEF TablesTyped, Library!DeleteRequirement
<1> QED
  BY <1>2, <1>3

LEMMA CandidateStepWithin ==
  ASSUME LibraryTyped, NEW pair \in DOMAIN candidate, Library!ResolveDuplicate(pair)
  PROVE  TablesTyped' /\ Library!Request
<1>1. TablesTyped /\ CandidatePairs(candidate)
  BY DEF LibraryTyped, TablesTyped
<1>2. PICK status \in Library!CandidateStatus : candidate' = [candidate EXCEPT ![pair] = status]
  BY DEF Library!ResolveDuplicate
<1>3. CandidatePairs(candidate')
  BY <1>1, <1>2 DEF CandidatePairs
<1> QED
  BY <1>1, <1>3 DEF TablesTyped, Library!ResolveDuplicate

LEMMA TaskStepWithin ==
  ASSUME LibraryTyped, NEW i \in DOMAIN task, Library!ArchiveTask(i)
  PROVE  TablesTyped' /\ Library!Request
<1>1. TablesTyped /\ task \in Seq(Library!TaskRow)
  BY DEF LibraryTyped, TablesTyped
<1>2. PICK o : o = task[i]
  OBVIOUS
<1>3. PICK r : r = [o EXCEPT !.archived = TRUE]
  OBVIOUS
<1>4. o \in Library!TaskRow
  BY <1>1, <1>2
<1>5. r \in Library!TaskRow
  BY <1>3, <1>4 DEF Library!TaskRow
<1>6. task' = [task EXCEPT ![i] = r]
  BY <1>2, <1>3 DEF Library!ArchiveTask
<1>7. task' \in Seq(Library!TaskRow)
  BY <1>1, <1>5, <1>6
<1> QED
  BY <1>1, <1>7 DEF TablesTyped, Library!ArchiveTask

LEMMA ApplicationStepWithin ==
  ASSUME LibraryTyped, NEW a \in DOMAIN application,
         \/ Library!ArchiveApplication(a) \/ Library!RestoreApplication(a)
         \/ Library!DeleteApplication(a)
  PROVE  TablesTyped' /\ Library!Request
<1>1. /\ TablesTyped /\ application \in Seq(ApplicationShape)
      /\ Len(application) <= MaxApplications /\ OfJobs(application)
  BY DEF LibraryTyped, LibraryInv, ApplicationsInv, TablesTyped
<1>2. PICK o : o = application[a]
  OBVIOUS
<1>3. o \in ApplicationShape
  BY <1>1, <1>2
<1>4. PICK r : r.job = o.job /\ application' = [application EXCEPT ![a] = r]
  <2>1. \E b \in BOOLEAN : \/ application' = [application EXCEPT ![a] = [o EXCEPT !.archived = b]]
                           \/ application' = [application EXCEPT ![a] = [o EXCEPT !.deleted = b]]
    BY <1>2 DEF Library!ArchiveApplication, Library!RestoreApplication, Library!DeleteApplication
  <2>2. \A b : [o EXCEPT !.archived = b].job = o.job /\ [o EXCEPT !.deleted = b].job = o.job
    BY <1>3 DEF ApplicationShape
  <2> QED
    BY <2>1, <2>2
<1>5. DOMAIN application' = DOMAIN application /\ Len(application') = Len(application)
  BY <1>1, <1>4
<1>6. OfJobs(application')
  BY <1>1, <1>2, <1>4, <1>5 DEF OfJobs
<1> QED
  BY <1>1, <1>5, <1>6 DEF TablesTyped, Library!ArchiveApplication, Library!RestoreApplication,
     Library!DeleteApplication

LEMMA LockedStepWithin ==
  ASSUME LibraryTyped, Library!LockedStep
  PROVE  /\ TablesTyped' /\ libraryRequests' \in 0 .. MaxLibraryRequests
         /\ \A d \in Clients : Within(libraryTx'[d])
<1>1. TablesTyped' /\ Library!Request
  <2>1. CASE \E j \in DOMAIN job, content0 \in Contents : Library!UpdateJob(j, content0)
    BY <2>1, JobStepWithin
  <2>2. CASE \E j \in DOMAIN job : Library!ArchiveJob(j) \/ Library!RestoreJob(j)
    <3>1. PICK j \in DOMAIN job : Library!ArchiveJob(j) \/ Library!RestoreJob(j)
      BY <2>2
    <3>2. CASE \E content0 : content0 \in Contents
      BY <3>1, <3>2, JobStepWithin
    <3>3. CASE ~ \E content0 : content0 \in Contents
      <4>1. job \in Seq(Library!JobRow)
        BY DEF LibraryTyped, LibraryInv, TxInv
      <4>2. job[j] \in Library!JobRow
        BY <4>1
      <4>3. Library!Texts = {}
        BY <3>3 DEF Library!Texts
      <4> QED
        BY <4>2, <4>3 DEF Library!JobRow
    <3> QED
      BY <3>2, <3>3
  <2>3. CASE \/ \E j \in DOMAIN job : Library!AddRequirement(j)
             \/ \E r \in DOMAIN requirement : Library!DeleteRequirement(r)
    BY <2>3, RequirementStepWithin
  <2>4. CASE \E pair \in DOMAIN candidate : Library!ResolveDuplicate(pair)
    BY <2>4, CandidateStepWithin
  <2>5. CASE \E a \in DOMAIN application :
               \/ Library!ArchiveApplication(a) \/ Library!RestoreApplication(a)
               \/ Library!DeleteApplication(a)
    BY <2>5, ApplicationStepWithin
  <2>6. CASE \E i \in DOMAIN task : Library!ArchiveTask(i)
    BY <2>6, TaskStepWithin
  <2> QED
    BY <2>1, <2>2, <2>3, <2>4, <2>5, <2>6 DEF Library!LockedStep
<1> QED
  BY <1>1, RequestsWithin DEF Library!Request, LibraryTyped

LEMMA ClientStepWithin ==
  ASSUME LibraryTyped, NEW c \in Clients, Library!ClientStep(c)
  PROVE  /\ TablesTyped' /\ libraryRequests' \in 0 .. MaxLibraryRequests
         /\ \A d \in Clients : Within(libraryTx'[d])
<1>1. CASE \/ \E content0 \in Contents, imports \in BOOLEAN :
                Library!CreateRead(c, content0, imports)
           \/ \E rows \in Files, validateOnly \in BOOLEAN : Library!CsvBegin(c, rows, validateOnly)
           \/ \E t, s \in DOMAIN job : Library!MergeRead(c, t, s)
           \/ \E j \in DOMAIN job : Library!ApplyRead(c, j)
           \/ \E analysis0 \in Analyses \cup {None} : Library!SubmitRead(c, analysis0)
           \/ \E a \in {0} \cup DOMAIN application, j \in {0} \cup DOMAIN job :
                Library!TaskRead(c, a, j)
  BY <1>1, ReadStepWithin
<1>2. CASE Library!CsvCheck(c) \/ Library!CsvRead(c) \/ Library!CsvInsert(c)
  BY <1>2, CsvCheckWithin, CsvReadWithin, CsvInsertWithin
<1>3. ASSUME Library!End(c), TablesTyped'
      PROVE  /\ TablesTyped' /\ libraryRequests' \in 0 .. MaxLibraryRequests
             /\ \A d \in Clients : Within(libraryTx'[d])
  BY <1>3, EndWithin
<1>4. CASE Library!CreateCommit(c)
  <2>1. Library!End(c)
    BY <1>4 DEF Library!CreateCommit
  <2> QED
    BY <1>3, <1>4, <2>1, CreateWithin
<1>5. CASE Library!GiveUp(c)
  BY <1>3, <1>5, TablesStay DEF Library!GiveUp, LibraryTyped
<1>6. CASE Library!CsvCommit(c)
  <2>1. Library!End(c)
    BY <1>6 DEF Library!CsvCommit
  <2> QED
    BY <1>3, <1>6, <2>1, CsvCommitWithin
<1>7. CASE \E content0 \in Contents, first \in BOOLEAN : Library!MergeCommit(c, content0, first)
  <2>1. Library!End(c)
    BY <1>7 DEF Library!MergeCommit
  <2> QED
    BY <1>3, <1>7, <2>1, MergeWithin
<1>8. CASE Library!ApplyCommit(c)
  <2>1. Library!End(c)
    BY <1>8 DEF Library!ApplyCommit
  <2> QED
    BY <1>3, <1>8, <2>1, ApplyWithin
<1>9. CASE Library!TaskCommit(c)
  <2>1. Library!End(c)
    BY <1>9 DEF Library!TaskCommit
  <2> QED
    BY <1>3, <1>9, <2>1, TaskWithin
<1> QED
  BY <1>1, <1>2, <1>4, <1>5, <1>6, <1>7, <1>8, <1>9 DEF Library!ClientStep

LEMMA LibraryTypesStart == Library!Init => LibraryTyped
<1> SUFFICES ASSUME Library!Init
             PROVE  LibraryTyped
  OBVIOUS
<1>1. /\ job \in Stored /\ source = << >> /\ requirement = << >> /\ candidate = << >>
      /\ application = << >> /\ task = << >> /\ run = << >> /\ libraryRequests = 0
      /\ \A c \in Clients : libraryTx[c].op = "idle"
  BY DEF Library!Init, Library!Idle
<1>2. \A c \in Clients : Within(libraryTx[c])
  BY <1>1, OtherWithin
<1>3. Len(job) <= MaxJobs
  BY <1>1, BoundsAssumption
<1>4. SourcesOfJobs(source) /\ CandidatePairs(candidate) /\ OfJobs(application)
  BY <1>1 DEF SourcesOfJobs, CandidatePairs, OfJobs
<1>5. TablesTyped
  BY <1>1, <1>3, <1>4, BoundsAssumption DEF TablesTyped
<1> QED
  BY <1>1, <1>2, <1>5, LibraryStarts, BoundsAssumption DEF LibraryTyped

LEMMA LibraryKeepsTypes == LibraryTyped /\ [Library!Next]_libraryVars => LibraryTyped'
<1>1. ASSUME LibraryTyped, [Library!Next]_libraryVars
      PROVE  LibraryInv'
  BY <1>1, LibraryKeepsInv DEF LibraryTyped
<1>2. ASSUME LibraryTyped, UNCHANGED libraryVars
      PROVE  LibraryTyped'
  <2>1. TablesTyped'
    BY <1>2, TablesStay DEF libraryVars, LibraryTyped
  <2> QED
    BY <1>1, <1>2, <2>1 DEF libraryVars, LibraryTyped
<1>3. ASSUME LibraryTyped, Library!Next
      PROVE  LibraryTyped'
  BY <1>1, <1>3, LockedStepWithin, ClientStepWithin DEF Library!Next, LibraryTyped
<1> QED
  BY <1>2, <1>3

LEMMA LibraryTypes == LibraryTyped => Library!TypeOK
<1> SUFFICES ASSUME LibraryTyped
             PROVE  Library!TypeOK
  OBVIOUS
<1>1. /\ job \in Seq(Library!JobRow) /\ DOMAIN libraryTx = Clients
      /\ source \in Seq(SourceShape) /\ run \in Seq(Library!RunRow)
      /\ application \in Seq(ApplicationShape)
      /\ libraryRequests \in 0 .. MaxLibraryRequests
      /\ Len(job) <= MaxJobs /\ Len(application) <= MaxApplications /\ Len(run) <= MaxRows
      /\ SourcesOfJobs(source) /\ requirement \in Seq(0 .. MaxJobs)
      /\ CandidatePairs(candidate) /\ OfJobs(application) /\ task \in Seq(Library!TaskRow)
  BY DEF LibraryTyped, LibraryInv, TxInv, RunsInv, ApplicationsInv, TablesTyped
<1>2. ASSUME NEW k \in DOMAIN source
      PROVE  source[k] \in Library!SourceRow
  <2>1. PICK o : o = source[k]
    OBVIOUS
  <2>2. o \in SourceShape /\ IsJob(o.job)
    BY <1>1, <2>1 DEF SourcesOfJobs
  <2>3. o.run <= Len(run)
    BY <2>1 DEF LibraryTyped, LibraryInv, RunsInv
  <2>4. PICK r \in Nat : r = o.run
    BY <2>2 DEF SourceShape
  <2>5. PICK j : j = o.job
    OBVIOUS
  <2>6. r \in 0 .. MaxRows /\ j \in Library!Jobs
    BY <1>1, <2>2, <2>3, <2>4, <2>5, BoundsAssumption DEF IsJob
  <2> QED
    BY <2>1, <2>2, <2>4, <2>5, <2>6 DEF SourceShape, Library!SourceRow
<1>3. source \in Seq(Library!SourceRow)
  BY <1>1, <1>2, ElementsOf
<1>4. ASSUME NEW a \in DOMAIN application
      PROVE  application[a] \in Library!ApplicationRow
  <2>1. PICK o : o = application[a]
    OBVIOUS
  <2>2. o \in ApplicationShape /\ (o.job = 0 \/ IsJob(o.job))
    BY <1>1, <2>1 DEF OfJobs
  <2>3. PICK j : j = o.job
    OBVIOUS
  <2>4. j \in 0 .. MaxJobs
    BY <2>2, <2>3, JobNumber, RecordsAssumption
  <2> QED
    BY <2>1, <2>2, <2>3, <2>4 DEF ApplicationShape, Library!ApplicationRow
<1>5. application \in Seq(Library!ApplicationRow)
  BY <1>1, <1>4, ElementsOf
<1>6. ASSUME NEW pair \in DOMAIN candidate
      PROVE  /\ pair \in {{i, j} : i, j \in Library!Jobs}
             /\ candidate[pair] \in Library!CandidateStatus
  <2>1. PairOf(pair, 0) /\ candidate[pair] \in Library!CandidateStatus
    BY <1>1 DEF CandidatePairs
  <2>2. PICK i, j : Known(i, 0) /\ Known(j, 0) /\ pair = {i, j}
    BY <2>1 DEF PairOf
  <2>3. i \in Library!Jobs /\ j \in Library!Jobs
    BY <2>2, JobNumber DEF IsJob
  <2> QED
    BY <2>1, <2>2, <2>3
<1> QED
  BY <1>1, <1>3, <1>5, <1>6 DEF Library!TypeOK

-----------------------------------------------------------------------------
(* All parts together                                                      *)

LEMMA MaterialsStandAlone ==
  ASSUME [RecordsNext]_recordsVars
  PROVE  [Next]_vars
BY DEF recordsVars, RecordsNext, MaterialsStep, LibraryStep, TrackingStep, ResumesStep,
   CareerStep, MatchingStep, OnlyOf

RecordsTyped ==
  /\ LibraryTyped /\ TrackedInv /\ ResumesTyped /\ CareerTyped /\ EngineTyped

LEMMA RecordsTypesStart == RecordsInit => RecordsTyped
BY LibraryTypesStart, TrackingStarts, ResumesTypesStart, CareerTypesStart, EngineStarts
DEF RecordsInit, RecordsTyped

LEMMA RecordsKeepTypes ==
  RecordsTyped /\ [RecordsNext]_recordsVars => RecordsTyped'
<1> SUFFICES ASSUME RecordsTyped, [RecordsNext]_recordsVars
             PROVE  RecordsTyped'
  OBVIOUS
<1>1. LibraryTyped'
  BY LibraryStandsAlone, LibraryKeepsTypes DEF RecordsTyped
<1>2. TrackedInv'
  BY TrackingStandsAlone, TrackingKeepsInv DEF RecordsTyped
<1>3. ResumesTyped'
  BY ResumesStandAlone, ResumesKeepTypes DEF RecordsTyped
<1>4. CareerTyped'
  BY CareerStandsAlone, CareerKeepsTypes DEF RecordsTyped
<1>5. EngineTyped'
  BY MatchingStandsAlone, EngineKeepsTypes DEF RecordsTyped
<1> QED
  BY <1>1, <1>2, <1>3, <1>4, <1>5 DEF RecordsTyped

\* Type correctness of the owner's records, whatever requests, imports, uploads, restores and
\* ranking runs interleave: no table outgrows its bound, and no row refers to a Job, an
\* Application, a file or a revision that is not there, also while a transaction holds what
\* it read (the services of app/jobs, applications, resumes, profile, matching, materials).
THEOREM RecordsTypeCorrect == RecordsSpec => []RecordsTypeOK
<1>1. RecordsInit => Init
  BY DEF RecordsInit
<1>2. RecordsSpec => []TypeOK
  BY <1>1, MaterialsStandAlone, MaterialsTypeCorrect, PTL
  DEF RecordsSpec, Spec, recordsVars
<1>3. RecordsTyped /\ TypeOK => RecordsTypeOK
  BY LibraryTypes, ResumesTypes, CareerTypes, EngineTypes
  DEF RecordsTyped, TrackedInv, RecordsTypeOK
<1> QED
  BY <1>2, <1>3, RecordsTypesStart, RecordsKeepTypes, PTL DEF RecordsSpec, recordsVars
=============================================================================
