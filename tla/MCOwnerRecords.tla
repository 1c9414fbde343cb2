---------------------------- MODULE MCOwnerRecords ----------------------------
(***************************************************************************)
(* The records of one owner, for TLC: Materials, the Job Library,          *)
(* Application tracking, Resumes and files, the career profile and         *)
(* matching.  They share no row that one of them changes and another's     *)
(* property reads, so a behaviour picks one of them and the others stay    *)
(* as they began: what holds of each holds of them side by side.           *)
(***************************************************************************)
EXTENDS Materials, TLC

CONSTANTS c1, c2, t1, t2, u1, NoUrl, None, Blank, NoYears

\* The constants of JobLibrary, ApplicationTracking, ResumeFiles, CareerProfile and Matching;
\* Clients are also the open pages.  A bound that Materials has by the same name is named anew.
CONSTANTS
  Contents, Requiring, NearTexts, Files, Stored, Analyses,
  MaxJobs, MaxApplications, MaxRows, MaxLibraryRequests,
  MaxTracked,
  Datas, Unstructured, Unencodable, MaxResumes, MaxResumeVersions, MaxFiles, MaxServed,
  Values, Copies, MaxItems, MaxProfiles,
  MatchedJobs, Names, Relation, Demands, Snapshots, WeightConfigs, Factors,
  MaxRequirements, MaxRevisions, MaxAnalyses

VARIABLES
  part,
  job, source, requirement, candidate, application, task, run, libraryTx, libraryRequests,
  stageRow, history, note, todo, page,
  resume, asset, disk, upload, served,
  profile, content, snapshot, shown, getting,
  demand, revision, analysis, ranking

libraryVars  == <<job, source, requirement, candidate, application, task, run,
                  libraryTx, libraryRequests>>
trackingVars == <<stageRow, history, note, todo, page>>
resumeVars   == <<resume, asset, disk, upload, served>>
profileVars  == <<profile, content, snapshot, shown, getting>>
matchVars    == <<demand, revision, analysis, ranking>>

MCClients == {c1, c2}
Symmetry  == Permutations(MCClients)

-----------------------------------------------------------------------------
Plain == [text |-> t1, url |-> NoUrl]
Other == [text |-> t2, url |-> u1]
Moved == [text |-> t1, url |-> u1]
Kept(posting) == [text |-> posting.text, url |-> posting.url, archived |-> FALSE]

MCContents == {Plain, Other, Moved}
MCNearTexts == {{t1, t2}}
MCFiles == {<<Plain, Other>>, <<Other, Plain>>, <<Plain, Plain>>,
            <<Moved, [text |-> None, url |-> NoUrl]>>}
MCStored == {<< >>, <<Kept(Plain), Kept(Other)>>}

Library == INSTANCE JobLibrary WITH
  tx <- libraryTx, requests <- libraryRequests, MaxRequests <- MaxLibraryRequests

Tracking == INSTANCE ApplicationTracking WITH Pages <- Clients, MaxRevision <- MaxTracked

Resumes == INSTANCE ResumeFiles WITH MaxVersions <- MaxResumeVersions

Confirmed(resource, value) == [resource |-> resource, value |-> value]
MCCopies ==
  {<<Confirmed("experiences", "x"), Confirmed("projects", "x")>>,
   <<Confirmed("projects", "x"), Confirmed("experiences", Blank), Confirmed("experiences", "x")>>}

Career == INSTANCE CareerProfile WITH Pages <- Clients, MaxRevision <- MaxProfiles

Fact(resource, value, years, confirmed) ==
  [resource |-> resource, value |-> value, years |-> years, confirmed |-> confirmed]

MCRelation ==
  [python  |-> [python |-> "exact", py |-> "synonym", english |-> "missing"],
   english |-> [python |-> "missing", py |-> "missing", english |-> "exact"]]
MCDemands ==
  {[job |-> 1, name |-> "python", category |-> "skill", type |-> "hard_filter", minimum |-> 5],
   [job |-> 2, name |-> "english", category |-> "language", type |-> "required",
    minimum |-> NoYears]}
MCSnapshots ==
  {<<Fact("skills", "python", 6, FALSE), Fact("experiences", "py", NoYears, TRUE),
     Fact("languages", "python", NoYears, TRUE)>>,
   <<Fact("skills", "python", 6, TRUE), Fact("languages", "english", NoYears, FALSE)>>}
MCWeightConfigs ==
  {[required_skills |-> 30, experience |-> 20, projects |-> 15, education |-> 10,
    location_and_authorization |-> 10, languages |-> 5, seniority |-> 5, preferences |-> 5]}
MCFactors == {<<0, 0>>, <<3000, 0>>}

Engine == INSTANCE Matching

-----------------------------------------------------------------------------
(* What the theorems assume of the constants *)

\* A library begins with Jobs of different keys, a CSV file holds Jobs and rows that are
\* refused, an Application begins at revision 1, and what an import copies are items.
ASSUME RecordsAssumption ==
  /\ MaxJobs \in Nat
  /\ Stored \subseteq Seq(Library!JobRow)
  /\ \A rows \in Stored : \A i, j \in DOMAIN rows :
       ~rows[i].archived /\ ~rows[j].archived /\ Library!Key(rows[i]) = Library!Key(rows[j])
         => i = j
  /\ Files \subseteq Seq(Contents \cup {Library!Refused})
  /\ MaxTracked \in Nat \ {0}
  /\ Copies \subseteq Seq(Career!Item)

\* Bounds are natural and admit what every run needs: a library may begin full, an import
\* makes a Version, a profile has a revision.
ASSUME BoundsAssumption ==
  /\ MaxApplications \in Nat /\ MaxRows \in Nat /\ MaxLibraryRequests \in Nat
  /\ \A rows \in Stored : Len(rows) <= MaxJobs
  /\ MaxResumes \in Nat /\ MaxFiles \in Nat /\ MaxServed \in Nat
  /\ MaxResumeVersions \in Nat \ {0}
  /\ MaxItems \in Nat /\ MaxProfiles \in Nat \ {0}

\* A string of ResumeContent has UTF-8 (pydantic refuses one that has not).
ASSUME EncodingAssumption == Unencodable \subseteq Unstructured

\* Weights total 100 (matching/schemas.py:34-42), years are none or counted, every term is
\* related to every fact in one of the four ways, and a fact is of a resource.
ASSUME MatchingAssumption ==
  /\ MatchedJobs \subseteq Nat /\ IsFiniteSet(MatchedJobs) /\ MaxRequirements \in Nat
  /\ MaxRevisions \in Nat \ {0} /\ MaxAnalyses \in Nat
  /\ \A weights \in WeightConfigs :
       weights \in [Engine!DIMENSIONS -> Nat] /\ Engine!SumFunction(weights) = 100
  /\ \A demanded \in Demands :
       /\ demanded.job \in MatchedJobs /\ demanded.name \in Names
       /\ demanded.minimum \in Nat \cup {NoYears}
  /\ \A facts \in Snapshots :
       /\ facts \in Seq({facts[i] : i \in DOMAIN facts})
       /\ \A i \in DOMAIN facts :
            /\ facts[i].resource \in DOMAIN Engine!FactDimensions
            /\ facts[i].years \in Nat \cup {NoYears}
            /\ \A name \in Names :
                 Relation[name][facts[i].value] \in DOMAIN Engine!Contribution
  /\ \A factors \in Factors, j \in MatchedJobs : factors[j] \in Int

-----------------------------------------------------------------------------
RecordsInit ==
  /\ part \in {"materials", "library", "tracking", "resumes", "career", "matching"}
  /\ Init
  /\ Library!Init /\ (part # "library" => job = << >>)
  /\ Tracking!Init /\ Resumes!Init /\ Career!Init
  /\ Engine!Init /\ (part # "matching" => revision[1] = CHOOSE first \in Snapshots : TRUE)

OnlyOf(p, step) == part = p /\ step /\ UNCHANGED part

MaterialsStep == OnlyOf("materials", Next) /\
  UNCHANGED <<libraryVars, trackingVars, resumeVars, profileVars, matchVars>>
LibraryStep == OnlyOf("library", Library!Next) /\
  UNCHANGED <<vars, trackingVars, resumeVars, profileVars, matchVars>>
TrackingStep == OnlyOf("tracking", Tracking!Next) /\
  UNCHANGED <<vars, libraryVars, resumeVars, profileVars, matchVars>>
ResumesStep == OnlyOf("resumes", Resumes!Next) /\
  UNCHANGED <<vars, libraryVars, trackingVars, profileVars, matchVars>>
CareerStep == OnlyOf("career", Career!Next) /\
  UNCHANGED <<vars, libraryVars, trackingVars, resumeVars, matchVars>>
MatchingStep == OnlyOf("matching", Engine!Next) /\
  UNCHANGED <<vars, libraryVars, trackingVars, resumeVars, profileVars>>

RecordsNext ==
  MaterialsStep \/ LibraryStep \/ TrackingStep \/ ResumesStep \/ CareerStep \/ MatchingStep

RecordsSpec ==
  RecordsInit /\ [][RecordsNext]_<<part, vars, libraryVars, trackingVars,
                                   resumeVars, profileVars, matchVars>>

-----------------------------------------------------------------------------
\* Every table of the part at work holds rows of its type; the other parts are
\* as they began.
RecordsTypeOK ==
  /\ part = "materials" => TypeOK
  /\ part = "library" => Library!TypeOK
  /\ part = "tracking" => Tracking!TypeOK
  /\ part = "resumes" => Resumes!TypeOK
  /\ part = "career" => Career!TypeOK
  /\ part = "matching" => Engine!TypeOK

(* What each module says of its part, there in full.                        *)

\* Overlapping changes, merges and imports: nothing unique is there twice, and an
\* import counts what it did.
LibraryAccounted == part = "library" => Library!UniqueWhereItCounts /\ Library!ImportAccounted

\* Two pages open on one Application: its history is a path.
HistoryIsAPath == part = "tracking" => Tracking!HistoryIsAPath

\* Failures and crashes of uploads: no row without its whole file, but of a refused Job
\* import, and no Version of such a row.
RowsHaveFiles == part = "resumes" => Resumes!RowsHaveFiles

\* Changes, restores and imports that fail midway: the snapshots are the revisions.
ProfileHistory == part = "career" => Career!ProfileHistory

\* Matching and ranking: nothing unconfirmed counts, no failed filter is recommended.
AnalysesAreGrounded == part = "matching" => Engine!AnalysesAreGrounded
=============================================================================
