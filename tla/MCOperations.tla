----------------------------- MODULE MCOperations -----------------------------
(***************************************************************************)
(* What is said in an analysis and what is kept beside the owner's         *)
(* records, for TLC: an answer on its way to the result, the telemetry of  *)
(* the analyses and evaluations, the index of the Project Knowledge, the   *)
(* backups and their restore, the sessions of the owner, what the Agent    *)
(* spends, the Job Descriptions of the Java service, and the gate of a     *)
(* release.  They share no row, so a behaviour picks one of them; of the   *)
(* telemetry the analyses or the evaluations, and of the sessions those of *)
(* the right passwords or the lockouts, where none is used after login.    *)
(***************************************************************************)
EXTENDS BackupRestore, MCAnalyzeResult

CONSTANTS Threads, NoFile, Workflows, Outcomes, Runs, Cases, Cleaners, NoSkill, NoKey,
          Missing

\* The requests for an analysis and the answers to them (AnalyzeResult)
CONSTANTS Asked, Replies(_), Repairs, Unsupported, Covering, Rank, MaxListed

\* The constants of KnowledgeIndex, Sessions, AiBudget, JobDescriptions and ReleaseGate;
\* Threads are the requests and the senders, Editions the contents of the knowledge.
CONSTANTS
  Editions, Chunks, FullText, Scanned, MaxDocuments,
  Addresses, MaxFailed, LockoutTime, IdleTimeout, AbsoluteTimeout, RememberTime,
  TouchInterval, LastTime, MaxSessions, MaxPassword,
  Steps, RunOf, Projected, Spent, StepTokenLimit, RunTokenLimit, DailyTokenLimit,
  MaxAttempts, LastDay,
  Keys, Postings, Oversized, NoUrl, MaxRequests, MaxVersions,
  MaxDefects

VARIABLES
  part,
  knowledgeFile, drawn, document, chunk, thread, found,
  analysis, history, metric, stepped, evaluation, runRow, result, cleaner, overlapped,
  ask, stage, draft, status, warnings, content,
  now, password, session, attempt, refused, ended, request,
  today, budget, ledger, total, work,
  described, keyRow, sender, claims, told,
  path, attested, collector, probes, runs, evidence, exit

knowledgeVars  == <<knowledgeFile, drawn, document, chunk, thread, found>>
analysisVars   == <<analysis, history, metric, stepped>>
evaluationVars == <<evaluation, runRow, result>>
deletionVars   == <<cleaner, overlapped>>
answerVars     == <<ask, stage, draft, status, warnings, content>>
sessionVars    == <<now, password, session, attempt, refused, ended, request>>
budgetVars     == <<today, budget, ledger, total, work>>
descriptionVars == <<described, keyRow, sender, claims, told>>
gateVars       == <<path, attested, collector, probes, runs, evidence, exit>>
operationsVars ==
  <<part, backupVars, knowledgeVars, analysisVars, evaluationVars, deletionVars, answerVars,
    sessionVars, budgetVars, descriptionVars, gateVars>>

\* Threads serve requests; which of them, and which request deletes, is all one.
Symmetry == Permutations(Threads) \cup Permutations(Cleaners)

MCChunks == [v1 |-> 1, v2 |-> 2]
Knowledge == INSTANCE KnowledgeIndex WITH file <- knowledgeFile, Contents <- Editions

Observed == INSTANCE Telemetry

Answered == INSTANCE AnalyzeResult WITH Contents <- Replies

Access == INSTANCE Sessions WITH Requests <- Threads

MCRunOf == [draft |-> "run", letter |-> "run", other |-> "another"]
Spending == INSTANCE AiBudget

\* Two postings of one page, and one without a page that is too long to answer.
Listed(url, text) == [url |-> url, text |-> text]
MCOversized == {Listed("none", "long")}
MCPostings == {Listed("page", "first"), Listed("page", "second")} \cup MCOversized
Descriptions == INSTANCE JobDescriptions WITH Senders <- Threads

Gate == INSTANCE ReleaseGate WITH
  stage <- collector, file <- evidence

-----------------------------------------------------------------------------
Target(identity, login, public, renamed) ==
  [identity |-> identity, renamed |-> renamed, login |-> login,
   public |-> public, foreign |-> "none", rows |-> NoRows, sequence |-> 0,
   owner |-> "app", schemaOwner |-> "pg_database_owner", files |-> {}, knowledge |-> FALSE]

\* A disposable target, one that is not, the application's own, and two that are not empty
MCTargets ==
  {Target("right", "restorer", TRUE, TRUE), Target("wrong", "app", FALSE, FALSE),
   Target("none", "app", TRUE, FALSE),
   [Target("none", "app", TRUE, FALSE) EXCEPT !.knowledge = TRUE],
   [Target("none", "app", TRUE, FALSE) EXCEPT !.foreign = "schema"]}

Options(disposable, initialize, renamed, mapping) ==
  [disposable |-> disposable, initialize |-> initialize, renamed |-> renamed, mapping |-> mapping]

MCPolicies ==
  {Options(FALSE, FALSE, FALSE, << >>),
   Options(TRUE, TRUE, TRUE, [app |-> "restorer"]),
   Options(TRUE, FALSE, TRUE, [app |-> "restorer", pg_database_owner |-> "restorer"])}

-----------------------------------------------------------------------------
(* What the theorems assume of the constants *)

\* What pg_database and the inventory of a target can show
TargetShape ==
  [identity : {"right", "wrong", "none"}, renamed : BOOLEAN, login : Roles, public : BOOLEAN,
   foreign : ForeignKinds \cup {"none"},
   rows : (SUBSET Files) \cup {NoRows}, sequence : Nat, owner : Roles, schemaOwner : Roles,
   files : SUBSET Files, knowledge : BOOLEAN]
ASSUME TargetsAssumption == Targets \subseteq TargetShape

\* An edition of the knowledge has text, and every text has a chunk
\* (legacy_application.py:2185-2187).
ASSUME ChunksAssumption == Chunks \in [Editions -> Nat \ {0}]

\* The suite is a finite list (evaluation_service.py).
ASSUME SuiteAssumption == IsFiniteSet(Cases)

\* Times are natural numbers, and a lockout waits for at least two failures and takes at
\* least a minute (config.py:177-178).
ASSUME AccessAssumption ==
  /\ IsFiniteSet(Threads) /\ MaxFailed \in Nat \ {0} /\ LockoutTime \in Nat \ {0}
  /\ IdleTimeout \in Nat /\ AbsoluteTimeout \in Nat /\ RememberTime \in Nat
  /\ TouchInterval \in Nat /\ MaxSessions \in Nat /\ MaxPassword \in Nat

\* A call uses one of finitely many numbers of tokens; the limits are numbers of tokens.
ASSUME BudgetAssumption ==
  /\ Spent \subseteq Nat /\ IsFiniteSet(Spent) /\ Projected \in Nat
  /\ StepTokenLimit \in Nat /\ RunTokenLimit \in Nat /\ DailyTokenLimit \in Nat
  /\ MaxAttempts \in Nat \ {0} /\ LastDay \in Nat \ {0}

\* No row of the create ledger is the one that does not exist.
ResponseShape == [status : Nat, description : Nat]
KeyRowShape ==
  [id : Nat, posting : Postings, status : {"processing", "completed"},
   token : [create : Nat, try : {1, 2}], live : BOOLEAN, kept : BOOLEAN,
   response : ResponseShape]
ASSUME DescriptionsAssumption == NoKey \notin KeyRowShape

\* A job asks for finitely many skills, and "no explicit skill" is not the name of one
\* (analysis_fallback.py:226).
ASSUME AskedAssumption ==
  \A a \in Asked : IsFiniteSet(DOMAIN a.skills) /\ NoSkill \notin DOMAIN a.skills

\* What is read from an answer: the texts have a length and the lists are sequences.
Measured(v) == v.type = "string" => v.length \in Nat
ASSUME RepliesAssumption ==
  \A a \in Asked : \A c \in Replies(a) : Answered!Parses(c) =>
    \A k \in DOMAIN Answered!Data(c) :
      LET v == Answered!Data(c)[k] IN
      /\ Measured(v)
      /\ v.type = "list" => /\ v.items \in Seq({v.items[i] : i \in DOMAIN v.items})
                            /\ \A i \in DOMAIN v.items : Measured(v.items[i])

\* A status that was not seen is not a status.
ASSUME MissingAssumption == Missing \notin Nat

\* Bounds are natural, and a Job Description has a version.
ASSUME OperationBoundsAssumption ==
  /\ LastTime \in Nat /\ MaxRequests \in Nat /\ MaxVersions \in Nat \ {0}
  /\ MaxDocuments \in Nat /\ MaxSequence \in Nat /\ MaxBackups \in Nat /\ MaxRestores \in Nat

-----------------------------------------------------------------------------
OperationsInit ==
  /\ part \in {"backup", "knowledge", "analyses", "evaluations", "answer",
               "sessions", "lockouts", "spending", "descriptions", "gate"}
  /\ Init /\ (part # "backup" => target = Target("none", "app", TRUE, FALSE))
  /\ Knowledge!Init /\ (part # "knowledge" => knowledgeFile = NoFile)
  /\ Observed!Init /\ Access!Init /\ Spending!Init /\ Descriptions!Init
  /\ Answered!Init /\ (part # "answer" => ask = Plain)
  /\ Gate!Init /\ (part # "gate" => path = "candidate-public-equivalent" /\ attested
                                    /\ evidence = Gate!NothingWritten)

BackupStep == part = "backup" /\ Next /\
  UNCHANGED <<part, knowledgeVars, analysisVars, evaluationVars, deletionVars, answerVars,
              sessionVars, budgetVars, descriptionVars, gateVars>>
KnowledgeStep == part = "knowledge" /\ Knowledge!Next /\
  UNCHANGED <<part, backupVars, analysisVars, evaluationVars, deletionVars, answerVars,
              sessionVars, budgetVars, descriptionVars, gateVars>>
AnswerStep == part = "answer" /\ Answered!Next /\
  UNCHANGED <<part, backupVars, knowledgeVars, analysisVars, evaluationVars, deletionVars,
              sessionVars, budgetVars, descriptionVars, gateVars>>
SpendingStep == part = "spending" /\ Spending!Next /\
  UNCHANGED <<part, backupVars, knowledgeVars, analysisVars, evaluationVars, deletionVars,
              answerVars, sessionVars, descriptionVars, gateVars>>

\* The last create only where all of them use one key
OneKey == CHOOSE key \in Keys : TRUE

DescriptionStep ==
  /\ part = "descriptions" /\ Descriptions!Next
  /\ claims'.creates = MaxRequests =>
       /\ \A key \in Keys \ {OneKey} : keyRow'[key] = NoKey
       /\ \A t \in Threads : sender'[t].at \notin {"idle", "answered"} => sender'[t].key = OneKey
  /\ UNCHANGED <<part, backupVars, knowledgeVars, analysisVars, evaluationVars, deletionVars,
                 answerVars, sessionVars, budgetVars, gateVars>>

TelemetryStep ==
  /\ part \in {"analyses", "evaluations"} /\ Observed!Next
  /\ \/ part = "analyses" /\ UNCHANGED evaluationVars
     \/ part = "evaluations" /\ UNCHANGED analysisVars
  /\ UNCHANGED <<part, backupVars, knowledgeVars, answerVars, sessionVars, budgetVars,
                 descriptionVars, gateVars>>

OneAddress == CHOOSE a \in Addresses : TRUE
Comparing == {t \in Threads : request'[t].at = "compared"}

AccessStep ==
  /\ part \in {"sessions", "lockouts"} /\ Access!Next
  /\ \/ /\ part = "sessions"
        /\ \A t \in Comparing : request'[t].right /\ request'[t].address = OneAddress
     \/ /\ part = "lockouts"
        /\ \A t \in Threads : request'[t].at # "serving"
        /\ \A t \in Comparing : ~request'[t].remember /\ request'[t].previous = {}
  /\ UNCHANGED <<part, backupVars, knowledgeVars, analysisVars, evaluationVars, deletionVars,
                 answerVars, budgetVars, descriptionVars, gateVars>>

\* Without the operator's gates only requests with nothing wrong, and on the direct path
\* only what is checked on no other
GateStep ==
  /\ part = "gate" /\ Gate!Next
  /\ UNION {runs'[i].defects : i \in DOMAIN runs'} \subseteq
       (IF ~attested THEN {} ELSE IF path = "candidate-public-equivalent" THEN Gate!Defects
        ELSE {Gate!Proxied})
  /\ UNCHANGED <<part, backupVars, knowledgeVars, analysisVars, evaluationVars, deletionVars,
                 answerVars, sessionVars, budgetVars, descriptionVars>>

OperationsNext ==
  BackupStep \/ KnowledgeStep \/ TelemetryStep \/ AnswerStep \/ AccessStep \/ SpendingStep
  \/ DescriptionStep \/ GateStep

OperationsSpec == OperationsInit /\ [][OperationsNext]_operationsVars

-----------------------------------------------------------------------------
\* Every row, file and request of the part at work is of its type; the other
\* parts are as they began.
OperationsTypeOK ==
  /\ part = "backup" => TypeOK
  /\ part = "knowledge" => Knowledge!TypeOK
  /\ part \in {"analyses", "evaluations"} => Observed!TypeOK
  /\ part = "answer" => Answered!TypeOK
  /\ part \in {"sessions", "lockouts"} => Access!TypeOK
  /\ part = "spending" => Spending!TypeOK
  /\ part = "descriptions" => Descriptions!TypeOK
  /\ part = "gate" => Gate!TypeOK

(* What each module says of its part, there in full.                        *)

\* Rebuilds, uploads and searches of the Project Knowledge: no index is half.
IndexWhole == part = "knowledge" => Knowledge!IndexWhole

\* Recording and deleting: metrics, steps, runs and results fit together.
TelemetryWhole == part \in {"analyses", "evaluations"} => Observed!TelemetryWhole

\* Overlapping requests of one user: what was signed out stays out, and every
\* refused password counts.
SignedOutForGood == part \in {"sessions", "lockouts"} => Access!SignedOutForGood

\* Overlapping Steps, failures and midnight: a budget is passed by one call at most.
SpendingBounded == part = "spending" => Spending!SpendingBounded

\* Overlapping, slow, repeated and dying creates: one Job Description, one answer.
DescribedOnce == part = "descriptions" => Descriptions!DescribedOnce

\* Requests, probes and logs that fail, and a collector that fails or is killed: no
\* release without five sound requests that were all observed.
ReleaseIsEarned == part = "gate" => Gate!ReleaseIsEarned

\* From the model's answer to the result: a skill asked for has one state, unless the
\* lists are full, and a result that calls itself complete hides nothing of the answer.
AnswerHidesNothing ==
  part = "answer" => Answered!SkillsAccounted /\ Answered!CompleteHidesNothing
=============================================================================
