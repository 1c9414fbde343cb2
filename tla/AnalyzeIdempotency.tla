-------------------------- MODULE AnalyzeIdempotency --------------------------
(***************************************************************************)
(* The requests that POST /api/analyze receives with one Idempotency-Key   *)
(* of one user, and the ledger row they share (backend/app/analyze/        *)
(* idempotency.py, and the order in which the handler of backend/          *)
(* legacy_application.py calls it).                                        *)
(*                                                                         *)
(* Each action is one database transaction, one call to the provider, or   *)
(* an event of the environment.  The clean-up deletes by id what an        *)
(* earlier statement of its transaction selected without a lock, so it is  *)
(* two actions.  A request for another key cleans up as well: it is one    *)
(* that dies after its clean-up.                                           *)
(***************************************************************************)
EXTENDS Naturals

CONSTANTS
  Requests,      \* each claims once: a request is its attempt token
  NoRequest,
  Fingerprints,  \* request fingerprints the key is used with
  Bindings       \* effective normalizations (source, policy, dictionary, text)

ASSUME RequestAssumption ==
  NoRequest \notin Requests /\ "none" \notin Bindings /\ Fingerprints # {}

VARIABLES
  record,   \* the analyze_idempotency_records row of the key
  lastId,   \* id of the newest row: a deleted row is followed by a new one
  request,  \* local state of each handler
  print,    \* fingerprint of each request
  calls,    \* provider calls that were made
  history   \* application_records rows written by finalize

vars == <<record, lastId, request, print, calls, history>>

Terminal == {"completed", "failed", "indeterminate"}

Record ==
  [ id: Nat,
    status: {"none", "processing"} \cup Terminal,
    print: Fingerprints,
    token: Requests \cup {NoRequest},     \* attempt_token
    started: BOOLEAN,                     \* provider_started_at is set
    bound: Bindings \cup {"none"},        \* the execution binding
    live: BOOLEAN,                        \* lease_expires_at lies in the future
    expired: BOOLEAN,                     \* expires_at has passed
    result: Requests \cup {NoRequest} ]   \* whose response body is stored

NoRecord ==
  [ id |-> 0, status |-> "none", print |-> CHOOSE p \in Fingerprints : TRUE, token |-> NoRequest,
    started |-> FALSE, bound |-> "none", live |-> FALSE, expired |-> FALSE, result |-> NoRequest ]

Pc == {"cleanup", "deleting", "inserting", "loading", "claimed", "bound", "calling",
       "repairing", "finalizing", "failing", "answered", "ended"}

Request == [ pc: Pc,
             rec: Nat,                            \* claim.record_id; 0 before the claim
             bound: Bindings \cup {"none"},
             doomed: Nat,                         \* row selected for deletion
             answer: Requests \cup {NoRequest} ]  \* whose result the client received

Call == [rec: Nat, by: Requests, kind: {"primary", "retry", "repair"}]

TypeOK ==
  /\ record \in Record
  /\ lastId \in Nat
  /\ request \in [Requests -> Request]
  /\ print \in [Requests -> Fingerprints]
  /\ calls \in SUBSET Call
  /\ history \in SUBSET [rec: Nat, by: Requests]

Init ==
  /\ print \in [Requests -> Fingerprints]
  /\ record = NoRecord
  /\ lastId = 0
  /\ request = [r \in Requests |-> [pc |-> "cleanup", rec |-> 0, bound |-> "none",
                                    doomed |-> 0, answer |-> NoRequest]]
  /\ calls = {} /\ history = {}

-----------------------------------------------------------------------------

At(r, pc) == request[r].pc = pc
Goto(r, pc) == request' = [request EXCEPT ![r].pc = pc]

\* The handler is gone and its local state with it.
Ended == [pc |-> "ended", rec |-> 0, bound |-> "none", doomed |-> 0, answer |-> NoRequest]
Leave(r) == request' = [request EXCEPT ![r] = Ended]

\* The row the attempt claimed is still there, processing, and carries its token.
Current(r) ==
  /\ record.id = request[r].rec
  /\ record.status = "processing" /\ record.token = r

Stale == record.status = "processing" /\ ~record.live

-----------------------------------------------------------------------------
(* claim: cleanup() *)

\* A stale row is locked, settled and committed; one that is still retained and
\* never reached the provider is left to a takeover.
CleanupSettles(r) ==
  /\ At(r, "cleanup") /\ Stale
  /\ record.started \/ record.expired
  /\ record' = [record EXCEPT !.status = IF record.started THEN "indeterminate" ELSE "failed"]
  /\ Goto(r, "inserting")
  /\ UNCHANGED <<lastId, print, calls, history>>

\* Nothing to do, the row is locked (SKIP LOCKED), or the clean-up fails.
CleanupSkips(r) ==
  /\ At(r, "cleanup") /\ Goto(r, "inserting")
  /\ UNCHANGED <<record, lastId, print, calls, history>>

CleanupSelects(r) ==
  /\ At(r, "cleanup")
  /\ record.status \in Terminal /\ record.expired
  /\ request' = [request EXCEPT ![r].pc = "deleting", ![r].doomed = record.id]
  /\ UNCHANGED <<record, lastId, print, calls, history>>

\* DELETE ... WHERE id IN (expired_ids): whatever the row has become
CleanupDeletes(r) ==
  /\ At(r, "deleting")
  /\ request' = [request EXCEPT ![r].pc = "inserting", ![r].doomed = 0]
  /\ record' = IF record.id = request[r].doomed THEN NoRecord ELSE record
  /\ UNCHANGED <<lastId, print, calls, history>>

-----------------------------------------------------------------------------
(* claim: the insert decides who comes first *)

Insert(r) ==
  /\ At(r, "inserting") /\ record.id = 0
  /\ lastId' = lastId + 1
  /\ record' = [ id |-> lastId', status |-> "processing", print |-> print[r], token |-> r,
                 started |-> FALSE, bound |-> "none", live |-> TRUE, expired |-> FALSE,
                 result |-> NoRequest ]
  /\ request' = [request EXCEPT ![r].pc = "claimed", ![r].rec = lastId']
  /\ UNCHANGED <<print, calls, history>>

InsertConflicts(r) ==
  /\ At(r, "inserting") /\ record.id # 0
  /\ Goto(r, "loading")
  /\ UNCHANGED <<record, lastId, print, calls, history>>

-----------------------------------------------------------------------------
(* claim: the existing row, under its lock *)

\* Mutant: the fingerprint is not compared.
LoadsAny(r) == At(r, "loading") /\ record.id # 0

\* The fingerprint is compared before anything else.
Loads(r) == At(r, "loading") /\ record.id # 0 /\ record.print = print[r]

Replay(r) ==
  /\ Loads(r) /\ record.status = "completed"
  /\ request' = [request EXCEPT ![r].pc = "answered", ![r].rec = record.id,
                                ![r].answer = record.result]
  /\ UNCHANGED <<record, lastId, print, calls, history>>

\* Mutant: the public outcome is stored as the status of the row.
OutcomeUnknownVerbatim(r) ==
  /\ Loads(r)
  /\ record.status = "indeterminate" \/ (Stale /\ record.started)
  /\ record' = [record EXCEPT !.status = "outcome_unknown"]
  /\ Leave(r)
  /\ UNCHANGED <<lastId, print, calls, history>>

OutcomeUnknown(r) ==
  /\ Loads(r)
  /\ record.status = "indeterminate" \/ (Stale /\ record.started)
  /\ record' = [record EXCEPT !.status = "indeterminate"]
  /\ Leave(r)
  /\ UNCHANGED <<lastId, print, calls, history>>

\* The row is gone, its fingerprint is another one, or it is processing.  The lease is
\* compared with a clock read before the insert, so it may have expired since.
ClaimRefused(r) ==
  /\ At(r, "loading")
  /\ record.id = 0 \/ record.print # print[r] \/ record.status = "processing"
  /\ Leave(r)
  /\ UNCHANGED <<record, lastId, print, calls, history>>

\* Mutant: a started attempt that went stale is taken over like any other.
TakeOverStarted(r) ==
  /\ Loads(r)
  /\ record.status = "failed" \/ Stale
  /\ record' = [record EXCEPT !.status = "processing", !.token = r, !.started = FALSE,
                              !.live = TRUE, !.expired = FALSE]
  /\ request' = [request EXCEPT ![r].pc = "claimed", ![r].rec = record.id]
  /\ UNCHANGED <<lastId, print, calls, history>>

\* The binding of the earlier attempt stays.
TakeOver(r) ==
  /\ Loads(r)
  /\ record.status = "failed" \/ (Stale /\ ~record.started)
  /\ record' = [record EXCEPT !.status = "processing", !.token = r, !.started = FALSE,
                              !.live = TRUE, !.expired = FALSE]
  /\ request' = [request EXCEPT ![r].pc = "claimed", ![r].rec = record.id]
  /\ UNCHANGED <<lastId, print, calls, history>>

-----------------------------------------------------------------------------
(* The attempt *)

\* Mutant: a second binding replaces the first.
Rebind(r, b) ==
  /\ At(r, "claimed") /\ Current(r)
  /\ record' = [record EXCEPT !.bound = b, !.live = TRUE]
  /\ request' = [request EXCEPT ![r].pc = "bound", ![r].bound = b]
  /\ UNCHANGED <<lastId, print, calls, history>>

Bind(r, b) ==
  /\ At(r, "claimed") /\ Current(r)
  /\ record.bound \in {"none", b}
  /\ record' = [record EXCEPT !.bound = b, !.live = TRUE]
  /\ request' = [request EXCEPT ![r].pc = "bound", ![r].bound = b]
  /\ UNCHANGED <<lastId, print, calls, history>>

\* The guard of provider_started and of finalize
Holds(r) == Current(r) /\ record.bound = request[r].bound

\* provider_started, before the first call and again before a repair
StartProvider(r) ==
  /\ At(r, "bound") \/ (At(r, "calling") /\ \E c \in calls : c.by = r)
  /\ Holds(r)
  /\ record' = [record EXCEPT !.started = TRUE, !.live = TRUE]
  /\ Goto(r, IF At(r, "bound") THEN "calling" ELSE "repairing")
  /\ UNCHANGED <<lastId, print, calls, history>>

\* call_deepseek_raw: a first call and one retry; call_deepseek_repair: one call
CallProvider(r, kind) ==
  /\ \/ At(r, "calling") /\ kind = "primary" /\ ~\E c \in calls : c.by = r
     \/ /\ At(r, "calling") /\ kind = "retry"
        /\ {c.kind : c \in {d \in calls : d.by = r}} = {"primary"}
     \/ At(r, "repairing") /\ kind = "repair"
  /\ calls' = calls \cup {[rec |-> request[r].rec, by |-> r, kind |-> kind]}
  /\ Goto(r, IF kind = "repair" THEN "finalizing" ELSE "calling")
  /\ UNCHANGED <<record, lastId, print, history>>

\* The provider answered, or a deterministic fallback was selected: before the first
\* call when the client is gone, later when the deadline leaves no room for a call.
ResultReady(r) ==
  /\ \E pc \in {"bound", "calling", "repairing"} : At(r, pc)
  /\ Goto(r, "finalizing")
  /\ UNCHANGED <<record, lastId, print, calls, history>>

\* Mutant: the token of the row is not compared.
FinalizeUnfenced(r) ==
  /\ At(r, "finalizing")
  /\ record.id = request[r].rec /\ record.status = "processing"
  /\ record.bound = request[r].bound
  /\ record' = [record EXCEPT !.status = "completed", !.result = r]
  /\ history' = history \cup {[rec |-> record.id, by |-> r]}
  /\ request' = [request EXCEPT ![r].pc = "answered", ![r].answer = r]
  /\ UNCHANGED <<lastId, print, calls>>

\* Response and history row in one transaction; the lease is not compared.
Finalize(r) ==
  /\ At(r, "finalizing") /\ Holds(r)
  /\ record' = [record EXCEPT !.status = "completed", !.result = r]
  /\ history' = history \cup {[rec |-> record.id, by |-> r]}
  /\ request' = [request EXCEPT ![r].pc = "answered", ![r].answer = r]
  /\ UNCHANGED <<lastId, print, calls>>

Attempting == {"claimed", "bound", "calling", "repairing", "finalizing"}

\* A guard does not hold, the input or the output is blocked, or the database fails:
\* the handler answers with an error.
AttemptFails(r) ==
  /\ request[r].pc \in Attempting
  /\ Goto(r, "failing")
  /\ UNCHANGED <<record, lastId, print, calls, history>>

\* Mutant: every unfinished attempt is closed as failed.
CloseAsFailed(r) ==
  /\ At(r, "failing")
  /\ record' = IF Current(r) THEN [record EXCEPT !.status = "failed"] ELSE record
  /\ Leave(r)
  /\ UNCHANGED <<lastId, print, calls, history>>

\* fail_unfinalized, called by the middleware on an error response
FailUnfinalized(r) ==
  /\ At(r, "failing")
  /\ record' = IF Current(r)
                 THEN [record EXCEPT !.status = IF record.started THEN "indeterminate"
                                                                  ELSE "failed"]
                 ELSE record
  /\ Leave(r)
  /\ UNCHANGED <<lastId, print, calls, history>>

-----------------------------------------------------------------------------
(* Time and crashes *)

\* The process ends, an exception passes the middleware, or fail_unfinalized gives up
\* because the database does: nothing is written.
Die(r) ==
  /\ request[r].pc \notin {"answered", "ended"}
  /\ Leave(r)
  /\ UNCHANGED <<record, lastId, print, calls, history>>

LeaseExpires ==
  /\ record.status = "processing" /\ record.live
  /\ record' = [record EXCEPT !.live = FALSE]
  /\ UNCHANGED <<lastId, request, print, calls, history>>

\* The retention (an hour at least) outlasts every lease (five minutes at most).
RetentionExpires ==
  /\ record.id # 0 /\ ~record.expired
  /\ record.status = "processing" => ~record.live
  /\ record' = [record EXCEPT !.expired = TRUE]
  /\ UNCHANGED <<lastId, request, print, calls, history>>

Claim(r) ==
  \/ CleanupSettles(r) \/ CleanupSkips(r) \/ CleanupSelects(r) \/ CleanupDeletes(r)
  \/ Insert(r) \/ InsertConflicts(r)
  \/ Replay(r) \/ OutcomeUnknown(r) \/ ClaimRefused(r) \/ TakeOver(r)

Attempt(r) ==
  \/ \E b \in Bindings : Bind(r, b)
  \/ StartProvider(r)
  \/ \E kind \in {"primary", "retry", "repair"} : CallProvider(r, kind)
  \/ ResultReady(r) \/ Finalize(r) \/ AttemptFails(r) \/ FailUnfinalized(r)

Next ==
  \/ \E r \in Requests : Claim(r) \/ Attempt(r) \/ Die(r)
  \/ LeaseExpires \/ RetentionExpires

Spec == Init /\ [][Next]_vars

-----------------------------------------------------------------------------
(* Safety *)

\* Only one attempt ever calls the provider on behalf of a row: no takeover, stale
\* attempt, repair or clean-up lets a second one pay for the same request.
OneAttemptCalls == \A c, d \in calls : c.rec = d.rec => c.by = d.by

\* What may run again never reached the provider: a failed row, and a processing one
\* that does not say it started, has no call of any of its attempts.
RetryableMeansUnpaid ==
  record.status = "failed" \/ (record.status = "processing" /\ ~record.started)
    => \A c \in calls : c.rec # record.id

\* Whoever gets an answer for a row gets the one result that was stored, and asked
\* for what its producer was asked for.
OneAnswer ==
  \A r, q \in Requests :
    At(r, "answered") =>
      /\ print[request[r].answer] = print[r]
      /\ At(q, "answered") /\ request[q].rec = request[r].rec
           => request[q].answer = request[r].answer

\* The stored result is the one of the attempt that owns the row, computed under the
\* binding the row carries, and History holds it exactly once.
ResultMatchesRow ==
  record.status = "completed" =>
    /\ record.token = record.result
    /\ request[record.result].bound = record.bound /\ record.bound # "none"
    /\ {h \in history : h.rec = record.id} = {[rec |-> record.id, by |-> record.result]}

\* A completed or indeterminate row is never executed again, and no row ever changes
\* its execution binding.
SettledForGood ==
  [][ record'.id = record.id /\ record.id # 0 =>
        /\ record.status \in {"completed", "indeterminate"} => record'.status = record.status
        /\ record.bound # "none" => record'.bound = record.bound ]_vars

-----------------------------------------------------------------------------
(* What the documentation says and the code does not do *)

\* docs/ANALYZE_IDEMPOTENCY.md: "only expired terminal rows are deleted".
OnlyExpiredTerminalDeleted ==
  [][ record.id # 0 /\ record'.id # record.id =>
        record.status \in Terminal /\ record.expired ]_vars
==============================================================================
