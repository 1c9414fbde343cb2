--------------------------- MODULE JobDescriptions ----------------------------
(***************************************************************************)
(* The store of the Java service (services/jd-normalization-service,       *)
(* persistence/create and persistence/update): Job Descriptions that are   *)
(* created once for an Idempotency-Key and replaced under an ETag.         *)
(*                                                                         *)
(* A create is three transactions under READ COMMITTED: it claims the row  *)
(* of its key, or reads whoever has it; it finalizes its claim, which      *)
(* creates the Job Description; it deletes what has expired.  Two          *)
(* statements of one transaction see different rows where the model has    *)
(* two steps; in between, the row of the ledger it locked stays locked.    *)
(***************************************************************************)
EXTENDS Naturals, Sequences, FiniteSets

CONSTANTS
  Senders,     \* clients, each with one request at a time
  Keys,        \* values of Idempotency-Key
  Postings,    \* [url, text]: normalized requests; the two fingerprints tell them apart
  Oversized,   \* those whose answer exceeds the stored response limit
  NoUrl,       \* a posting without a canonical URL
  NoKey,       \* a key nobody has used, or whose row was deleted
  MaxRequests, \* bound: creates in all
  MaxVersions  \* bound: versions of a Job Description

VARIABLES
  described, \* rows of job_descriptions, each with its job_description_versions
  keyRow,    \* rows of request_idempotency, by key
  sender,    \* the create each client waits for
  claims,    \* rows of the ledger and creates so far, to number them
  told       \* what clients were answered, by the row of the ledger it came from

descriptionVars == <<described, keyRow, sender, claims, told>>

-----------------------------------------------------------------------------
Ids == 1..MaxRequests
Created(d)  == [status |-> 201, description |-> d]
Exists(d)   == [status |-> 409, description |-> d]
TooLarge    == [status |-> 500, description |-> 0]
Responses   == {Created(d) : d \in Ids} \cup {Exists(d) : d \in Ids} \cup {TooLarge}
\* An attempt_token: the create that drew it, and in which of its two tries.
Tokens == [create : Ids, try : 1..2]
Unstored == [status |-> 0, description |-> 0]

KeyRow == [id : Ids, posting : Postings, status : {"processing", "completed"}, token : Tokens,
           live : BOOLEAN, kept : BOOLEAN, response : Responses \cup {Unstored}]

\* by is the row of the ledger it was created for; read, of a version, is the
\* optimistic_lock_version its author gave in If-Match.
Description == [by : Ids, current : 1..MaxVersions, lock : 0..(MaxVersions - 1)]
Version     == [number : 1..MaxVersions, posting : Postings, read : 0..MaxVersions]

TypeOK ==
  /\ \A d \in DOMAIN described :
       /\ [by |-> described[d].by, current |-> described[d].current, lock |-> described[d].lock]
            \in Description
       /\ \A v \in DOMAIN described[d].versions : described[d].versions[v] \in Version
  /\ \A k \in Keys : keyRow[k] # NoKey => keyRow[k] \in KeyRow
  /\ claims.creates \in 0..MaxRequests /\ claims.rows \in 0..MaxRequests
  /\ \A answer \in told : answer.row \in Ids /\ answer.response \in Responses

Idle == [at |-> "idle"]

Init ==
  /\ described = << >>
  /\ keyRow = [k \in Keys |-> NoKey]
  /\ sender = [c \in Senders |-> Idle]
  /\ claims = [creates |-> 0, rows |-> 0]
  /\ told = {}

-----------------------------------------------------------------------------
At(c, stage) == sender[c].at = stage
Goto(c, state) == sender' = [sender EXCEPT ![c] = state]
\* The answer is out when the clean-up that follows it begins.
Answered(c) == Goto(c, [at |-> "answered"])
Token(c) == [create |-> sender[c].create, try |-> sender[c].try]

\* A row that a transaction has locked FOR UPDATE between two of its statements
Locked(id) == \E c \in Senders : At(c, "classifying") /\ sender[c].row = id

Current(d) == described[d].versions[described[d].current].posting
Same(p, q) == p = q \/ (p.url # NoUrl /\ p.url = q.url)
\* The unique indexes of job_descriptions, and duplicate
Duplicates(p) == {d \in DOMAIN described : Same(p, Current(d))}

Keep(k, row) == keyRow' = [keyRow EXCEPT ![k] = row]

\* A client sends a create, with a key of its own or one that was used before.
Send(c) ==
  /\ At(c, "idle") /\ claims.creates < MaxRequests
  /\ \E k \in Keys, p \in Postings :
       Goto(c, [at |-> "claiming", key |-> k, posting |-> p, create |-> claims.creates + 1,
                try |-> 1, row |-> 0])
  /\ claims' = [claims EXCEPT !.creates = @ + 1]
  /\ UNCHANGED <<described, keyRow, told>>

Claimed(c, row) == Goto(c, [sender[c] EXCEPT !.at = "claimed", !.row = row])

\* claim: the INSERT .. ON CONFLICT DO NOTHING inserts
Claim(c) ==
  LET s == sender[c] IN
  /\ At(c, "claiming") /\ keyRow[s.key] = NoKey /\ claims.rows < MaxRequests
  /\ Keep(s.key, [id |-> claims.rows + 1, posting |-> s.posting, status |-> "processing",
                  token |-> Token(c), live |-> TRUE, kept |-> TRUE, response |-> Unstored])
  /\ claims' = [claims EXCEPT !.rows = @ + 1]
  /\ Claimed(c, claims.rows + 1)
  /\ UNCHANGED <<described, told>>

\* ... or does nothing, and the row is read, which may be gone by then.
KeyConflict(c) ==
  /\ At(c, "claiming") /\ keyRow[sender[c].key] # NoKey
  /\ Goto(c, [sender[c] EXCEPT !.at = "reading"])
  /\ UNCHANGED <<described, keyRow, claims, told>>

Reads(c) == At(c, "reading") /\ (keyRow[sender[c].key] # NoKey => ~Locked(keyRow[sender[c].key].id))

\* The row was deleted (500), is about another request (409), or is worked on (409).
ClaimRefused(c) ==
  LET row == keyRow[sender[c].key] IN
  /\ Reads(c)
  /\ \/ row = NoKey
     \/ row # NoKey /\ row.posting # sender[c].posting
     \/ row # NoKey /\ row.status = "processing" /\ row.live
  /\ Answered(c)
  /\ UNCHANGED <<described, keyRow, claims, told>>

\* Mutant: what was asked for is not compared.
AnyRequest(posting, row) == row # NoKey

\* The row was written for the same request.
SameRequest(posting, row) == row # NoKey /\ row.posting = posting

Tell(c, row, response) ==
  told' = told \cup {[row |-> row, posting |-> sender[c].posting, response |-> response]}

Replay(c) ==
  LET row == keyRow[sender[c].key] IN
  /\ Reads(c) /\ SameRequest(sender[c].posting, row) /\ row.status = "completed"
  /\ Tell(c, row.id, row.response)
  /\ Answered(c)
  /\ UNCHANGED <<described, keyRow, claims>>

TakeOver(c) ==
  LET row == keyRow[sender[c].key] IN
  /\ Reads(c) /\ SameRequest(sender[c].posting, row) /\ row.status = "processing" /\ ~row.live
  /\ Keep(sender[c].key, [row EXCEPT !.token = Token(c), !.live = TRUE])
  /\ Claimed(c, row.id)
  /\ UNCHANGED <<described, claims, told>>

-----------------------------------------------------------------------------
\* finalizeCreate: the row it claimed, locked by id, and still its own
Owns(c) ==
  LET row == keyRow[sender[c].key] IN
  row # NoKey /\ row.id = sender[c].row /\ row.status = "processing" /\ row.token = Token(c)

\* complete, which commits
Complete(c, response) ==
  LET s == sender[c] IN
  /\ Keep(s.key, [keyRow[s.key] EXCEPT !.status = "completed", !.kept = TRUE, !.response = response])
  /\ Tell(c, s.row, response)
  /\ Answered(c)

Finalizes(c) == At(c, "claimed") /\ ~Locked(sender[c].row) /\ Owns(c)

FinalizeTooLarge(c) ==
  /\ Finalizes(c) /\ sender[c].posting \in Oversized
  /\ Complete(c, TooLarge)
  /\ UNCHANGED <<described, claims>>

FinalizeCreates(c) ==
  LET s == sender[c] IN
  /\ Finalizes(c) /\ s.posting \notin Oversized /\ Duplicates(s.posting) = {}
  /\ described' = Append(described,
       [by |-> s.row, current |-> 1, lock |-> 0,
        versions |-> <<[number |-> 1, posting |-> s.posting, read |-> 0]>>])
  /\ Complete(c, Created(Len(described) + 1))
  /\ UNCHANGED claims

\* The INSERT found a duplicate; it is looked for by another statement, and may
\* have been replaced by then.
FinalizeConflict(c) ==
  /\ Finalizes(c) /\ sender[c].posting \notin Oversized /\ Duplicates(sender[c].posting) # {}
  /\ Goto(c, [sender[c] EXCEPT !.at = "classifying"])
  /\ UNCHANGED <<described, keyRow, claims, told>>

\* By its URL first
Classify(c) ==
  LET p == sender[c].posting
      byUrl == {d \in Duplicates(p) : p.url # NoUrl /\ Current(d).url = p.url}
  IN
  /\ At(c, "classifying")
  /\ \E d \in IF byUrl # {} THEN byUrl ELSE Duplicates(p) : Complete(c, Exists(d))
  /\ UNCHANGED <<described, claims>>

\* "Aggregate conflict could not be classified": the row stays as it was claimed.
ClassifyFails(c) ==
  /\ At(c, "classifying") /\ Duplicates(sender[c].posting) = {}
  /\ Answered(c)
  /\ UNCHANGED <<described, keyRow, claims, told>>

\* ClaimOwnershipException: one more try with another token, then 409
OwnershipLost(c) ==
  /\ At(c, "claimed") /\ ~Locked(sender[c].row) /\ ~Owns(c)
  /\ \/ sender[c].try = 1 /\ Goto(c, [sender[c] EXCEPT !.at = "claiming", !.try = 2, !.row = 0])
     \/ sender[c].try = 2 /\ Answered(c)
  /\ UNCHANGED <<described, keyRow, claims, told>>

\* cleanupExpiredCompleted, SKIP LOCKED
Cleanup(c) ==
  /\ At(c, "answered")
  /\ keyRow' = [k \in Keys |->
       IF keyRow[k] # NoKey /\ keyRow[k].status = "completed" /\ ~keyRow[k].kept THEN NoKey ELSE keyRow[k]]
  /\ Goto(c, Idle)
  /\ UNCHANGED <<described, claims, told>>

\* The process ends, and its open transaction is rolled back.
Dies(c) ==
  /\ ~At(c, "idle")
  /\ Goto(c, Idle)
  /\ UNCHANGED <<described, keyRow, claims, told>>

-----------------------------------------------------------------------------
\* updateInTransaction: the version given in If-Match
Matches(description, read) == description.lock = read

\* A replacement under the ETag its author once read.  One that is refused, or
\* that changes nothing, writes nothing.
Replace(d, p, read) ==
  LET row == described[d] IN
  /\ Matches(row, read) /\ p # Current(d) /\ Duplicates(p) \subseteq {d}
  /\ row.lock + 1 < MaxVersions
  /\ described' = [described EXCEPT ![d] =
       [by |-> row.by, current |-> row.current + 1, lock |-> row.lock + 1,
        versions |-> Append(row.versions,
          [number |-> row.versions[row.current].number + 1, posting |-> p, read |-> read])]]
  /\ UNCHANGED <<keyRow, sender, claims, told>>

LeaseExpires(k) ==
  /\ keyRow[k] # NoKey /\ keyRow[k].status = "processing" /\ keyRow[k].live
  /\ Keep(k, [keyRow[k] EXCEPT !.live = FALSE])
  /\ UNCHANGED <<described, sender, claims, told>>

RetentionExpires(k) ==
  /\ keyRow[k] # NoKey /\ keyRow[k].status = "completed" /\ keyRow[k].kept
  /\ Keep(k, [keyRow[k] EXCEPT !.kept = FALSE])
  /\ UNCHANGED <<described, sender, claims, told>>

Create(c) ==
  \/ Send(c) \/ Claim(c) \/ KeyConflict(c) \/ ClaimRefused(c) \/ Replay(c) \/ TakeOver(c)
  \/ FinalizeTooLarge(c) \/ FinalizeCreates(c) \/ FinalizeConflict(c)
  \/ Classify(c) \/ ClassifyFails(c) \/ OwnershipLost(c) \/ Cleanup(c) \/ Dies(c)

Next ==
  \/ \E c \in Senders : Create(c)
  \/ \E d \in DOMAIN described, p \in Postings, read \in 0..MaxVersions : Replace(d, p, read)
  \/ \E k \in Keys : LeaseExpires(k) \/ RetentionExpires(k)

Spec == Init /\ [][Next]_descriptionVars

-----------------------------------------------------------------------------
\* However creates with one key or one posting overlap, are slow, die, are
\* taken over or repeated: whoever was answered from one row of the ledger sent
\* the same and got the same answer; a row creates one Job Description at most,
\* the one it says, and none before it is completed; no two current postings
\* are duplicates; and no replacement overwrites a version its author never read.
DescribedOnce ==
  /\ \A a, b \in told : a.row = b.row => a = b
  /\ \A d, e \in DOMAIN described :
       d # e => described[d].by # described[e].by /\ ~Same(Current(d), Current(e))
  /\ \A answer \in told :
       LET d == answer.response.description
       IN  /\ answer.response.status = 201 =>
                described[d].by = answer.row /\ described[d].versions[1].posting = answer.posting
           /\ answer.response.status = 409 =>
                \E v \in DOMAIN described[d].versions :
                  Same(described[d].versions[v].posting, answer.posting)
  /\ \A k \in Keys, d \in DOMAIN described :
       keyRow[k] # NoKey /\ keyRow[k].id = described[d].by =>
         keyRow[k].status = "completed" /\ keyRow[k].response = Created(d)
  /\ \A d \in DOMAIN described : LET row == described[d] IN
       /\ row.current = Len(row.versions) /\ row.lock = row.current - 1
       /\ \A v \in 1..row.current : row.versions[v].number = v /\ (v > 1 => row.versions[v].read = v - 2)
=============================================================================
