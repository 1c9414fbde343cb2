----------------------- MODULE AnalyzeIdempotencyProofs -----------------------
(***************************************************************************)
(* Theorems about AnalyzeIdempotency for every number of requests, every   *)
(* set of fingerprints and every set of bindings.                          *)
(***************************************************************************)
EXTENDS AnalyzeIdempotency, TLAPS

-----------------------------------------------------------------------------
(* Updates of well-formed rows and of the handlers' local state *)

\* A deleted row leaves a well-formed absence.
LEMMA NoRecordType == NoRecord \in Record
<1>1. (CHOOSE p \in Fingerprints : TRUE) \in Fingerprints
  BY RequestAssumption
<1> QED
  BY <1>1 DEF NoRecord, Record

\* The fields of the row, one at a time.
LEMMA RecordFlag ==
  ASSUME NEW rec \in Record, NEW s \in {"processing"} \cup Terminal, NEW b \in BOOLEAN
  PROVE  /\ [rec EXCEPT !.status = s] \in Record
         /\ [rec EXCEPT !.started = b] \in Record
         /\ [rec EXCEPT !.live = b] \in Record
         /\ [rec EXCEPT !.expired = b] \in Record
  BY DEF Record

LEMMA RecordOwner ==
  ASSUME NEW rec \in Record, NEW w \in Requests
  PROVE  /\ [rec EXCEPT !.token = w] \in Record
         /\ [rec EXCEPT !.result = w] \in Record
  BY DEF Record

LEMMA RecordBound ==
  ASSUME NEW rec \in Record, NEW d \in Bindings
  PROVE  [rec EXCEPT !.bound = d] \in Record
  BY DEF Record

\* The fields that the code writes together.
LEMMA RecordFields ==
  ASSUME NEW rec \in Record, NEW w \in Requests
  PROVE  /\ [rec EXCEPT !.status = "processing", !.token = w, !.started = FALSE,
                        !.live = TRUE, !.expired = FALSE] \in Record
         /\ [rec EXCEPT !.started = TRUE, !.live = TRUE] \in Record
         /\ [rec EXCEPT !.status = "completed", !.result = w] \in Record
<1>1. {"processing", "completed"} \subseteq {"processing"} \cup Terminal
  BY DEF Terminal
<1> DEFINE r1 == [rec EXCEPT !.status = "processing"]
           r2 == [r1 EXCEPT !.token = w]
           r3 == [r2 EXCEPT !.started = FALSE]
           r4 == [r3 EXCEPT !.live = TRUE]
           r5 == [r4 EXCEPT !.expired = FALSE]
<1>2. r1 \in Record
  BY <1>1, RecordFlag
<1>3. r2 \in Record
  BY <1>2, RecordOwner
<1>4. r3 \in Record
  <2> HIDE DEF r2
  <2> QED BY <1>3 DEF Record
<1>5. r5 \in Record
  <2> HIDE DEF r3
  <2> QED BY <1>4 DEF Record
<1>6. [rec EXCEPT !.started = TRUE, !.live = TRUE] \in Record
  BY DEF Record
<1>7. [rec EXCEPT !.status = "completed", !.result = w] \in Record
  <2>1. [rec EXCEPT !.status = "completed"] \in Record
    BY <1>1, RecordFlag
  <2> QED
    BY <2>1, RecordOwner
<1> QED
  BY <1>5, <1>6, <1>7

\* The local state of one handler, field by field.
LEMMA RequestField ==
  ASSUME NEW q \in Request, NEW pc \in Pc, NEW n \in Nat
  PROVE  /\ [q EXCEPT !.pc = pc] \in Request
         /\ [q EXCEPT !.rec = n] \in Request
         /\ [q EXCEPT !.doomed = n] \in Request
         /\ [q EXCEPT !.pc = pc, !.doomed = n] \in Request
         /\ [q EXCEPT !.pc = pc, !.rec = n] \in Request
  BY DEF Request

LEMMA RequestBound ==
  ASSUME NEW q \in Request, NEW d \in Bindings
  PROVE  [q EXCEPT !.pc = "bound", !.bound = d] \in Request
  BY DEF Request, Pc

LEMMA RequestAnswer ==
  ASSUME NEW q \in Request, NEW n \in Nat, NEW w \in Requests \cup {NoRequest}
  PROVE  /\ [q EXCEPT !.pc = "answered", !.answer = w] \in Request
         /\ [q EXCEPT !.pc = "answered", !.rec = n, !.answer = w] \in Request
<1>1. "answered" \in Pc
  BY DEF Pc
<1> DEFINE q1 == [q EXCEPT !.pc = "answered"]
           q2 == [q1 EXCEPT !.rec = n]
<1>2. q1 \in Request /\ q2 \in Request
  BY <1>1, RequestField
<1> HIDE DEF q1, q2
<1>3. [q1 EXCEPT !.answer = w] \in Request /\ [q2 EXCEPT !.answer = w] \in Request
  BY <1>2 DEF Request
<1> QED
  BY <1>3 DEF q1, q2

LEMMA SettledType ==
  ASSUME NEW rec \in Record
  PROVE  /\ [rec EXCEPT !.status = "indeterminate"] \in Record
         /\ [rec EXCEPT !.status = "failed"] \in Record
  BY DEF Record, Terminal

LEMMA EndedType == Ended \in Request
  BY DEF Ended, Request, Pc

\* Every step writes well-formed rows and local states.
LEMMA TypeStep == TypeOK /\ [Next]_vars => TypeOK'
<1> SUFFICES ASSUME TypeOK, [Next]_vars PROVE TypeOK'
  OBVIOUS
<1> USE DEF TypeOK
<1>1. CASE UNCHANGED vars
  BY <1>1 DEF vars
<1>2. CASE LeaseExpires
  <2>1. [record EXCEPT !.live = FALSE] \in Record
    BY RecordFlag DEF Terminal
  <2> QED
    BY <1>2, <2>1 DEF LeaseExpires
<1>6. CASE RetentionExpires
  <2>1. [record EXCEPT !.expired = TRUE] \in Record
    BY RecordFlag DEF Terminal
  <2> QED
    BY <1>6, <2>1 DEF RetentionExpires
<1>3. ASSUME NEW r \in Requests, Claim(r) PROVE TypeOK'
  <2> DEFINE q == request[r]
  <2>0. q \in Request /\ q.pc \in Pc /\ q.rec \in Nat
    BY DEF Request
  <2>t. record.id \in Nat /\ record.result \in Requests \cup {NoRequest}
    BY DEF Record
  <2>1. CASE CleanupSettles(r)
    <3>1. record' \in Record
      BY <2>1, SettledType DEF CleanupSettles
    <3>2. [q EXCEPT !.pc = "inserting"] \in Request
      BY <2>0, RequestField DEF Pc
    <3> QED
      BY <2>1, <3>1, <3>2 DEF CleanupSettles, Goto
  <2>2. CASE CleanupSkips(r)
    <3>2. [q EXCEPT !.pc = "inserting"] \in Request
      BY <2>0, RequestField DEF Pc
    <3> QED
      BY <2>2, <3>2 DEF CleanupSkips, Goto
  <2>3. CASE CleanupSelects(r)
    <3>2. [q EXCEPT !.pc = "deleting", !.doomed = record.id] \in Request
      BY <2>0, <2>t, RequestField DEF Pc
    <3> QED
      BY <2>3, <3>2 DEF CleanupSelects
  <2>4. CASE CleanupDeletes(r)
    <3>2. [q EXCEPT !.pc = "inserting", !.doomed = 0] \in Request
      BY <2>0, RequestField DEF Pc
    <3> QED
      BY <2>4, <3>2, NoRecordType DEF CleanupDeletes
  <2>5. CASE Insert(r)
    <3>1. record' \in Record
      BY <2>5 DEF Insert, Record
    <3>0. lastId + 1 \in Nat
      OBVIOUS
    <3>2. [q EXCEPT !.pc = "claimed", !.rec = lastId + 1] \in Request
      BY <2>0, <3>0, RequestField DEF Pc
    <3> QED
      BY <2>5, <3>1, <3>2 DEF Insert
  <2>6. CASE InsertConflicts(r)
    <3>2. [q EXCEPT !.pc = "loading"] \in Request
      BY <2>0, RequestField DEF Pc
    <3> QED
      BY <2>6, <3>2 DEF InsertConflicts, Goto
  <2>7. CASE Replay(r)
    <3>2. [q EXCEPT !.pc = "answered", !.rec = record.id, !.answer = record.result] \in Request
      BY <2>0, <2>t, RequestAnswer
    <3> QED
      BY <2>7, <3>2 DEF Replay
  <2>8. CASE OutcomeUnknown(r)
    BY <2>8, SettledType, EndedType DEF OutcomeUnknown, Leave
  <2>9. CASE ClaimRefused(r)
    BY <2>9, EndedType DEF ClaimRefused, Leave
  <2>10. CASE TakeOver(r)
    <3>1. record' \in Record
      BY <2>10, RecordFields DEF TakeOver
    <3>2. [q EXCEPT !.pc = "claimed", !.rec = record.id] \in Request
      BY <2>0, <2>t, RequestField DEF Pc
    <3> QED
      BY <2>10, <3>1, <3>2 DEF TakeOver
  <2> QED
    BY <1>3, <2>1, <2>2, <2>3, <2>4, <2>5, <2>6, <2>7, <2>8, <2>9, <2>10 DEF Claim
<1>4. ASSUME NEW r \in Requests, Attempt(r) PROVE TypeOK'
  <2> DEFINE q == request[r]
  <2>0. q \in Request /\ q.rec \in Nat
    BY DEF Request
  <2>1. ASSUME NEW b \in Bindings, Bind(r, b) PROVE TypeOK'
    <3>1. record' \in Record
      BY <2>1, RecordBound, RecordFlag DEF Bind, Terminal
    <3>2. [q EXCEPT !.pc = "bound", !.bound = b] \in Request
      BY <2>0, RequestBound
    <3> QED
      BY <2>1, <3>1, <3>2 DEF Bind
  <2>2. CASE StartProvider(r)
    <3>1. record' \in Record
      BY <2>2, RecordFields DEF StartProvider
    <3>2. [q EXCEPT !.pc = "calling"] \in Request /\ [q EXCEPT !.pc = "repairing"] \in Request
      BY <2>0, RequestField DEF Pc
    <3> QED
      BY <2>2, <3>1, <3>2 DEF StartProvider, Goto
  <2>3. ASSUME NEW kind \in {"primary", "retry", "repair"}, CallProvider(r, kind) PROVE TypeOK'
    <3>1. [q EXCEPT !.pc = "calling"] \in Request /\ [q EXCEPT !.pc = "finalizing"] \in Request
      BY <2>0, RequestField DEF Pc
    <3>2. [rec |-> q.rec, by |-> r, kind |-> kind] \in Call
      BY <2>0 DEF Call
    <3>3. calls' \in SUBSET Call
      BY <2>3, <3>2 DEF CallProvider
    <3> QED
      BY <2>3, <3>1, <3>3 DEF CallProvider, Goto
  <2>4. CASE ResultReady(r)
    <3>1. [q EXCEPT !.pc = "finalizing"] \in Request
      BY <2>0, RequestField DEF Pc
    <3> QED
      BY <2>4, <3>1 DEF ResultReady, Goto
  <2>5. CASE Finalize(r)
    <3>1. record' \in Record
      BY <2>5, RecordFields DEF Finalize
    <3>2. [q EXCEPT !.pc = "answered", !.answer = r] \in Request
      BY <2>0, RequestAnswer
    <3>3. [rec |-> record.id, by |-> r] \in [rec: Nat, by: Requests]
      BY DEF Record
    <3>4. history' \in SUBSET [rec: Nat, by: Requests]
      BY <2>5, <3>3 DEF Finalize
    <3> QED
      BY <2>5, <3>1, <3>2, <3>4 DEF Finalize
  <2>6. CASE AttemptFails(r)
    <3>1. [q EXCEPT !.pc = "failing"] \in Request
      BY <2>0, RequestField DEF Pc
    <3> QED
      BY <2>6, <3>1 DEF AttemptFails, Goto
  <2>7. CASE FailUnfinalized(r)
    <3>1. record' \in Record
      BY <2>7, SettledType DEF FailUnfinalized
    <3> QED
      BY <2>7, <3>1, EndedType DEF FailUnfinalized, Leave
  <2> QED
    BY <1>4, <2>1, <2>2, <2>3, <2>4, <2>5, <2>6, <2>7 DEF Attempt
<1>5. ASSUME NEW r \in Requests, Die(r) PROVE TypeOK'
  BY <1>5, EndedType DEF Die, Leave
<1> QED
  BY <1>1, <1>2, <1>3, <1>4, <1>5, <1>6 DEF Next

\* TypeOK holds in every behaviour: no step leaves the ledger row, a handler's local
\* state, the provider calls or the History rows malformed.
THEOREM TypeCorrect == Spec => []TypeOK
<1>1. Init => TypeOK
  <2> SUFFICES ASSUME Init PROVE TypeOK
    OBVIOUS
  <2>1. record \in Record
    BY NoRecordType DEF Init
  <2>2. request \in [Requests -> Request]
    BY DEF Init, Request, Pc
  <2> QED
    BY <2>1, <2>2 DEF Init, TypeOK
<1> QED
  BY <1>1, TypeStep, PTL DEF Spec

-----------------------------------------------------------------------------
(* Who may have crossed the provider boundary *)

\* Request r has called the provider on behalf of row i, or is about to.
Crossed(i, r) ==
  \/ \E c \in calls : c.rec = i /\ c.by = r
  \/ request[r].pc \in {"calling", "repairing"} /\ request[r].rec = i

\* Row ids are drawn once: whatever a handler or a call names was drawn before.
Drawn ==
  /\ record.id <= lastId
  /\ \A r \in Requests : request[r].rec <= lastId
  /\ \A r \in Requests : request[r].pc \in Attempting => request[r].rec # 0
  /\ \A c \in calls : c.rec <= lastId /\ c.rec # 0

\* One request at most crosses for a row.
OneBoundary ==
  \A i \in Nat, r, q \in Requests : Crossed(i, r) /\ Crossed(i, q) => r = q

\* While the row exists, it remembers that somebody crossed: it is settled for good, or
\* it is processing, started, and carries the token of the one who did.
CrossedRow ==
  \A r \in Requests :
    record.id # 0 /\ Crossed(record.id, r) =>
      \/ record.status \in {"completed", "indeterminate"}
      \/ record.status = "processing" /\ record.started /\ record.token = r

BoundaryInv == TypeOK /\ Drawn /\ OneBoundary /\ CrossedRow

\* A step after which nobody has crossed who had not, and which keeps the memory of the
\* row, keeps the invariant: all steps but three are of this form.
LEMMA NoCrossing ==
  ASSUME BoundaryInv, TypeOK', Drawn',
         \A i \in Nat, r \in Requests : Crossed(i, r)' => Crossed(i, r),
         \/ record'.id = 0
         \/ /\ record'.id = record.id
            /\ record.status \in {"completed", "indeterminate"} => record'.status = record.status
            /\ record.status = "processing" /\ record.started =>
                 \/ record'.status \in {"completed", "indeterminate"}
                 \/ /\ record'.status = "processing" /\ record'.started
                    /\ record'.token = record.token
  PROVE  BoundaryInv'
<1>1. OneBoundary'
  BY DEF BoundaryInv, OneBoundary
<1>2. CrossedRow'
  <2> SUFFICES ASSUME NEW r \in Requests, record'.id # 0, Crossed(record.id, r)'
               PROVE  \/ record'.status \in {"completed", "indeterminate"}
                      \/ record'.status = "processing" /\ record'.started /\ record'.token = r
    BY DEF CrossedRow
  <2>1. record.id \in Nat /\ record'.id = record.id
    BY DEF BoundaryInv, TypeOK, Record
  <2>2. Crossed(record.id, r)
    BY <2>1 DEF Crossed
  <2> QED
    BY <2>1, <2>2 DEF BoundaryInv, CrossedRow
<1> QED
  BY <1>1, <1>2 DEF BoundaryInv

\* Every step draws a new id, or hands on one that was drawn.
LEMMA DrawnStep == TypeOK /\ Drawn /\ [Next]_vars => Drawn'
<1> SUFFICES ASSUME TypeOK, Drawn, [Next]_vars PROVE Drawn'
  OBVIOUS
<1> USE DEF TypeOK, Drawn
<1>0. /\ record.id \in Nat /\ lastId \in Nat
      /\ \A q \in Requests : request[q] \in Request /\ request[q].rec \in Nat
  BY DEF Record, Request
<1>1. CASE UNCHANGED vars
  BY <1>1 DEF vars
<1>2. CASE LeaseExpires
  BY <1>2, <1>0 DEF LeaseExpires, Record
<1>3. CASE RetentionExpires
  BY <1>3, <1>0 DEF RetentionExpires, Record
<1>4. ASSUME NEW r \in Requests, Claim(r) PROVE Drawn'
  <2>1. CASE CleanupSettles(r)
    BY <2>1, <1>0 DEF CleanupSettles, Goto, Request, Record, Attempting
  <2>2. CASE CleanupSkips(r)
    BY <2>2, <1>0 DEF CleanupSkips, Goto, Request, Record, Attempting
  <2>3. CASE CleanupSelects(r)
    BY <2>3, <1>0 DEF CleanupSelects, Request, Record, Attempting
  <2>4. CASE CleanupDeletes(r)
    BY <2>4, <1>0 DEF CleanupDeletes, NoRecord, Request, Record, Attempting
  <2>5. CASE Insert(r)
    BY <2>5, <1>0 DEF Insert, Request, Record, Attempting
  <2>6. CASE InsertConflicts(r)
    BY <2>6, <1>0 DEF InsertConflicts, Goto, Request, Record, Attempting
  <2>7. CASE Replay(r)
    BY <2>7, <1>0 DEF Replay, Loads, Request, Record, Attempting
  <2>8. CASE OutcomeUnknown(r)
    BY <2>8, <1>0 DEF OutcomeUnknown, Leave, Ended, Request, Record, Attempting
  <2>9. CASE ClaimRefused(r)
    BY <2>9, <1>0 DEF ClaimRefused, Leave, Ended, Request, Record, Attempting
  <2>10. CASE TakeOver(r)
    BY <2>10, <1>0 DEF TakeOver, Loads, Request, Record, Attempting
  <2> QED
    BY <1>4, <2>1, <2>2, <2>3, <2>4, <2>5, <2>6, <2>7, <2>8, <2>9, <2>10 DEF Claim
<1>5. ASSUME NEW r \in Requests, Attempt(r) PROVE Drawn'
  <2>1. ASSUME NEW b \in Bindings, Bind(r, b) PROVE Drawn'
    BY <2>1, <1>0 DEF Bind, At, Request, Record, Attempting
  <2>2. CASE StartProvider(r)
    BY <2>2, <1>0 DEF StartProvider, At, Goto, Request, Record, Attempting
  <2>3. ASSUME NEW kind \in {"primary", "retry", "repair"}, CallProvider(r, kind) PROVE Drawn'
    BY <2>3, <1>0 DEF CallProvider, At, Goto, Request, Record, Attempting, Call
  <2>4. CASE ResultReady(r)
    BY <2>4, <1>0 DEF ResultReady, Goto, At, Request, Record, Attempting
  <2>5. CASE Finalize(r)
    BY <2>5, <1>0 DEF Finalize, At, Request, Record, Attempting
  <2>6. CASE AttemptFails(r)
    BY <2>6, <1>0 DEF AttemptFails, Goto, Request, Record, Attempting
  <2>7. CASE FailUnfinalized(r)
    BY <2>7, <1>0 DEF FailUnfinalized, Leave, Ended, Request, Record, Attempting
  <2> QED
    BY <1>5, <2>1, <2>2, <2>3, <2>4, <2>5, <2>6, <2>7 DEF Attempt
<1>6. ASSUME NEW r \in Requests, Die(r) PROVE Drawn'
  BY <1>6, <1>0 DEF Die, Leave, Ended, Request, Attempting
<1> QED
  BY <1>1, <1>2, <1>3, <1>4, <1>5, <1>6 DEF Next

\* The token decides who crosses: a row is taken over only while nobody has crossed for
\* it, and once somebody has, only he may cross again.
LEMMA BoundaryStep == BoundaryInv /\ [Next]_vars => BoundaryInv'
<1> SUFFICES ASSUME BoundaryInv, [Next]_vars PROVE BoundaryInv'
  OBVIOUS
<1>0. /\ TypeOK' /\ Drawn' /\ TypeOK /\ Drawn /\ OneBoundary /\ CrossedRow
      /\ record \in Record /\ record.id \in Nat
      /\ \A q \in Requests : request[q] \in Request /\ request[q].rec \in Nat
      /\ request \in [Requests -> Request]
  BY TypeStep, DrawnStep DEF BoundaryInv, TypeOK, Record, Request
<1>1. CASE UNCHANGED vars \/ LeaseExpires \/ RetentionExpires
  <2>1. \A i \in Nat, q \in Requests : Crossed(i, q)' => Crossed(i, q)
    BY <1>1 DEF vars, LeaseExpires, RetentionExpires, Crossed
  <2> QED
    BY <1>0, <1>1, <2>1, NoCrossing DEF vars, LeaseExpires, RetentionExpires, Record
<1>2. ASSUME NEW r \in Requests, Claim(r) PROVE BoundaryInv'
  <2>0. \A i \in Nat, q \in Requests : Crossed(i, q)' => Crossed(i, q)
    <3>1. CASE CleanupSettles(r)
      BY <1>0, <3>1 DEF CleanupSettles, Goto, Crossed
    <3>2. CASE CleanupSkips(r)
      BY <1>0, <3>2 DEF CleanupSkips, Goto, Crossed
    <3>3. CASE CleanupSelects(r)
      BY <1>0, <3>3 DEF CleanupSelects, Crossed
    <3>4. CASE CleanupDeletes(r)
      BY <1>0, <3>4 DEF CleanupDeletes, Crossed
    <3>5. CASE Insert(r)
      BY <1>0, <3>5 DEF Insert, Crossed
    <3>6. CASE InsertConflicts(r)
      BY <1>0, <3>6 DEF InsertConflicts, Goto, Crossed
    <3>7. CASE Replay(r)
      BY <1>0, <3>7 DEF Replay, Crossed
    <3>8. CASE OutcomeUnknown(r)
      BY <1>0, <3>8 DEF OutcomeUnknown, Leave, Ended, Crossed
    <3>9. CASE ClaimRefused(r)
      BY <1>0, <3>9 DEF ClaimRefused, Leave, Ended, Crossed
    <3>10. CASE TakeOver(r)
      BY <1>0, <3>10 DEF TakeOver, Crossed
    <3> QED
      BY <1>2, <3>1, <3>2, <3>3, <3>4, <3>5, <3>6, <3>7, <3>8, <3>9, <3>10 DEF Claim
  <2>1. CASE CleanupSettles(r)
    BY <1>0, <2>0, <2>1, NoCrossing DEF CleanupSettles, Stale, Record
  <2>2. CASE CleanupSkips(r) \/ CleanupSelects(r) \/ InsertConflicts(r) \/ Replay(r) \/ ClaimRefused(r)
    BY <1>0, <2>0, <2>2, NoCrossing
    DEF CleanupSkips, CleanupSelects, InsertConflicts, Replay, ClaimRefused
  <2>3. CASE CleanupDeletes(r)
    BY <1>0, <2>0, <2>3, NoCrossing DEF CleanupDeletes, NoRecord
  <2>4. CASE OutcomeUnknown(r)
    BY <1>0, <2>0, <2>4, NoCrossing DEF OutcomeUnknown, Stale, Record
  <2>5. CASE Insert(r)
    <3>1. record'.id = lastId + 1
      BY <2>5 DEF Insert
    <3>2. \A q \in Requests : ~Crossed(lastId + 1, q)
      BY <1>0 DEF Crossed, Drawn, TypeOK, Call
    <3>3. CrossedRow'
      <4> SUFFICES ASSUME NEW q \in Requests, Crossed(record.id, q)' PROVE FALSE
        BY DEF CrossedRow
      <4>1. lastId + 1 \in Nat
        BY <1>0 DEF TypeOK
      <4> QED
        BY <2>0, <3>1, <3>2, <4>1 DEF Crossed
    <3>4. OneBoundary'
      BY <1>0, <2>0 DEF OneBoundary
    <3> QED
      BY <1>0, <3>3, <3>4 DEF BoundaryInv
  <2>6. CASE TakeOver(r)
    <3>1. \A q \in Requests : ~Crossed(record.id, q)
      BY <1>0, <2>6 DEF TakeOver, Loads, Stale, CrossedRow
    <3>2. record'.id = record.id
      BY <1>0, <2>6 DEF TakeOver, Record
    <3>3. CrossedRow'
      <4> SUFFICES ASSUME NEW q \in Requests, Crossed(record.id, q)' PROVE FALSE
        BY DEF CrossedRow
      <4> QED
        BY <1>0, <2>0, <3>1, <3>2 DEF Crossed
    <3>4. OneBoundary'
      BY <1>0, <2>0 DEF OneBoundary
    <3> QED
      BY <1>0, <3>3, <3>4 DEF BoundaryInv
  <2> QED
    BY <1>2, <2>1, <2>2, <2>3, <2>4, <2>5, <2>6 DEF Claim
<1>3. ASSUME NEW r \in Requests, StartProvider(r) PROVE BoundaryInv'
  <2>1. /\ record.id = request[r].rec /\ record.status = "processing" /\ record.token = r
        /\ record.id # 0
    BY <1>0, <1>3 DEF StartProvider, Holds, Current, At, Drawn, Attempting
  <2>2. /\ record'.id = record.id /\ record'.status = "processing"
        /\ record'.token = r /\ record'.started
    BY <1>0, <1>3, <2>1 DEF StartProvider, Record
  <2>3. \A i \in Nat, q \in Requests :
          Crossed(i, q)' => Crossed(i, q) \/ (i = record.id /\ q = r)
    BY <1>0, <1>3, <2>1 DEF StartProvider, Goto, Crossed
  <2>4. \A q \in Requests : Crossed(record.id, q) => q = r
    BY <1>0, <2>1 DEF CrossedRow
  <2>5. OneBoundary'
    BY <1>0, <2>3, <2>4 DEF OneBoundary
  <2>6. CrossedRow'
    <3> SUFFICES ASSUME NEW q \in Requests, Crossed(record.id, q)' PROVE q = r
      BY <2>2 DEF CrossedRow
    <3>1. Crossed(record.id, q) \/ q = r
      BY <1>0, <2>2, <2>3 DEF Crossed
    <3> QED
      BY <3>1, <2>4
  <2> QED
    BY <1>0, <2>5, <2>6 DEF BoundaryInv
<1>4. ASSUME NEW r \in Requests, NEW kind \in {"primary", "retry", "repair"}, CallProvider(r, kind)
      PROVE BoundaryInv'
  <2>1. request[r].pc \in {"calling", "repairing"}
    BY <1>4 DEF CallProvider, At
  <2>2. \A i \in Nat, q \in Requests : Crossed(i, q)' => Crossed(i, q)
    BY <1>0, <1>4, <2>1 DEF CallProvider, Goto, Crossed
  <2> QED
    BY <1>0, <1>4, <2>2, NoCrossing DEF CallProvider
<1>5. ASSUME NEW r \in Requests,
             (\E b \in Bindings : Bind(r, b)) \/ ResultReady(r) \/ Finalize(r) \/ AttemptFails(r)
               \/ FailUnfinalized(r) \/ Die(r)
      PROVE BoundaryInv'
  <2>1. ASSUME NEW b \in Bindings, Bind(r, b) PROVE BoundaryInv'
    <3>1. \A i \in Nat, q \in Requests : Crossed(i, q)' => Crossed(i, q)
      BY <1>0, <2>1 DEF Bind, Crossed
    <3> QED
      BY <1>0, <2>1, <3>1, NoCrossing DEF Bind, Record
  <2>2. CASE ResultReady(r) \/ AttemptFails(r)
    <3>1. \A i \in Nat, q \in Requests : Crossed(i, q)' => Crossed(i, q)
      <4>1. \A q \in Requests \ {r} : request'[q] = request[q]
        BY <1>0, <2>2 DEF ResultReady, AttemptFails, Goto
      <4>2. request'[r].pc \in {"finalizing", "failing"} /\ calls' = calls
        BY <1>0, <2>2 DEF ResultReady, AttemptFails, Goto, Request
      <4> QED
        BY <4>1, <4>2 DEF Crossed
    <3> QED
      BY <1>0, <2>2, <3>1, NoCrossing DEF ResultReady, AttemptFails
  <2>3. CASE Finalize(r)
    <3>1. \A i \in Nat, q \in Requests : Crossed(i, q)' => Crossed(i, q)
      BY <1>0, <2>3 DEF Finalize, Crossed
    <3> QED
      BY <1>0, <2>3, <3>1, NoCrossing DEF Finalize, Holds, Current, Record
  <2>4. CASE FailUnfinalized(r)
    <3>1. \A i \in Nat, q \in Requests : Crossed(i, q)' => Crossed(i, q)
      BY <1>0, <2>4 DEF FailUnfinalized, Leave, Ended, Crossed
    <3> QED
      BY <1>0, <2>4, <3>1, NoCrossing DEF FailUnfinalized, Current, Record
  <2>5. CASE Die(r)
    <3>1. \A i \in Nat, q \in Requests : Crossed(i, q)' => Crossed(i, q)
      BY <1>0, <2>5 DEF Die, Leave, Ended, Crossed
    <3> QED
      BY <1>0, <2>5, <3>1, NoCrossing DEF Die
  <2> QED
    BY <1>5, <2>1, <2>2, <2>3, <2>4, <2>5
<1> QED
  BY <1>1, <1>2, <1>3, <1>4, <1>5 DEF Next, Attempt

\* BoundaryInv holds in every behaviour.
LEMMA BoundaryKept == Spec => []BoundaryInv
<1>1. Init => BoundaryInv
  <2> SUFFICES ASSUME Init PROVE BoundaryInv
    OBVIOUS
  <2>1. TypeOK
    BY NoRecordType DEF Init, TypeOK, Request, Pc
  <2>2. record.id = 0 /\ lastId = 0 /\ calls = {}
    BY DEF Init, NoRecord
  <2>3. \A r \in Requests : request[r].pc = "cleanup" /\ request[r].rec = 0
    BY DEF Init
  <2> QED
    BY <2>1, <2>2, <2>3 DEF BoundaryInv, Drawn, OneBoundary, CrossedRow, Crossed, Attempting
<1> QED
  BY <1>1, BoundaryStep, PTL DEF Spec

\* OneAttemptCalls holds in every behaviour: whatever crashes, leases that run out,
\* takeovers, clean-ups and late attempts happen, two requests never pay the provider on
\* behalf of the same row (claim, provider_started).
THEOREM OnlyOnePays == Spec => []OneAttemptCalls
<1>1. BoundaryInv => OneAttemptCalls
  <2> SUFFICES ASSUME BoundaryInv, NEW c \in calls, NEW d \in calls, c.rec = d.rec
               PROVE  c.by = d.by
    BY DEF OneAttemptCalls
  <2>1. c.rec \in Nat /\ c.by \in Requests /\ d.by \in Requests
    BY DEF BoundaryInv, TypeOK, Call
  <2>2. Crossed(c.rec, c.by) /\ Crossed(c.rec, d.by)
    BY DEF Crossed
  <2> QED
    BY <2>1, <2>2 DEF BoundaryInv, OneBoundary
<1> QED
  BY <1>1, BoundaryKept, PTL

\* RetryableMeansUnpaid holds in every behaviour: a row that a later request may execute
\* again has no provider call behind it (fail_unfinalized, cleanup, claim).
THEOREM RetriesAreUnpaid == Spec => []RetryableMeansUnpaid
<1>1. BoundaryInv => RetryableMeansUnpaid
  <2> SUFFICES ASSUME BoundaryInv, NEW c \in calls, c.rec = record.id,
                      record.status = "failed" \/ (record.status = "processing" /\ ~record.started)
               PROVE  FALSE
    BY DEF RetryableMeansUnpaid
  <2>1. c.by \in Requests /\ record.id # 0
    BY DEF BoundaryInv, TypeOK, Call, Drawn
  <2>2. Crossed(record.id, c.by)
    BY DEF Crossed
  <2> QED
    BY <2>1, <2>2 DEF BoundaryInv, CrossedRow
<1> QED
  BY <1>1, BoundaryKept, PTL

-----------------------------------------------------------------------------
(* What is stored, and who is told *)

\* An existing row belongs to a request that asked for what the row is about.
Owner ==
  /\ record.id = 0 <=> record.status = "none"
  /\ record.id # 0 => record.token \in Requests /\ print[record.token] = record.print

\* An attempt past bind_execution remembers its binding.
BoundAttempts ==
  \A r \in Requests :
    request[r].pc \in {"bound", "calling", "repairing", "finalizing"} => request[r].bound \in Bindings

\* A completed row holds the result of the request that owns it.
Stored ==
  record.status = "completed" =>
    /\ record.result = record.token
    /\ request[record.result].pc = "answered"
    /\ request[record.result].bound = record.bound
    /\ record.bound \in Bindings
    /\ [rec |-> record.id, by |-> record.result] \in history

\* History has one entry for a row, and none for a row that is not completed.
HistoryOnce ==
  \A h \in history :
    /\ h.rec # 0 /\ h.rec <= lastId
    /\ h.rec = record.id => record.status = "completed" /\ h.by = record.result
    /\ \A g \in history : g.rec = h.rec => g.by = h.by

\* Whoever was answered got what History has for his row, and had asked for it.
Answered ==
  \A r \in Requests :
    request[r].pc = "answered" =>
      /\ request[r].answer \in Requests
      /\ [rec |-> request[r].rec, by |-> request[r].answer] \in history
      /\ print[request[r].answer] = print[r]

AnswerInv == TypeOK /\ Drawn /\ Owner /\ BoundAttempts /\ Stored /\ HistoryOnce /\ Answered

\* A step that stores nothing, answers nobody and leaves the owner of the row alone.
LEMMA QuietStep ==
  ASSUME AnswerInv, TypeOK', Drawn', BoundAttempts',
         history' = history, print' = print, lastId' = lastId,
         \A q \in Requests : request'[q].pc = "answered" => request[q].pc = "answered",
         \A q \in Requests : request[q].pc = "answered" => request'[q] = request[q],
         \/ record'.id = 0 /\ record'.status = "none"
         \/ /\ record'.id = record.id /\ record'.print = record.print /\ record'.token = record.token
            /\ record'.status = "none" <=> record.status = "none"
            /\ record'.status = "completed" <=> record.status = "completed"
            /\ record.status = "completed" =>
                 record'.result = record.result /\ record'.bound = record.bound
  PROVE  AnswerInv'
<1> USE DEF AnswerInv
<1>1. Owner'
  BY DEF Owner
<1>2. Stored'
  BY DEF Stored, Owner, TypeOK, Record
<1>3. HistoryOnce'
  BY DEF HistoryOnce, Stored
<1>4. Answered'
  BY DEF Answered
<1> QED
  BY <1>1, <1>2, <1>3, <1>4

\* A binding is remembered from bind_execution until the handler leaves.
LEMMA BoundStep == TypeOK /\ BoundAttempts /\ [Next]_vars => BoundAttempts'
<1> SUFFICES ASSUME TypeOK, BoundAttempts, [Next]_vars PROVE BoundAttempts'
  OBVIOUS
<1>0. request \in [Requests -> Request] /\ \A q \in Requests : request[q] \in Request
  BY DEF TypeOK
<1>1. CASE UNCHANGED vars \/ LeaseExpires \/ RetentionExpires
  BY <1>1 DEF vars, LeaseExpires, RetentionExpires, BoundAttempts
<1>2. ASSUME NEW r \in Requests, Claim(r) PROVE BoundAttempts'
  <2>1. /\ \A q \in Requests \ {r} : request'[q] = request[q]
        /\ request'[r].pc \notin {"bound", "calling", "repairing", "finalizing"}
    <3>1. CASE CleanupSettles(r)
      BY <1>0, <3>1 DEF CleanupSettles, Goto, Request
    <3>2. CASE CleanupSkips(r)
      BY <1>0, <3>2 DEF CleanupSkips, Goto, Request
    <3>3. CASE CleanupSelects(r)
      BY <1>0, <3>3 DEF CleanupSelects, Request
    <3>4. CASE CleanupDeletes(r)
      BY <1>0, <3>4 DEF CleanupDeletes, Request
    <3>5. CASE Insert(r)
      BY <1>0, <3>5 DEF Insert, Request
    <3>6. CASE InsertConflicts(r)
      BY <1>0, <3>6 DEF InsertConflicts, Goto, Request
    <3>7. CASE Replay(r)
      BY <1>0, <3>7 DEF Replay, Request
    <3>8. CASE OutcomeUnknown(r)
      BY <1>0, <3>8 DEF OutcomeUnknown, Leave, Ended, Request
    <3>9. CASE ClaimRefused(r)
      BY <1>0, <3>9 DEF ClaimRefused, Leave, Ended, Request
    <3>10. CASE TakeOver(r)
      BY <1>0, <3>10 DEF TakeOver, Request
    <3> QED
      BY <1>2, <3>1, <3>2, <3>3, <3>4, <3>5, <3>6, <3>7, <3>8, <3>9, <3>10 DEF Claim
  <2> QED
    BY <2>1 DEF BoundAttempts
<1>3. ASSUME NEW r \in Requests, Attempt(r) \/ Die(r) PROVE BoundAttempts'
  <2>1. ASSUME NEW b \in Bindings, Bind(r, b) PROVE BoundAttempts'
    BY <1>0, <2>1 DEF Bind, BoundAttempts, Request
  <2>2. CASE StartProvider(r)
    BY <1>0, <2>2 DEF StartProvider, At, Goto, BoundAttempts, Request
  <2>3. ASSUME NEW kind \in {"primary", "retry", "repair"}, CallProvider(r, kind)
        PROVE  BoundAttempts'
    BY <1>0, <2>3 DEF CallProvider, At, Goto, BoundAttempts, Request
  <2>4. CASE ResultReady(r)
    BY <1>0, <2>4 DEF ResultReady, At, Goto, BoundAttempts, Request
  <2>5. CASE Finalize(r)
    BY <1>0, <2>5 DEF Finalize, BoundAttempts, Request
  <2>6. CASE AttemptFails(r)
    BY <1>0, <2>6 DEF AttemptFails, Goto, BoundAttempts, Request
  <2>7. CASE FailUnfinalized(r) \/ Die(r)
    BY <1>0, <2>7 DEF FailUnfinalized, Die, Leave, Ended, BoundAttempts
  <2> QED
    BY <1>3, <2>1, <2>2, <2>3, <2>4, <2>5, <2>6, <2>7 DEF Attempt
<1> QED
  BY <1>1, <1>2, <1>3 DEF Next

\* A row is handed on only while it is not completed, and is completed once, by its owner.
LEMMA AnswerStep == AnswerInv /\ [Next]_vars => AnswerInv'
<1> SUFFICES ASSUME AnswerInv, [Next]_vars PROVE AnswerInv'
  OBVIOUS
<1>0. /\ TypeOK' /\ Drawn' /\ BoundAttempts'
      /\ TypeOK /\ Drawn /\ BoundAttempts /\ Owner /\ Stored /\ HistoryOnce /\ Answered
      /\ record \in Record /\ record.id \in Nat /\ lastId \in Nat
      /\ request \in [Requests -> Request] /\ \A q \in Requests : request[q] \in Request
  BY TypeStep, DrawnStep, BoundStep DEF AnswerInv, TypeOK, Record
<1>1. CASE UNCHANGED vars \/ LeaseExpires \/ RetentionExpires
  BY <1>0, <1>1, QuietStep DEF vars, LeaseExpires, RetentionExpires, Record
<1>2. ASSUME NEW r \in Requests, CleanupSettles(r) \/ CleanupSkips(r) \/ CleanupSelects(r)
                                  \/ InsertConflicts(r) \/ OutcomeUnknown(r) \/ ClaimRefused(r)
      PROVE AnswerInv'
  <2>1. CASE CleanupSettles(r)
    BY <1>0, <2>1, QuietStep DEF CleanupSettles, At, Goto, Stale, Record, Request
  <2>2. CASE CleanupSkips(r)
    BY <1>0, <2>2, QuietStep DEF CleanupSkips, At, Goto, Request
  <2>3. CASE CleanupSelects(r)
    BY <1>0, <2>3, QuietStep DEF CleanupSelects, At, Request
  <2>4. CASE InsertConflicts(r)
    BY <1>0, <2>4, QuietStep DEF InsertConflicts, At, Goto, Request
  <2>5. CASE OutcomeUnknown(r)
    BY <1>0, <2>5, QuietStep DEF OutcomeUnknown, Loads, At, Leave, Ended, Stale, Record
  <2>6. CASE ClaimRefused(r)
    BY <1>0, <2>6, QuietStep DEF ClaimRefused, At, Leave, Ended
  <2> QED
    BY <1>2, <2>1, <2>2, <2>3, <2>4, <2>5, <2>6
<1>3. ASSUME NEW r \in Requests, CleanupDeletes(r) PROVE AnswerInv'
  BY <1>0, <1>3, QuietStep DEF CleanupDeletes, At, NoRecord, Request
<1>4. ASSUME NEW r \in Requests, Insert(r) PROVE AnswerInv'
  <2>1. /\ record'.id = lastId + 1 /\ record'.status = "processing" /\ record'.token = r
        /\ record'.print = print[r] /\ lastId' = lastId + 1 /\ history' = history /\ print' = print
    BY <1>4 DEF Insert
  <2>2. /\ \A q \in Requests \ {r} : request'[q] = request[q]
        /\ request'[r].pc = "claimed" /\ request[r].pc # "answered"
    BY <1>0, <1>4 DEF Insert, At, Request
  <2>3. HistoryOnce'
    BY <1>0, <2>1 DEF HistoryOnce, TypeOK
  <2>4. Answered'
    BY <1>0, <2>1, <2>2 DEF Answered
  <2> QED
    BY <1>0, <2>1, <2>3, <2>4 DEF AnswerInv, Owner, Stored
<1>5. ASSUME NEW r \in Requests, TakeOver(r) PROVE AnswerInv'
  <2>1. /\ record'.id = record.id /\ record'.status = "processing" /\ record'.token = r
        /\ record'.print = record.print /\ record.print = print[r] /\ record.id # 0
        /\ record.status # "completed"
        /\ lastId' = lastId /\ history' = history /\ print' = print
    BY <1>0, <1>5 DEF TakeOver, Loads, Stale, Record
  <2>2. /\ \A q \in Requests \ {r} : request'[q] = request[q]
        /\ request'[r].pc = "claimed"
    BY <1>0, <1>5 DEF TakeOver, Request
  <2>3. HistoryOnce'
    BY <1>0, <2>1 DEF HistoryOnce
  <2>4. Answered'
    BY <1>0, <2>1, <2>2 DEF Answered
  <2> QED
    BY <1>0, <2>1, <2>3, <2>4 DEF AnswerInv, Owner, Stored
<1>6. ASSUME NEW r \in Requests, Replay(r) PROVE AnswerInv'
  <2>1. /\ record' = record /\ record.status = "completed" /\ record.print = print[r]
        /\ record.id # 0
        /\ lastId' = lastId /\ history' = history /\ print' = print
        /\ request[r].pc = "loading"
    BY <1>0, <1>6 DEF Replay, Loads, At
  <2>2. /\ \A q \in Requests \ {r} : request'[q] = request[q]
        /\ request'[r].rec = record.id /\ request'[r].answer = record.result
    BY <1>0, <1>6 DEF Replay, Request
  <2>3. /\ record.result \in Requests /\ print[record.result] = record.print
        /\ [rec |-> record.id, by |-> record.result] \in history
        /\ record.result # r
    BY <1>0, <2>1 DEF Stored, Owner
  <2>4. Answered'
    BY <1>0, <2>1, <2>2, <2>3 DEF Answered
  <2>5. Stored'
    BY <1>0, <2>1, <2>2, <2>3 DEF Stored
  <2>6. HistoryOnce' /\ Owner'
    BY <1>0, <2>1 DEF HistoryOnce, Owner
  <2> QED
    BY <1>0, <2>4, <2>5, <2>6 DEF AnswerInv
<1>7. ASSUME NEW r \in Requests, Finalize(r) PROVE AnswerInv'
  <2>1. /\ record.status = "processing" /\ record.token = r /\ record.id = request[r].rec
        /\ record.bound = request[r].bound /\ request[r].pc = "finalizing"
        /\ lastId' = lastId /\ print' = print
    BY <1>7 DEF Finalize, Holds, Current, At
  <2>2. /\ record'.id = record.id /\ record'.status = "completed" /\ record'.token = r
        /\ record'.result = r /\ record'.print = record.print /\ record'.bound = record.bound
    BY <1>0, <1>7, <2>1 DEF Finalize, Record
  <2>3. /\ \A q \in Requests \ {r} : request'[q] = request[q]
        /\ request'[r].pc = "answered" /\ request'[r].answer = r
        /\ request'[r].rec = record.id /\ request'[r].bound = record.bound
    BY <1>0, <1>7, <2>1 DEF Finalize, Request
  <2>4. history' = history \cup {[rec |-> record.id, by |-> r]}
    BY <1>7 DEF Finalize
  <2>5. record.id # 0 /\ record.id <= lastId /\ record.bound \in Bindings
    BY <1>0, <2>1 DEF Owner, Drawn, BoundAttempts
  <2>6. \A h \in history : h.rec # record.id
    BY <1>0, <2>1 DEF HistoryOnce
  <2>7. HistoryOnce'
    <3> SUFFICES ASSUME NEW h \in history'
                 PROVE  /\ h.rec # 0 /\ h.rec <= lastId
                        /\ h.rec = record.id => h.by = r
                        /\ \A g \in history' : g.rec = h.rec => g.by = h.by
      BY <2>1, <2>2 DEF HistoryOnce
    <3>1. CASE h \in history
      BY <1>0, <2>4, <2>6, <3>1 DEF HistoryOnce
    <3>2. CASE h = [rec |-> record.id, by |-> r]
      BY <2>4, <2>5, <2>6, <3>2
    <3> QED
      BY <2>4, <3>1, <3>2
  <2>8. Answered'
    BY <1>0, <2>1, <2>3, <2>4 DEF Answered
  <2>9. Stored' /\ Owner'
    BY <1>0, <2>1, <2>2, <2>3, <2>4, <2>5 DEF Stored, Owner
  <2> QED
    BY <1>0, <2>7, <2>8, <2>9 DEF AnswerInv
<1>8. ASSUME NEW r \in Requests,
             (\E b \in Bindings : Bind(r, b)) \/ StartProvider(r) \/ ResultReady(r) \/ AttemptFails(r)
               \/ FailUnfinalized(r) \/ Die(r)
               \/ \E kind \in {"primary", "retry", "repair"} : CallProvider(r, kind)
      PROVE AnswerInv'
  <2>1. ASSUME NEW b \in Bindings, Bind(r, b) PROVE AnswerInv'
    BY <1>0, <2>1, QuietStep DEF Bind, At, Current, Record, Request
  <2>2. CASE StartProvider(r)
    BY <1>0, <2>2, QuietStep DEF StartProvider, At, Goto, Record, Request
  <2>3. CASE ResultReady(r)
    BY <1>0, <2>3, QuietStep DEF ResultReady, At, Goto, Request
  <2>4. CASE AttemptFails(r)
    BY <1>0, <2>4, QuietStep DEF AttemptFails, Attempting, Goto, Request
  <2>5. CASE FailUnfinalized(r)
    BY <1>0, <2>5, QuietStep DEF FailUnfinalized, At, Leave, Ended, Current, Record
  <2>6. CASE Die(r)
    BY <1>0, <2>6, QuietStep DEF Die, Attempting, Leave, Ended
  <2>7. ASSUME NEW kind \in {"primary", "retry", "repair"}, CallProvider(r, kind) PROVE AnswerInv'
    BY <1>0, <2>7, QuietStep DEF CallProvider, At, Goto, Request
  <2> QED
    BY <1>8, <2>1, <2>2, <2>3, <2>4, <2>5, <2>6, <2>7
<1> QED
  BY <1>1, <1>2, <1>3, <1>4, <1>5, <1>6, <1>7, <1>8 DEF Next, Claim, Attempt

\* AnswerInv holds in every behaviour.
LEMMA AnswerKept == Spec => []AnswerInv
<1>1. Init => AnswerInv
  <2> SUFFICES ASSUME Init PROVE AnswerInv
    OBVIOUS
  <2>1. TypeOK
    BY NoRecordType DEF Init, TypeOK, Request, Pc
  <2>2. record.id = 0 /\ record.status = "none" /\ lastId = 0 /\ calls = {} /\ history = {}
    BY DEF Init, NoRecord
  <2>3. \A r \in Requests : request[r].pc = "cleanup" /\ request[r].rec = 0
    BY DEF Init
  <2> QED
    BY <2>1, <2>2, <2>3
    DEF AnswerInv, Drawn, Attempting, Owner, BoundAttempts, Stored, HistoryOnce, Answered
<1> QED
  BY <1>1, AnswerStep, PTL DEF Spec

\* OneAnswer holds in every behaviour: a replay returns the result stored for the same
\* request, and no client of a row is told anything else (claim, finalize).
THEOREM ReplaysAgree == Spec => []OneAnswer
<1>1. AnswerInv => OneAnswer
  <2> SUFFICES ASSUME AnswerInv, NEW r \in Requests, NEW q \in Requests, At(r, "answered")
               PROVE  /\ print[request[r].answer] = print[r]
                      /\ At(q, "answered") /\ request[q].rec = request[r].rec
                           => request[q].answer = request[r].answer
    BY DEF OneAnswer
  <2> QED
    BY DEF AnswerInv, Answered, HistoryOnce, At
<1> QED
  BY <1>1, AnswerKept, PTL

\* ResultMatchesRow holds in every behaviour: what a row stores is the result of the
\* request that owns it, computed under the row's binding, and History holds it once.
THEOREM StoredIsOwned == Spec => []ResultMatchesRow
<1>1. AnswerInv => ResultMatchesRow
  <2> SUFFICES ASSUME AnswerInv, record.status = "completed" PROVE ResultMatchesRow
    BY DEF ResultMatchesRow
  <2>1. /\ record.token = record.result /\ request[record.result].bound = record.bound
        /\ record.bound # "none" /\ [rec |-> record.id, by |-> record.result] \in history
    BY RequestAssumption DEF AnswerInv, Stored
  <2>2. ASSUME NEW h \in history, h.rec = record.id
        PROVE  h = [rec |-> record.id, by |-> record.result]
    BY <2>2 DEF AnswerInv, HistoryOnce, TypeOK
  <2> QED
    BY <2>1, <2>2 DEF ResultMatchesRow
<1> QED
  BY <1>1, AnswerKept, PTL

-----------------------------------------------------------------------------
(* Rows are settled once *)

\* SettledForGood holds of every step: a completed or indeterminate row is not executed
\* again, and a row's execution binding is written once (claim, cleanup, bind_execution).
THEOREM SettledKept == Spec => SettledForGood
<1> DEFINE Settles ==
      record'.id = record.id /\ record.id # 0 =>
        /\ record.status \in {"completed", "indeterminate"} => record'.status = record.status
        /\ record.bound # "none" => record'.bound = record.bound
<1>1. TypeOK /\ [Next]_vars => [Settles]_vars
  <2> SUFFICES ASSUME record \in Record, Next PROVE Settles
    BY DEF TypeOK
  <2>1. ASSUME NEW r \in Requests, Claim(r) PROVE Settles
    <3>1. CASE CleanupSettles(r)
      BY <3>1 DEF CleanupSettles, Stale, Record
    <3>2. CASE CleanupDeletes(r)
      BY <3>2 DEF CleanupDeletes, NoRecord
    <3>3. CASE Insert(r)
      BY <3>3 DEF Insert
    <3>4. CASE OutcomeUnknown(r)
      BY <3>4 DEF OutcomeUnknown, Stale, Record
    <3>5. CASE TakeOver(r)
      BY <3>5 DEF TakeOver, Stale, Record
    <3>6. CASE CleanupSkips(r) \/ CleanupSelects(r) \/ InsertConflicts(r) \/ Replay(r) \/ ClaimRefused(r)
      BY <3>6 DEF CleanupSkips, CleanupSelects, InsertConflicts, Replay, ClaimRefused
    <3> QED
      BY <2>1, <3>1, <3>2, <3>3, <3>4, <3>5, <3>6 DEF Claim
  <2>2. ASSUME NEW r \in Requests, Attempt(r) \/ Die(r) PROVE Settles
    <3>1. ASSUME NEW b \in Bindings, Bind(r, b) PROVE Settles
      BY <3>1 DEF Bind, Current, Record
    <3>2. CASE StartProvider(r)
      BY <3>2 DEF StartProvider, Holds, Current, Record
    <3>3. CASE Finalize(r)
      BY <3>3 DEF Finalize, Holds, Current, Record
    <3>4. CASE FailUnfinalized(r)
      BY <3>4 DEF FailUnfinalized, Current, Record
    <3>5. CASE ResultReady(r) \/ AttemptFails(r) \/ Die(r)
                \/ \E kind \in {"primary", "retry", "repair"} : CallProvider(r, kind)
      BY <3>5 DEF ResultReady, AttemptFails, Die, CallProvider
    <3> QED
      BY <2>2, <3>1, <3>2, <3>3, <3>4, <3>5 DEF Attempt
  <2>3. CASE LeaseExpires \/ RetentionExpires
    BY <2>3 DEF LeaseExpires, RetentionExpires, Record
  <2> QED
    BY <2>1, <2>2, <2>3 DEF Next
<1> QED
  BY <1>1, TypeCorrect, PTL DEF Spec, SettledForGood
==============================================================================
