-------------------------- MODULE OwnerRecordsProofs --------------------------
(***************************************************************************)
(* The theorems about the owner's records beside the Materials, for any    *)
(* clients and bounds: the history of an Application, the files of the     *)
(* Resumes, the snapshots of the profile, the uniqueness of the Job        *)
(* Library and the grounds of the Analyses.  The records of MCOwnerRecords *)
(* are the parts side by side, one of which is at work, so each part is    *)
(* proved for itself.                                                      *)
(***************************************************************************)
EXTENDS MCOwnerRecords, FiniteSetTheorems, WellFoundedInduction, SequenceTheorems, TLAPS

-----------------------------------------------------------------------------
(* The history of an Application (ApplicationTracking)                     *)
(*                                                                         *)
(* That the history is a path is inductive with what a page shows: one     *)
(* that shows the current revision shows the current stage, because every  *)
(* change of the stage raises the revision.                                *)

\* Where history h begins, where its row i ends, and at which revision
Began(h) == IF h # << >> /\ h[1].before = 0 THEN "saved" ELSE "applied"
EndsIn(h, i) == IF i = 0 THEN Began(h) ELSE h[i].to
EndsAt(h, i) == IF i = 0 THEN 0 ELSE h[i].after

Leads(h, i) ==
  /\ h[i].from = EndsIn(h, i - 1) /\ h[i].shown = h[i].from
  /\ h[i].before >= EndsAt(h, i - 1)
  /\ \/ h[i].to \in Tracking!TRANSITIONS[h[i].from]
     \/ h[i].to = "saved" /\ h[i].from \in Tracking!TERMINAL_STAGES
     \/ i = 1 /\ h[i].before = 0

Tracked ==
  /\ stageRow.revision = 0 => stageRow = Tracking!Absent /\ history = << >>
  /\ \A p \in Clients : /\ page[p].revision <= stageRow.revision
                        /\ page[p].revision = stageRow.revision => page[p].stage = stageRow.stage
  /\ EndsAt(history, Len(history)) <= stageRow.revision
  /\ stageRow.revision > 0 =>
       /\ \A i \in DOMAIN history : Leads(history, i)
       /\ stageRow.stage = EndsIn(history, Len(history))
       /\ stageRow.outcome = IF stageRow.stage \in Tracking!TERMINAL_STAGES
                             THEN stageRow.stage ELSE None
       /\ \A i \in DOMAIN history : history[i].to = "applied" => stageRow.applied

TrackedInv == Tracking!TypeOK /\ Tracked

LEMMA TrackedIsAPath == TrackedInv => Tracking!HistoryIsAPath
<1> SUFFICES ASSUME TrackedInv, stageRow.revision > 0
             PROVE  Tracking!HistoryIsAPath
  BY DEF Tracking!HistoryIsAPath
<1>1. history \in Seq(Tracking!HistoryRow)
  BY DEF TrackedInv, Tracking!TypeOK
<1> QED
  BY <1>1 DEF TrackedInv, Tracked, Tracking!HistoryIsAPath, Leads, EndsIn, EndsAt, Began

\* A row that goes on where the history ended
LEMMA HistoryGrows ==
  ASSUME NEW h \in Seq(Tracking!HistoryRow), NEW row \in Tracking!HistoryRow,
         \A i \in DOMAIN h : Leads(h, i),
         row.before > 0, row.from = EndsIn(h, Len(h)), row.shown = row.from,
         row.before >= EndsAt(h, Len(h)),
         \/ row.to \in Tracking!TRANSITIONS[row.from]
         \/ row.to = "saved" /\ row.from \in Tracking!TERMINAL_STAGES
  PROVE  LET g == Append(h, row) IN
         /\ g \in Seq(Tracking!HistoryRow) /\ \A i \in DOMAIN g : Leads(g, i)
         /\ EndsIn(g, Len(g)) = row.to /\ EndsAt(g, Len(g)) = row.after
         /\ \A i \in DOMAIN g : g[i].to = "applied" =>
              row.to = "applied" \/ \E j \in DOMAIN h : h[j].to = "applied"
<1> DEFINE g == Append(h, row)
<1>1. /\ g \in Seq(Tracking!HistoryRow) /\ Len(g) = Len(h) + 1 /\ Len(h) \in Nat
      /\ DOMAIN g = 1 .. (Len(h) + 1) /\ DOMAIN h = 1 .. Len(h)
      /\ \A i \in 1 .. Len(h) : g[i] = h[i]
      /\ g[Len(h) + 1] = row
  BY AppendProperties
<1> HIDE DEF g
<1>2. Began(g) = Began(h)
  <2>1. CASE h = << >>
    <3>1. g[1] = row /\ Len(h) = 0
      BY <1>1, <2>1
    <3> QED
      BY <3>1, <2>1 DEF Began
  <2>2. CASE h # << >>
    <3>1. Len(h) >= 1 /\ g # << >>
      BY <1>1, <2>2, EmptySeq
    <3> QED
      BY <1>1, <2>2, <3>1 DEF Began
  <2> QED
    BY <2>1, <2>2
<1>3. \A i \in 0 .. Len(h) : EndsIn(g, i) = EndsIn(h, i) /\ EndsAt(g, i) = EndsAt(h, i)
  BY <1>1, <1>2 DEF EndsIn, EndsAt
<1>4. \A i \in DOMAIN g : Leads(g, i)
  <2> SUFFICES ASSUME NEW i \in DOMAIN g
               PROVE  Leads(g, i)
    OBVIOUS
  <2>1. CASE i \in 1 .. Len(h)
    <3>1. Leads(h, i) /\ g[i] = h[i] /\ i - 1 \in 0 .. Len(h)
      BY <1>1, <2>1
    <3> QED
      BY <1>3, <3>1 DEF Leads
  <2>2. CASE i = Len(h) + 1
    <3>1. g[i] = row /\ i - 1 = Len(h) /\ Len(h) \in 0 .. Len(h)
      BY <1>1, <2>2
    <3> QED
      BY <1>3, <3>1 DEF Leads
  <2> QED
    BY <1>1, <2>1, <2>2
<1>5. EndsIn(g, Len(g)) = row.to /\ EndsAt(g, Len(g)) = row.after
  BY <1>1 DEF EndsIn, EndsAt
<1> QED
  BY <1>1, <1>4, <1>5 DEF g

\* The revision a history ends at
LEMMA EndsAtIsNumber ==
  ASSUME NEW h \in Seq(Tracking!HistoryRow)
  PROVE  EndsAt(h, Len(h)) \in Nat
<1>1. CASE Len(h) = 0
  BY <1>1 DEF EndsAt
<1>2. CASE Len(h) # 0
  <2>1. Len(h) \in Nat /\ DOMAIN h = 1 .. Len(h)
    OBVIOUS
  <2>2. h[Len(h)] \in Tracking!HistoryRow
    BY <1>2, <2>1, ElementOfSeq
  <2>3. h[Len(h)].after \in Nat
    BY <2>2, RecordsAssumption DEF Tracking!HistoryRow
  <2> QED
    BY <1>2, <2>3 DEF EndsAt
<1> QED
  BY <1>1, <1>2

\* An Application is created, of a Job or as submitted.
LEMMA CreateTracked ==
  ASSUME TrackedInv, Tracking!Create \/ Tracking!CreateSubmitted
  PROVE  TrackedInv'
<1>1. /\ history = << >> /\ Len(history) = 0 /\ stageRow.revision = 0
      /\ note' = note /\ todo' = todo /\ page' = page
  <2>1. stageRow = Tracking!Absent /\ note' = note /\ todo' = todo /\ page' = page
    BY DEF Tracking!Create, Tracking!CreateSubmitted
  <2>2. stageRow.revision = 0
    BY <2>1 DEF Tracking!Absent
  <2>3. history = << >>
    BY <2>2 DEF TrackedInv, Tracked
  <2> QED
    BY <2>1, <2>2, <2>3
<1>2. \A p \in Clients : page'[p].revision <= 0
  BY <1>1 DEF TrackedInv, Tracked
<1>3. MaxTracked \in Nat /\ MaxTracked >= 1
  BY RecordsAssumption
<1>4. \A p \in Clients : page[p].revision \in 0 .. MaxTracked
  BY DEF TrackedInv, Tracking!TypeOK, Tracking!Page
<1>5. CASE Tracking!Create
  <2>1. PICK resume0 \in BOOLEAN :
          stageRow' = [Tracking!Absent EXCEPT !.revision = 1, !.resume = resume0]
    BY <1>5 DEF Tracking!Create
  <2>2. stageRow' = [stage |-> "saved", outcome |-> None, applied |-> FALSE, revision |-> 1,
                     archived |-> FALSE, resume |-> resume0]
    BY <2>1 DEF Tracking!Absent
  <2>3. PICK row : row = [from |-> "saved", to |-> "saved", before |-> 0, after |-> 1,
                          shown |-> "saved"]
    OBVIOUS
  <2>4. history' = <<row>>
    BY <1>5, <2>3 DEF Tracking!Create
  <2>5. row \in Tracking!HistoryRow
    BY <1>3, <2>3 DEF Tracking!HistoryRow, Tracking!Stages, Tracking!TRANSITIONS
  <2>6. /\ history' \in Seq(Tracking!HistoryRow) /\ Len(history') = 1
        /\ DOMAIN history' = {1} /\ history'[1] = row
    BY <2>4, <2>5
  <2>7. /\ stageRow' \in Tracking!StageRow /\ stageRow'.revision = 1
        /\ stageRow'.stage = "saved" /\ stageRow'.outcome = None
    BY <1>3, <2>2 DEF Tracking!StageRow, Tracking!Stages, Tracking!TRANSITIONS
  <2>8. history' # << >>
    BY <2>4
  <2>9. /\ EndsIn(history, Len(history))' = "saved" /\ EndsAt(history, Len(history))' = 1
        /\ Leads(history', 1)
    BY <2>3, <2>6, <2>8 DEF EndsIn, EndsAt, Began, Leads
  <2>10. "saved" \notin Tracking!TERMINAL_STAGES
    BY DEF Tracking!TERMINAL_STAGES
  <2>11. Tracked'
    BY <1>1, <1>2, <1>4, <2>3, <2>6, <2>7, <2>9, <2>10 DEF Tracked
  <2> QED
    BY <1>1, <2>6, <2>7, <2>11 DEF TrackedInv, Tracking!TypeOK
<1>6. CASE Tracking!CreateSubmitted
  <2>1. PICK resume0 \in BOOLEAN :
          stageRow' = [Tracking!Absent EXCEPT !.revision = 1, !.stage = "applied",
                                              !.applied = TRUE, !.resume = resume0]
    BY <1>6 DEF Tracking!CreateSubmitted
  <2>2. stageRow' = [stage |-> "applied", outcome |-> None, applied |-> TRUE, revision |-> 1,
                     archived |-> FALSE, resume |-> resume0]
    BY <2>1 DEF Tracking!Absent
  <2>3. history' = << >> /\ DOMAIN history' = {} /\ Len(history') = 0
    <3>1. history' = history
      BY <1>6 DEF Tracking!CreateSubmitted
    <3> QED
      BY <1>1, <3>1
  <2>4. /\ stageRow' \in Tracking!StageRow /\ stageRow'.revision = 1
        /\ stageRow'.stage = "applied" /\ stageRow'.outcome = None
    BY <1>3, <2>2 DEF Tracking!StageRow, Tracking!Stages, Tracking!TRANSITIONS
  <2>5. EndsIn(history, Len(history))' = "applied" /\ EndsAt(history, Len(history))' = 0
    BY <2>3 DEF EndsIn, EndsAt, Began
  <2>6. "applied" \notin Tracking!TERMINAL_STAGES
    BY DEF Tracking!TERMINAL_STAGES
  <2>7. Tracked'
    BY <1>1, <1>2, <1>4, <2>3, <2>4, <2>5, <2>6 DEF Tracked
  <2> QED
    BY <1>1, <1>6, <2>4, <2>7 DEF TrackedInv, Tracking!TypeOK, Tracking!CreateSubmitted
<1> QED
  BY <1>5, <1>6

\* The row and its history stay: Notes, Tasks and pages
Watches ==
  /\ stageRow' = stageRow /\ history' = history
  /\ note' \in Tracking!NoteRow /\ todo' \in Tracking!TodoRow
  /\ page' \in [Clients -> Tracking!Page]
  /\ \A p \in Clients : page'[p] = page[p] \/
       (page'[p].revision = stageRow.revision /\ page'[p].stage = stageRow.stage)

LEMMA WatchesTracked ==
  ASSUME TrackedInv, Watches
  PROVE  TrackedInv'
<1>1. stageRow.revision \in Nat
  BY DEF TrackedInv, Tracking!TypeOK, Tracking!StageRow
<1>2. Tracked'
  BY <1>1 DEF TrackedInv, Tracked, Watches
<1> QED
  BY <1>2 DEF TrackedInv, Tracking!TypeOK, Watches

LEMMA NotesWatch ==
  ASSUME TrackedInv, NEW p,
         \/ Tracking!Load(p) \/ Tracking!AddNote \/ Tracking!ArchiveTask(p)
         \/ \E deleted \in BOOLEAN : Tracking!ChangeNote(p, deleted)
         \/ \E status \in Tracking!TaskStatus :
              Tracking!AddTask(status) \/ Tracking!SetTask(p, status)
  PROVE  Watches
<1>1. /\ stageRow.revision \in 0 .. MaxTracked /\ stageRow.stage \in Tracking!Stages
      /\ note \in Tracking!NoteRow /\ todo \in Tracking!TodoRow
      /\ page \in [Clients -> Tracking!Page] /\ MaxTracked \in Nat
  BY RecordsAssumption DEF TrackedInv, Tracking!TypeOK, Tracking!StageRow
<1>2. note.revision \in 0 .. MaxTracked /\ todo.revision \in 0 .. MaxTracked
  BY <1>1 DEF Tracking!NoteRow, Tracking!TodoRow
<1>3. CASE Tracking!Load(p)
  <2>1. PICK shown0 : shown0 = [stage |-> stageRow.stage, revision |-> stageRow.revision,
                               note |-> note.revision, todo |-> todo.revision]
    OBVIOUS
  <2>2. page' = [page EXCEPT ![p] = shown0]
    BY <1>3, <2>1 DEF Tracking!Load
  <2>3. /\ shown0 \in Tracking!Page /\ shown0.revision = stageRow.revision
        /\ shown0.stage = stageRow.stage
    BY <1>1, <1>2, <2>1 DEF Tracking!Page
  <2> QED
    BY <1>1, <1>3, <2>2, <2>3 DEF Watches, Tracking!Load
<1>4. CASE Tracking!AddNote
  <2>1. note' = [note EXCEPT !.revision = 1] /\ 1 \in 0 .. MaxTracked
    BY <1>4, RecordsAssumption DEF Tracking!AddNote
  <2>2. note' \in Tracking!NoteRow
    BY <1>1, <2>1 DEF Tracking!NoteRow
  <2> QED
    BY <1>1, <1>4, <2>2 DEF Watches, Tracking!AddNote
<1>5. CASE \E deleted \in BOOLEAN : Tracking!ChangeNote(p, deleted)
  <2>1. PICK deleted \in BOOLEAN : Tracking!ChangeNote(p, deleted)
    BY <1>5
  <2>2. note.revision + 1 \in 0 .. MaxTracked
    BY <1>1, <1>2, <2>1 DEF Tracking!ChangeNote, Tracking!Revised
  <2>3. note' \in Tracking!NoteRow
    BY <2>1, <2>2 DEF Tracking!ChangeNote, Tracking!NoteRow
  <2> QED
    BY <1>1, <2>1, <2>3 DEF Watches, Tracking!ChangeNote
<1>6. ASSUME NEW n \in 0 .. MaxTracked, NEW s \in Tracking!TaskStatus, NEW b \in BOOLEAN,
             todo' = [[[todo EXCEPT !.revision = n] EXCEPT !.status = s] EXCEPT
                        !.completedAt = b],
             UNCHANGED <<stageRow, history, note, page>>
      PROVE  Watches
  <2>1. todo' \in Tracking!TodoRow
    BY <1>1, <1>6 DEF Tracking!TodoRow, Tracking!TaskStatus
  <2> QED
    BY <1>1, <1>6, <2>1 DEF Watches
<1>7. CASE \E status \in Tracking!TaskStatus :
             Tracking!AddTask(status) \/ Tracking!SetTask(p, status)
  <2>1. PICK s \in Tracking!TaskStatus : Tracking!AddTask(s) \/ Tracking!SetTask(p, s)
    BY <1>7
  <2>2. PICK b \in BOOLEAN : b = (s = "completed")
    OBVIOUS
  <2>3. PICK n \in 0 .. MaxTracked :
          /\ todo' = [todo EXCEPT !.revision = n, !.status = s, !.completedAt = b]
          /\ UNCHANGED <<stageRow, history, note, page>>
    <3>1. 1 \in 0 .. MaxTracked
      BY RecordsAssumption
    <3>2. CASE Tracking!AddTask(s)
      BY <2>2, <3>1, <3>2 DEF Tracking!AddTask
    <3>3. CASE Tracking!SetTask(p, s)
      <4>1. Tracking!Revised
        BY <3>3 DEF Tracking!SetTask
      <4>2. todo.revision + 1 \in 0 .. MaxTracked
        BY <1>1, <1>2, <4>1 DEF Tracking!Revised
      <4> QED
        BY <2>2, <3>3, <4>2 DEF Tracking!SetTask
    <3> QED
      BY <2>1, <3>2, <3>3
  <2> QED
    BY <1>6, <2>3
<1>8. CASE Tracking!ArchiveTask(p)
  <2>1. todo.revision + 1 \in 0 .. MaxTracked
    BY <1>1, <1>2, <1>8 DEF Tracking!ArchiveTask, Tracking!Revised
  <2>2. todo' = [todo EXCEPT !.revision = todo.revision + 1, !.archived = TRUE]
    BY <1>8 DEF Tracking!ArchiveTask
  <2>3. todo' \in Tracking!TodoRow
    BY <1>1, <2>1, <2>2 DEF Tracking!TodoRow
  <2> QED
    BY <1>1, <1>8, <2>3 DEF Watches, Tracking!ArchiveTask
<1> QED
  BY <1>3, <1>4, <1>5, <1>7, <1>8

\* The row gets its next revision in the stage it is in.
Revises ==
  /\ stageRow' \in Tracking!StageRow /\ stageRow.revision > 0
  /\ stageRow'.revision = stageRow.revision + 1 /\ stageRow'.stage = stageRow.stage
  /\ stageRow'.outcome = stageRow.outcome /\ stageRow'.applied = stageRow.applied
  /\ UNCHANGED <<history, note, todo, page>>

LEMMA RevisesTracked ==
  ASSUME TrackedInv, Revises
  PROVE  TrackedInv'
<1>1. stageRow.revision \in Nat /\ \A p \in Clients : page[p].revision \in Nat
  BY RecordsAssumption DEF TrackedInv, Tracking!TypeOK, Tracking!StageRow, Tracking!Page
<1>2. history \in Seq(Tracking!HistoryRow)
  BY DEF TrackedInv, Tracking!TypeOK
<1>3. EndsAt(history, Len(history)) \in Nat
  BY <1>2, EndsAtIsNumber
<1>4. Tracked'
  BY <1>1, <1>3 DEF TrackedInv, Tracked, Revises
<1> QED
  BY <1>4 DEF TrackedInv, Tracking!TypeOK, Revises

\* A request that was not refused raises the revision below the bound.
LEMMA RevisedRow ==
  ASSUME TrackedInv, Tracking!Revised
  PROVE  /\ stageRow \in Tracking!StageRow /\ stageRow.revision \in Nat
         /\ stageRow.revision + 1 \in 0 .. MaxTracked
<1>1. /\ stageRow \in Tracking!StageRow /\ stageRow.revision \in 0 .. MaxTracked
      /\ note.revision \in 0 .. MaxTracked /\ todo.revision \in 0 .. MaxTracked
      /\ MaxTracked \in Nat
  BY RecordsAssumption DEF TrackedInv, Tracking!TypeOK, Tracking!StageRow,
     Tracking!NoteRow, Tracking!TodoRow
<1> QED
  BY <1>1 DEF Tracking!Revised

LEMMA ChangesRevise ==
  ASSUME TrackedInv, NEW p \in Clients,
         Tracking!Update(p) \/ Tracking!LinkResume(p) \/ Tracking!Archive(p)
           \/ Tracking!Restore(p)
  PROVE  Revises
<1>1. /\ Tracking!Revised /\ stageRow.revision > 0 /\ UNCHANGED <<history, note, todo, page>>
  <2>1. /\ Tracking!Revised /\ UNCHANGED <<history, note, todo, page>>
        /\ Tracking!Expected(p) \/ stageRow.archived
    BY DEF Tracking!Update, Tracking!LinkResume, Tracking!Archive, Tracking!Restore
  <2>2. stageRow.archived => stageRow.revision # 0
    BY DEF TrackedInv, Tracked, Tracking!Absent
  <2>3. stageRow.revision \in Nat
    BY <2>1, RevisedRow
  <2> QED
    BY <2>1, <2>2, <2>3 DEF Tracking!Expected
<1>2. stageRow \in Tracking!StageRow /\ stageRow.revision + 1 \in 0 .. MaxTracked
  BY <1>1, RevisedRow
<1> DEFINE raised == [stageRow EXCEPT !.revision = stageRow.revision + 1]
<1>3. /\ raised \in Tracking!StageRow /\ raised.revision = stageRow.revision + 1
      /\ raised.stage = stageRow.stage /\ raised.outcome = stageRow.outcome
      /\ raised.applied = stageRow.applied
  BY <1>2 DEF Tracking!StageRow
<1>4. \/ stageRow' = raised
      \/ \E b \in BOOLEAN : stageRow' = [raised EXCEPT !.resume = b]
      \/ \E b \in BOOLEAN : stageRow' = [raised EXCEPT !.archived = b]
  BY DEF Tracking!Update, Tracking!LinkResume, Tracking!Archive, Tracking!Restore
<1> HIDE DEF raised
<1>5. /\ stageRow' \in Tracking!StageRow /\ stageRow'.revision = raised.revision
      /\ stageRow'.stage = raised.stage /\ stageRow'.outcome = raised.outcome
      /\ stageRow'.applied = raised.applied
  BY <1>3, <1>4 DEF Tracking!StageRow
<1> QED
  BY <1>1, <1>3, <1>5 DEF Revises

\* The stage changes, by the table or by a reopening, and the history with it.
Moves(p, to) ==
  /\ to \in Tracking!Stages /\ page[p].revision = stageRow.revision
  /\ \/ to \in Tracking!TRANSITIONS[stageRow.stage]
     \/ to = "saved" /\ stageRow.stage \in Tracking!TERMINAL_STAGES
  /\ stageRow' \in Tracking!StageRow /\ stageRow.revision > 0
  /\ stageRow'.revision = stageRow.revision + 1 /\ stageRow'.stage = to
  /\ stageRow'.outcome = IF to \in Tracking!TERMINAL_STAGES THEN to ELSE None
  /\ stageRow.applied \/ to = "applied" => stageRow'.applied
  /\ history' = Append(history, Tracking!HistoryEntry(p, to))
  /\ UNCHANGED <<note, todo, page>>

LEMMA MovesTracked ==
  ASSUME TrackedInv, NEW p \in Clients, NEW to, Moves(p, to)
  PROVE  TrackedInv'
<1>1. /\ stageRow \in Tracking!StageRow /\ stageRow.revision \in 0 .. MaxTracked
      /\ stageRow.revision > 0 /\ MaxTracked \in Nat
      /\ stageRow.stage \in Tracking!Stages
      /\ \A q \in Clients : page[q].revision \in Nat
      /\ history \in Seq(Tracking!HistoryRow)
  BY RecordsAssumption DEF TrackedInv, Tracking!TypeOK, Tracking!StageRow, Tracking!Page,
     Moves
<1>2. stageRow.revision + 1 \in 0 .. MaxTracked
  BY DEF Moves, Tracking!StageRow
<1>3. PICK row : row = Tracking!HistoryEntry(p, to)
  OBVIOUS
<1>4. /\ row.from = stageRow.stage /\ row.to = to /\ row.before = stageRow.revision
      /\ row.after = stageRow.revision + 1 /\ row.shown = stageRow.stage
      /\ row \in Tracking!HistoryRow
  <2>1. page[p].stage = stageRow.stage
    BY DEF Moves, TrackedInv, Tracked
  <2>2. row = [from |-> stageRow.stage, to |-> to, before |-> stageRow.revision,
               after |-> stageRow.revision + 1, shown |-> stageRow.stage]
    BY <1>3, <2>1 DEF Tracking!HistoryEntry
  <2>3. to \in Tracking!Stages /\ stageRow.revision + 1 \in 1 .. MaxTracked
    BY <1>1, <1>2 DEF Moves
  <2> QED
    BY <1>1, <2>2, <2>3 DEF Tracking!HistoryRow
<1>5. /\ \A i \in DOMAIN history : Leads(history, i)
      /\ stageRow.stage = EndsIn(history, Len(history))
      /\ EndsAt(history, Len(history)) <= stageRow.revision
      /\ \A i \in DOMAIN history : history[i].to = "applied" => stageRow.applied
      /\ \A q \in Clients : page[q].revision <= stageRow.revision
  BY <1>1 DEF TrackedInv, Tracked
<1>6. PICK g : g = Append(history, row)
  OBVIOUS
<1>7. /\ g \in Seq(Tracking!HistoryRow) /\ \A i \in DOMAIN g : Leads(g, i)
      /\ EndsIn(g, Len(g)) = to /\ EndsAt(g, Len(g)) = stageRow.revision + 1
      /\ \A i \in DOMAIN g : g[i].to = "applied" =>
           to = "applied" \/ \E j \in DOMAIN history : history[j].to = "applied"
  <2>1. /\ row.before > 0 /\ row.from = EndsIn(history, Len(history))
        /\ row.shown = row.from /\ row.before >= EndsAt(history, Len(history))
    <3>1. EndsAt(history, Len(history)) \in Nat
      BY <1>1, EndsAtIsNumber
    <3> QED
      BY <1>1, <1>4, <1>5, <3>1
  <2>2. \/ row.to \in Tracking!TRANSITIONS[row.from]
        \/ row.to = "saved" /\ row.from \in Tracking!TERMINAL_STAGES
    BY <1>4 DEF Moves
  <2> QED
    BY <1>1, <1>4, <1>5, <1>6, <2>1, <2>2, HistoryGrows
<1>8. history' = g
  BY <1>3, <1>6 DEF Moves
<1>9. Tracked'
  <2>1. /\ stageRow'.revision = stageRow.revision + 1 /\ stageRow'.stage = to
        /\ stageRow'.outcome = IF to \in Tracking!TERMINAL_STAGES THEN to ELSE None
        /\ stageRow.applied \/ to = "applied" => stageRow'.applied /\ page' = page
    BY DEF Moves
  <2>2. page' = page
    BY DEF Moves
  <2>3. \A i \in DOMAIN g : g[i].to = "applied" => stageRow'.applied
    BY <1>5, <1>7, <2>1
  <2>4. \A q \in Clients : page'[q].revision < stageRow'.revision
    BY <1>1, <1>5, <2>1, <2>2
  <2>5. stageRow'.revision \in Nat /\ stageRow'.revision # 0
    BY <1>1, <2>1
  <2> QED
    BY <1>1, <1>7, <1>8, <2>1, <2>2, <2>3, <2>4, <2>5 DEF Tracked
<1> QED
  BY <1>7, <1>8, <1>9 DEF TrackedInv, Tracking!TypeOK, Moves

LEMMA TransitionMoves ==
  ASSUME TrackedInv, NEW p \in Clients, NEW to \in Tracking!Stages, Tracking!Transition(p, to)
  PROVE  Moves(p, to)
<1>1. /\ stageRow \in Tracking!StageRow /\ stageRow.revision \in Nat
      /\ stageRow.revision + 1 \in 0 .. MaxTracked
  BY RevisedRow DEF Tracking!Transition
<1>2. /\ stageRow.revision > 0 /\ page[p].revision = stageRow.revision
      /\ to \in Tracking!TRANSITIONS[stageRow.stage]
      /\ stageRow.stage \in Tracking!Stages /\ stageRow.applied \in BOOLEAN
      /\ history' = Append(history, Tracking!HistoryEntry(p, to))
      /\ UNCHANGED <<note, todo, page>>
  BY <1>1 DEF Tracking!Transition, Tracking!Expected, Tracking!StageRow
<1>3. stageRow.outcome = None
  <2>1. stageRow.stage \notin Tracking!TERMINAL_STAGES
    BY <1>2 DEF Tracking!TERMINAL_STAGES, Tracking!TRANSITIONS
  <2> QED
    BY <1>2, <2>1 DEF TrackedInv, Tracked
<1>4. PICK o \in Tracking!TERMINAL_STAGES \cup {None} :
        o = IF to \in Tracking!TERMINAL_STAGES THEN to ELSE None
  OBVIOUS
<1>5. PICK b \in BOOLEAN : b = (stageRow.applied \/ to = "applied")
  OBVIOUS
<1>6. stageRow' = [[[[stageRow EXCEPT !.stage = to] EXCEPT !.revision = stageRow.revision + 1]
                      EXCEPT !.applied = b] EXCEPT !.outcome = o]
  <2>1. stageRow' = [stageRow EXCEPT !.stage = to, !.revision = stageRow.revision + 1,
                       !.applied = (stageRow.applied \/ to = "applied"),
                       !.outcome = IF to \in Tracking!TERMINAL_STAGES THEN to
                                   ELSE stageRow.outcome]
    BY <1>1 DEF Tracking!Transition, Tracking!StageRow
  <2> QED
    BY <1>3, <1>4, <1>5, <2>1
<1>7. /\ stageRow' \in Tracking!StageRow /\ stageRow'.revision = stageRow.revision + 1
      /\ stageRow'.stage = to /\ stageRow'.outcome = o /\ stageRow'.applied = b
  BY <1>1, <1>2, <1>6 DEF Tracking!StageRow
<1> QED
  BY <1>2, <1>4, <1>5, <1>7 DEF Moves

LEMMA ReopenMoves ==
  ASSUME TrackedInv, NEW p \in Clients, Tracking!Reopen(p)
  PROVE  Moves(p, "saved")
<1>1. /\ stageRow \in Tracking!StageRow /\ stageRow.revision \in Nat
      /\ stageRow.revision + 1 \in 0 .. MaxTracked
  BY RevisedRow DEF Tracking!Reopen
<1>2. /\ stageRow.revision > 0 /\ page[p].revision = stageRow.revision
      /\ stageRow.stage \in Tracking!TERMINAL_STAGES
      /\ history' = Append(history, Tracking!HistoryEntry(p, "saved"))
      /\ stageRow' = [[[stageRow EXCEPT !.stage = "saved"] EXCEPT !.outcome = None]
                       EXCEPT !.revision = stageRow.revision + 1]
      /\ UNCHANGED <<note, todo, page>>
  BY <1>1 DEF Tracking!Reopen, Tracking!Expected, Tracking!StageRow
<1>3. /\ "saved" \in Tracking!Stages /\ "saved" \notin Tracking!TERMINAL_STAGES
  BY DEF Tracking!Stages, Tracking!TRANSITIONS, Tracking!TERMINAL_STAGES
<1>4. /\ stageRow' \in Tracking!StageRow /\ stageRow'.revision = stageRow.revision + 1
      /\ stageRow'.stage = "saved" /\ stageRow'.outcome = None
      /\ stageRow'.applied = stageRow.applied
  BY <1>1, <1>2, <1>3 DEF Tracking!StageRow
<1> QED
  BY <1>2, <1>3, <1>4 DEF Moves

LEMMA TrackingStarts == Tracking!Init => TrackedInv
<1> SUFFICES ASSUME Tracking!Init
             PROVE  TrackedInv
  OBVIOUS
<1>1. MaxTracked \in Nat /\ 0 \in 0 .. MaxTracked
  BY RecordsAssumption
<1>2. "saved" \in Tracking!Stages
  BY DEF Tracking!Stages, Tracking!TRANSITIONS
<1>3. Tracking!FreshPage \in Tracking!Page /\ Tracking!Absent \in Tracking!StageRow
  BY <1>1, <1>2 DEF Tracking!FreshPage, Tracking!Page, Tracking!Absent, Tracking!StageRow
<1>4. stageRow = Tracking!Absent /\ stageRow.revision = 0 /\ history = << >> /\ Len(history) = 0
  BY DEF Tracking!Init, Tracking!Absent
<1>5. /\ note \in Tracking!NoteRow /\ todo \in Tracking!TodoRow
      /\ history \in Seq(Tracking!HistoryRow)
  BY <1>1, <1>4 DEF Tracking!Init, Tracking!NoteRow, Tracking!TodoRow
<1>6. page \in [Clients -> Tracking!Page]
  BY <1>3 DEF Tracking!Init
<1>7. Tracking!TypeOK
  BY <1>3, <1>4, <1>5, <1>6 DEF Tracking!TypeOK
<1>8. \A p \in Clients : page[p].revision = 0 /\ page[p].stage = "saved"
  BY DEF Tracking!Init, Tracking!FreshPage
<1>9. EndsAt(history, Len(history)) = 0 /\ stageRow.stage = "saved"
  BY <1>4 DEF EndsAt, Tracking!Absent
<1>10. Tracked
  BY <1>4, <1>8, <1>9 DEF Tracked
<1> QED
  BY <1>7, <1>10 DEF TrackedInv

LEMMA TrackingKeepsInv ==
  TrackedInv /\ [Tracking!Next]_trackingVars => TrackedInv'
<1> SUFFICES ASSUME TrackedInv, [Tracking!Next]_trackingVars
             PROVE  TrackedInv'
  OBVIOUS
<1>1. CASE UNCHANGED trackingVars
  BY <1>1 DEF trackingVars, TrackedInv, Tracked, Tracking!TypeOK
<1>2. CASE Tracking!Create \/ Tracking!CreateSubmitted
  BY <1>2, CreateTracked
<1>3. ASSUME NEW p \in Clients, Tracking!PageStep(p)
      PROVE  TrackedInv'
  <2>1. CASE Tracking!Load(p) \/ Tracking!ArchiveTask(p)
             \/ (\E deleted \in BOOLEAN : Tracking!ChangeNote(p, deleted))
             \/ \E status \in Tracking!TaskStatus : Tracking!SetTask(p, status)
    BY <2>1, NotesWatch, WatchesTracked
  <2>2. CASE Tracking!Update(p) \/ Tracking!LinkResume(p) \/ Tracking!Archive(p)
             \/ Tracking!Restore(p)
    BY <2>2, ChangesRevise, RevisesTracked
  <2>3. CASE Tracking!Reopen(p)
    BY <2>3, ReopenMoves, MovesTracked
  <2>4. CASE \E to \in Tracking!Stages : Tracking!Transition(p, to)
    BY <2>4, TransitionMoves, MovesTracked
  <2> QED
    BY <1>3, <2>1, <2>2, <2>3, <2>4 DEF Tracking!PageStep
<1>4. CASE Tracking!AddNote \/ \E status \in Tracking!TaskStatus : Tracking!AddTask(status)
  BY <1>4, NotesWatch, WatchesTracked
<1> QED
  BY <1>1, <1>2, <1>3, <1>4 DEF Tracking!Next

\* One step of the records is one of a part, and leaves the others alone.
recordsVars == <<part, vars, libraryVars, trackingVars, resumeVars, profileVars, matchVars>>

LEMMA TrackingStandsAlone ==
  ASSUME [RecordsNext]_recordsVars
  PROVE  part' = part /\ [part = "tracking" /\ Tracking!Next]_trackingVars
BY DEF recordsVars, RecordsNext, MaterialsStep, LibraryStep, TrackingStep, ResumesStep,
   CareerStep, MatchingStep, OnlyOf

\* Two pages open on one Application, with requests from both in any order: its
\* history is a path through the stages that ends where the Application is, and
\* every row of it was decided by a user who saw the stage it left.
THEOREM ApplicationHistoryIsAPath == RecordsSpec => []HistoryIsAPath
<1>1. RecordsInit => TrackedInv
  BY TrackingStarts DEF RecordsInit
<1>2. TrackedInv /\ [RecordsNext]_recordsVars => TrackedInv'
  BY TrackingStandsAlone, TrackingKeepsInv
<1>3. TrackedInv => HistoryIsAPath
  BY TrackedIsAPath DEF HistoryIsAPath
<1> QED
  BY <1>1, <1>2, <1>3, PTL DEF RecordsSpec, recordsVars

-----------------------------------------------------------------------------
(* The snapshots of a profile (CareerProfile)                              *)
(*                                                                         *)
(* Inductive with what a profile no change has reached looks like, and     *)
(* with a restored revision being one that has a snapshot.                 *)

Profiled ==
  /\ profile \in [revision : Nat, score : Nat]
  /\ getting.op = "items" => getting.computed \in Nat
  /\ snapshot \in Seq({snapshot[i] : i \in DOMAIN snapshot})
  /\ profile.revision = 0 => snapshot = << >>
  /\ \A i \in DOMAIN snapshot : snapshot[i].restored \in {0} \cup 2 .. i

ProfiledInv == Profiled /\ Career!ProfileHistory

LEMMA CareerCounts == \A S : Career!Cardinality(S) = Cardinality(S)
  BY DEF Career!Cardinality, Cardinality

LEMMA CompletenessIsNumber == \A c : Career!Completeness(c) \in Nat
<1> SUFFICES ASSUME NEW c
             PROVE  Career!Completeness(c) \in Nat
  OBVIOUS
<1> DEFINE counted == {section \in {"fields", "experiences", "preference"} :
             \/ section = "fields" /\ c.fields # Blank
             \/ section = "experiences" /\
                  \E i \in DOMAIN c.items : c.items[i].resource = "experiences"
             \/ section = "preference" /\ c.preference # Blank}
<1>1. IsFiniteSet({"fields", "experiences", "preference"})
  <2>1. IsFiniteSet(({"fields"} \cup {"experiences"}) \cup {"preference"})
    BY FS_Singleton, FS_AddElement
  <2>2. ({"fields"} \cup {"experiences"}) \cup {"preference"}
          = {"fields", "experiences", "preference"}
    OBVIOUS
  <2> QED
    BY <2>1, <2>2
<1>2. counted \subseteq {"fields", "experiences", "preference"}
  OBVIOUS
<1>3. Career!Completeness(c) = Cardinality(counted)
  BY CareerCounts DEF Career!Completeness
<1> HIDE DEF counted
<1> QED
  BY <1>1, <1>2, <1>3, FS_Subset, FS_CardinalityType

\* A request records what it flushed, one revision after the other.
LEMMA RecordKeepsHistory ==
  ASSUME ProfiledInv, profile.revision > 0, NEW contents, NEW from \in Nat,
         DOMAIN contents = 1 .. Len(contents), Len(contents) \in Nat \ {0},
         Career!Record(contents, from),
         \/ from = 0
         \/ Len(contents) = 1 /\ \E j \in DOMAIN snapshot :
              snapshot[j].revision = from /\ snapshot[j].content = contents[1]
  PROVE  ProfiledInv'
<1> DEFINE n == Len(contents)
           L == Len(snapshot)
           row(i) == [revision |-> profile.revision + i, restored |-> from,
                      content |-> contents[i], score |-> Career!Completeness(contents[i])]
           added == [i \in 1 .. n |-> row(i)]
           S == {snapshot[i] : i \in DOMAIN snapshot} \cup {row(i) : i \in 1 .. n}
<1>1. /\ L \in Nat /\ DOMAIN snapshot = 1 .. L /\ profile.revision = L + 1
      /\ snapshot \in Seq(S) /\ n \in Nat /\ n > 0
  <2>1. snapshot \in Seq({snapshot[i] : i \in DOMAIN snapshot})
    BY DEF ProfiledInv, Profiled
  <2>2. L \in Nat /\ DOMAIN snapshot = 1 .. L
    BY <2>1
  <2>3. snapshot \in Seq(S)
    BY <2>1
  <2> QED
    BY <2>2, <2>3 DEF ProfiledInv, Profiled, Career!ProfileHistory
<1>2. added \in Seq(S) /\ Len(added) = n /\ \A i \in 1 .. n : added[i] = row(i)
  BY <1>1
<1>3. /\ snapshot' = snapshot \o added
      /\ profile' = [revision |-> profile.revision + n,
                     score |-> Career!Completeness(contents[n])]
      /\ content' = contents[n] /\ getting' = getting
  BY DEF Career!Record
<1>4. /\ snapshot' \in Seq(S) /\ Len(snapshot') = L + n /\ DOMAIN snapshot' = 1 .. (L + n)
      /\ \A i \in 1 .. L : snapshot'[i] = snapshot[i]
      /\ \A i \in 1 .. n : snapshot'[L + i] = row(i)
  BY <1>1, <1>2, <1>3, ConcatProperties
<1>5. \A i \in DOMAIN snapshot' : i \in 1 .. L \/ \E k \in 1 .. n : i = L + k
  <2> SUFFICES ASSUME NEW i \in 1 .. (L + n), i \notin 1 .. L
               PROVE  \E k \in 1 .. n : i = L + k
    BY <1>4
  <2>1. i - L \in 1 .. n /\ i = L + (i - L)
    BY <1>1
  <2> QED
    BY <2>1
<1>6. from \in {0} \cup 2 .. (L + 1) /\ (from > 0 => n = 1 /\ snapshot[from - 1].content = contents[1])
  <2>1. CASE from = 0
    BY <2>1
  <2>2. CASE from # 0
    <3>1. PICK j \in DOMAIN snapshot :
            n = 1 /\ snapshot[j].revision = from /\ snapshot[j].content = contents[1]
      BY <2>2
    <3>2. from = j + 1
      BY <3>1 DEF ProfiledInv, Career!ProfileHistory
    <3> QED
      BY <1>1, <3>1, <3>2
  <2> QED
    BY <2>1, <2>2
<1>7. \A i \in DOMAIN snapshot' : snapshot'[i].restored \in {0} \cup 2 .. i
  <2>1. \A i \in 1 .. L : snapshot'[i].restored \in {0} \cup 2 .. i
    BY <1>1, <1>4 DEF ProfiledInv, Profiled
  <2>2. ASSUME NEW k \in 1 .. n
        PROVE  snapshot'[L + k].restored \in {0} \cup 2 .. (L + k)
    <3>1. snapshot'[L + k] = row(k) /\ row(k).restored = from
      BY <1>4
    <3>2. 2 .. (L + 1) \subseteq 2 .. (L + k)
      BY <1>1
    <3> QED
      BY <1>6, <3>1, <3>2
  <2> QED
    BY <1>4, <1>5, <2>1, <2>2
<1>8. Profiled'
  <2>1. profile' \in [revision : Nat, score : Nat] /\ profile'.revision # 0
    <3>1. Career!Completeness(contents[n]) \in Nat /\ profile.revision + n \in Nat \ {0}
      BY <1>1, CompletenessIsNumber
    <3> QED
      BY <1>3, <3>1
  <2>2. snapshot' \in Seq({snapshot'[i] : i \in DOMAIN snapshot'})
    BY <1>4
  <2> QED
    BY <1>3, <1>7, <2>1, <2>2 DEF ProfiledInv, Profiled
<1>9. \A i \in DOMAIN snapshot' :
        /\ snapshot'[i].revision = i + 1
        /\ snapshot'[i].score = Career!Completeness(snapshot'[i].content)
        /\ snapshot'[i].restored > 0 =>
             /\ snapshot'[i].restored <= i
             /\ snapshot'[snapshot'[i].restored - 1].content = snapshot'[i].content
  <2>1. ASSUME NEW i \in 1 .. L
        PROVE  /\ snapshot'[i].revision = i + 1
               /\ snapshot'[i].score = Career!Completeness(snapshot'[i].content)
               /\ snapshot'[i].restored > 0 =>
                    /\ snapshot'[i].restored <= i
                    /\ snapshot'[snapshot'[i].restored - 1].content = snapshot'[i].content
    <3>1. /\ snapshot'[i] = snapshot[i] /\ snapshot[i].revision = i + 1
          /\ snapshot[i].score = Career!Completeness(snapshot[i].content)
          /\ snapshot[i].restored > 0 =>
               snapshot[snapshot[i].restored - 1].content = snapshot[i].content
      BY <1>1, <1>4 DEF ProfiledInv, Career!ProfileHistory
    <3>2. snapshot[i].restored \in {0} \cup 2 .. i
      BY <1>1 DEF ProfiledInv, Profiled
    <3>3. snapshot[i].restored > 0 => snapshot[i].restored <= i
                                      /\ snapshot[i].restored - 1 \in 1 .. L
      BY <1>1, <3>2
    <3> QED
      BY <1>4, <3>1, <3>3
  <2>2. ASSUME NEW k \in 1 .. n
        PROVE  /\ snapshot'[L + k].revision = L + k + 1
               /\ snapshot'[L + k].score = Career!Completeness(snapshot'[L + k].content)
               /\ snapshot'[L + k].restored > 0 =>
                    /\ snapshot'[L + k].restored <= L + k
                    /\ snapshot'[snapshot'[L + k].restored - 1].content = snapshot'[L + k].content
    <3>1. snapshot'[L + k] = row(k)
      BY <1>4
    <3>2. /\ snapshot'[L + k].revision = profile.revision + k
          /\ snapshot'[L + k].restored = from /\ snapshot'[L + k].content = contents[k]
          /\ snapshot'[L + k].score = Career!Completeness(contents[k])
      BY <3>1
    <3>3. from > 0 => from <= L + k /\ from - 1 \in 1 .. L /\ k = 1
                      /\ snapshot[from - 1].content = contents[k]
      BY <1>1, <1>6
    <3>4. snapshot'[L + k].revision = L + k + 1
      BY <1>1, <3>2
    <3>5. from > 0 => snapshot'[from - 1] = snapshot[from - 1]
      BY <1>4, <3>3
    <3>6. snapshot'[L + k].restored > 0 =>
            /\ snapshot'[L + k].restored <= L + k
            /\ snapshot'[snapshot'[L + k].restored - 1].content = snapshot'[L + k].content
      <4> SUFFICES ASSUME from > 0
                   PROVE  /\ from <= L + k
                          /\ snapshot'[from - 1].content = contents[k]
        BY <3>2
      <4> QED
        BY <3>3, <3>5
    <3> QED
      BY <3>2, <3>4, <3>6
  <2> TAKE i \in DOMAIN snapshot'
  <2>3. CASE i \in 1 .. L
    BY <2>1, <2>3
  <2>4. CASE \E k \in 1 .. n : i = L + k
    BY <2>2, <2>4
  <2> QED
    BY <1>5, <2>3, <2>4
<1>10. snapshot' # << >> /\ content' = snapshot'[Len(snapshot')].content
  <2>1. snapshot'[L + n] = row(n) /\ Len(snapshot') # 0
    BY <1>1, <1>4
  <2> QED
    BY SMTT(40), <1>3, <1>4, <2>1
<1>11. Len(snapshot') = profile'.revision - 1
  BY <1>1, <1>3, <1>4
<1>12. Career!ProfileHistory'
  BY <1>9, <1>10, <1>11 DEF Career!ProfileHistory, Career!Last
<1> QED
  BY <1>8, <1>12 DEF ProfiledInv

LEMMA OneRecordKeepsHistory ==
  ASSUME ProfiledInv, profile.revision > 0, NEW c, NEW from \in Nat,
         Career!Record(<<c>>, from),
         from = 0 \/ \E j \in DOMAIN snapshot :
                       snapshot[j].revision = from /\ snapshot[j].content = c
  PROVE  ProfiledInv'
<1>1. DOMAIN <<c>> = 1 .. Len(<<c>>) /\ Len(<<c>>) = 1 /\ <<c>>[1] = c
  OBVIOUS
<1>2. PICK contents : contents = <<c>>
  OBVIOUS
<1> QED
  BY <1>1, <1>2, RecordKeepsHistory, SMTT(60)

LEMMA LeastNumber ==
  ASSUME NEW S, S \subseteq Nat, S # {}
  PROVE  \E x \in S : \A y \in S : x <= y
<1> DEFINE less == OpToRel(<, Nat)
<1>1. \A x, y \in Nat : ~(<<y, x>> \in less) => x <= y
  BY DEF OpToRel
<1>2. IsWellFoundedOn(less, Nat)
  BY NatLessThanWellFounded, Zenon
<1> HIDE DEF less
<1>3. \E x \in S : \A y \in S : ~(<<y, x>> \in less)
  BY <1>2, WFMin
<1> QED
  BY <1>1, <1>3

\* What an import copies before the first item it refuses, if any
LEMMA CopiedIsNumber ==
  ASSUME NEW copy \in Copies, NEW refused,
         refused = {i \in DOMAIN copy : copy[i].value = Blank}
  PROVE  (IF refused = {} THEN Len(copy) ELSE Career!Min(refused) - 1) \in Int
<1>1. copy \in Seq(Career!Item)
  BY RecordsAssumption
<1>2. refused \subseteq Nat /\ Len(copy) \in Nat
  BY <1>1
<1>3. CASE refused # {}
  <2>1. \E x \in refused : \A y \in refused : x <= y
    BY <1>2, <1>3, LeastNumber
  <2>2. Career!Min(refused) \in refused
    BY <2>1 DEF Career!Min
  <2> QED
    BY <1>2, <1>3, <2>2
<1> QED
  BY <1>2, <1>3

LEMMA ChangeKeepsHistory ==
  ASSUME ProfiledInv, NEW p \in Clients, Career!Change(p)
  PROVE  ProfiledInv'
<1>1. ASSUME Career!Expected(p)
      PROVE  profile.revision > 0
  BY <1>1 DEF Career!Expected
<1>2. CASE \E value \in Values \cup {Blank} :
             Career!UpdateProfile(p, value) \/ Career!SetPreference(p, value)
  BY <1>1, <1>2, OneRecordKeepsHistory DEF Career!UpdateProfile, Career!SetPreference
<1>3. CASE \E item \in Career!Item : Career!CreateItem(p, item)
  BY <1>1, <1>3, OneRecordKeepsHistory DEF Career!CreateItem
<1>4. CASE \E id \in 1 .. MaxItems :
             \/ Career!DeleteItem(p, id)
             \/ \E value \in Values \cup {Blank} : Career!UpdateItem(p, id, value)
  BY <1>1, <1>4, OneRecordKeepsHistory DEF Career!DeleteItem, Career!UpdateItem
<1>5. CASE \E n \in 1 .. MaxProfiles : Career!Restore(p, n)
  <2>1. PICK n \in 1 .. MaxProfiles : Career!Restore(p, n)
    BY <1>5
  <2>2. PICK i \in DOMAIN snapshot :
          snapshot[i].revision = n /\ Career!Record(<<snapshot[i].content>>, n)
    BY <2>1 DEF Career!Restore
  <2>3. n \in Nat /\ profile.revision > 0
    BY <1>1, <2>1 DEF Career!Restore
  <2> QED
    BY <2>2, <2>3, OneRecordKeepsHistory
<1>6. CASE \E copy \in Copies : Career!ConfirmImport(p, copy)
  <2>1. PICK copy \in Copies : Career!ConfirmImport(p, copy)
    BY <1>6
  <2>2. PICK refused : refused = {i \in DOMAIN copy : copy[i].value = Blank}
    OBVIOUS
  <2>3. PICK n \in Int : n = IF refused = {} THEN Len(copy) ELSE Career!Min(refused) - 1
    BY <2>2, CopiedIsNumber
  <2> DEFINE Upto(k) ==
        [content EXCEPT !.items =
          [i \in DOMAIN content.items \cup (Career!NewId .. (Career!NewId + k - 1)) |->
             IF i \in DOMAIN content.items THEN content.items[i]
             ELSE copy[i - Career!NewId + 1]]]
  <2>4. Career!Expected(p) /\ n > 0 /\ Career!Record([k \in 1 .. n |-> Upto(k)], 0)
    BY <2>1, <2>2, <2>3, Zenon DEF Career!ConfirmImport
  <2> HIDE DEF Upto
  <2>5. PICK contents : contents = [k \in 1 .. n |-> Upto(k)]
    OBVIOUS
  <2>6. DOMAIN contents = 1 .. n /\ Len(contents) = n /\ n \in Nat \ {0}
    BY <2>4, <2>5
  <2> QED
    BY <1>1, <2>4, <2>5, <2>6, RecordKeepsHistory
<1> QED
  BY <1>2, <1>3, <1>4, <1>5, <1>6 DEF Career!Change

\* A GET writes nothing but the completeness it computed.
LEMMA GetKeepsHistory ==
  ASSUME ProfiledInv,
         \/ Career!FirstGet \/ Career!GetRow \/ Career!GetItems \/ Career!GetCommit
         \/ \E p \in Clients : Career!Load(p)
  PROVE  ProfiledInv'
<1>1. /\ profile \in [revision : Nat, score : Nat] /\ Len(snapshot) \in Nat
      /\ snapshot \in Seq({snapshot[i] : i \in DOMAIN snapshot})
  BY DEF ProfiledInv, Profiled
<1>2. content' = content /\ snapshot' = snapshot
  BY DEF Career!FirstGet, Career!GetRow, Career!GetItems, Career!GetCommit, Career!Load
<1>3. /\ profile' \in [revision : Nat, score : Nat]
      /\ \/ profile'.revision = profile.revision
         \/ profile.revision = 0 /\ profile'.revision = 1
  <2>1. CASE Career!FirstGet
    BY <1>1, <2>1 DEF Career!FirstGet
  <2>2. CASE Career!GetCommit
    <3>1. getting.computed \in Nat
      BY <2>2 DEF ProfiledInv, Profiled, Career!GetCommit
    <3> QED
      BY <1>1, <2>2, <3>1 DEF Career!GetCommit
  <2>3. CASE ~Career!FirstGet /\ ~Career!GetCommit
    <3>1. profile' = profile
      BY <2>3 DEF Career!GetRow, Career!GetItems, Career!Load
    <3> QED
      BY <1>1, <3>1
  <2> QED
    BY <2>1, <2>2, <2>3
<1>4. getting'.op = "items" => getting'.computed \in Nat
  <2>1. CASE Career!GetItems
    BY <2>1, CompletenessIsNumber DEF Career!GetItems
  <2>2. CASE Career!GetRow \/ Career!GetCommit
    BY <2>2 DEF Career!GetRow, Career!GetCommit, Career!NoGet
  <2>3. CASE Career!FirstGet \/ \E p \in Clients : Career!Load(p)
    BY <2>3 DEF Career!FirstGet, Career!Load, ProfiledInv, Profiled
  <2> QED
    BY <2>1, <2>2, <2>3
<1>5. profile.revision = 0 => snapshot = << >> /\ Len(snapshot) = 0
  BY DEF ProfiledInv, Profiled
<1>6. Profiled'
  BY <1>1, <1>2, <1>3, <1>4, <1>5 DEF ProfiledInv, Profiled
<1>7. Career!ProfileHistory'
  BY <1>1, <1>2, <1>3, <1>5 DEF ProfiledInv, Career!ProfileHistory
<1> QED
  BY <1>6, <1>7 DEF ProfiledInv

LEMMA CareerStarts == Career!Init => ProfiledInv
BY DEF Career!Init, Career!NoGet, Career!ProfileHistory, ProfiledInv, Profiled

LEMMA CareerKeepsInv ==
  ProfiledInv /\ [Career!Next]_profileVars => ProfiledInv'
<1>1. ASSUME ProfiledInv, UNCHANGED profileVars
      PROVE  ProfiledInv'
  BY <1>1 DEF profileVars, ProfiledInv, Profiled, Career!ProfileHistory, Career!Last
<1>2. ASSUME ProfiledInv, Career!Next
      PROVE  ProfiledInv'
  BY <1>2, GetKeepsHistory, ChangeKeepsHistory DEF Career!Next
<1> QED
  BY <1>1, <1>2

LEMMA CareerStandsAlone ==
  ASSUME [RecordsNext]_recordsVars
  PROVE  part' = part /\ [part = "career" /\ Career!Next]_profileVars
BY DEF recordsVars, RecordsNext, MaterialsStep, LibraryStep, TrackingStep, ResumesStep,
   CareerStep, MatchingStep, OnlyOf

\* Whichever changes, restores and imports a profile takes, and wherever one of
\* them is refused: its snapshots are its revisions, and a restored one holds
\* what the revision it names held.
THEOREM SnapshotsAreTheRevisions == RecordsSpec => []ProfileHistory
<1>1. RecordsInit => ProfiledInv
  BY CareerStarts DEF RecordsInit
<1>2. ProfiledInv /\ [RecordsNext]_recordsVars => ProfiledInv'
  BY CareerStandsAlone, CareerKeepsInv
<1>3. ProfiledInv => ProfileHistory
  BY DEF ProfiledInv, ProfileHistory
<1> QED
  BY <1>1, <1>2, <1>3, PTL DEF RecordsSpec, recordsVars

-----------------------------------------------------------------------------
(* The rows of files and the files (ResumeFiles)                           *)
(*                                                                         *)
(* Inductive with who holds a file that no row has yet: one transaction,   *)
(* which wrote it, and which will add a row only once it is whole, or when *)
(* it removes it from a Job import refused for its text; and with the data *)
(* of the row an import takes for its duplicate, which are its own.        *)

FileRow == [data : Datas, key : Nat, deleted : BOOLEAN]
Imported == [final : BOOLEAN, asset : Nat]
ResumeShape == [primary : BOOLEAN, archived : BOOLEAN, active : Nat, versions : Seq(Imported)]
Goals == {"keep", "import", "job"}

\* Rows a Version may have been imported from, or no row
Sources(rows) == {0} \cup {a \in DOMAIN rows : rows[a].data \notin Unencodable}

\* Resumes whose Versions were imported from the rows `from`
Refer(rows, from) ==
  /\ rows \in Seq(ResumeShape)
  /\ \A r \in DOMAIN rows : \A v \in DOMAIN rows[r].versions : rows[r].versions[v].asset \in from

\* What the disk has of the file of a row
Backed(row, now) == now = "whole" \/ (now = "removed" /\ row.data \in Unencodable)

HoldsFile(u) == u.op \in {"writing", "filed", "import"} /\ u.asset = 0

Legal(u) ==
  /\ u.op = "writing" => u \in [op : {"writing"}, goal : Goals, data : Datas, key : Nat, asset : {0}]
  /\ u.op = "filed" => u \in [op : {"filed"}, goal : Goals, data : Datas, key : Nat, asset : Nat]
  /\ u.op \in {"filed", "import"} =>
       /\ u.data \in Datas /\ u.key \in Nat /\ u.asset \in {0} \cup DOMAIN asset
       /\ u.asset # 0 => asset[u.asset].data = u.data
       /\ u.goal = "job" => u.asset = 0
  /\ u.op = "import" => u.data \notin Unencodable
  /\ HoldsFile(u) => /\ u.key \in DOMAIN disk
                     /\ disk[u.key] = IF u.op = "writing" THEN "temporary" ELSE "whole"

FilesInv ==
  /\ disk \in Seq(Resumes!FileState) /\ asset \in Seq(FileRow) /\ DOMAIN upload = Clients
  /\ Refer(resume, Sources(asset))
  /\ \A c \in Clients : Legal(upload[c])
  /\ \A c \in Clients : HoldsFile(upload[c]) =>
       \A a \in DOMAIN asset : asset[a].key # upload[c].key
  /\ \A c, d \in Clients :
       HoldsFile(upload[c]) /\ HoldsFile(upload[d]) /\ upload[c].key = upload[d].key => c = d
  /\ \A a \in DOMAIN asset : asset[a].key \in DOMAIN disk /\ Backed(asset[a], disk[asset[a].key])
  /\ \A a, b \in DOMAIN asset : asset[a].key = asset[b].key => a = b

LEMMA FilesAreThere == FilesInv => Resumes!RowsHaveFiles
<1> SUFFICES ASSUME FilesInv
             PROVE  Resumes!RowsHaveFiles
  OBVIOUS
<1>1. \A a \in DOMAIN asset : asset[a].key \in DOMAIN disk /\ Backed(asset[a], disk[asset[a].key])
  BY DEF FilesInv
<1>2. \A a \in Sources(asset) \ {0} : a \in DOMAIN asset /\ disk[asset[a].key] = "whole"
  BY <1>1 DEF Sources, Backed
<1>3. \A r \in DOMAIN resume : \A v \in DOMAIN resume[r].versions :
        resume[r].versions[v].asset \in Sources(asset)
  BY DEF FilesInv, Refer
<1>4. \A a, b \in DOMAIN asset : asset[a].key = asset[b].key => a = b
  BY DEF FilesInv
<1> QED
  BY <1>1, <1>2, <1>3, <1>4 DEF Backed, Resumes!RowsHaveFiles

(* Resumes keep referring to rows that exist. *)

LEMMA ReferLonger ==
  ASSUME NEW rows, NEW from, NEW more, from \subseteq more, Refer(rows, from)
  PROVE  Refer(rows, more)
BY DEF Refer

LEMMA SourcesGrow ==
  ASSUME NEW rows, NEW more, DOMAIN rows \subseteq DOMAIN more,
         \A a \in DOMAIN rows : more[a].data = rows[a].data
  PROVE  Sources(rows) \subseteq Sources(more)
BY DEF Sources

LEMMA ReferChanged ==
  ASSUME NEW rows, NEW from, Refer(rows, from), NEW r \in DOMAIN rows,
         NEW row \in ResumeShape, \A v \in DOMAIN row.versions : row.versions[v].asset \in from
  PROVE  Refer([rows EXCEPT ![r] = row], from)
<1>1. [rows EXCEPT ![r] = row] \in Seq(ResumeShape)
  BY DEF Refer
<1> QED
  BY <1>1 DEF Refer

LEMMA ReferAdded ==
  ASSUME NEW rows, NEW from, Refer(rows, from),
         NEW row \in ResumeShape, \A v \in DOMAIN row.versions : row.versions[v].asset \in from
  PROVE  Refer(Append(rows, row), from)
<1>1. rows \in Seq(ResumeShape)
  BY DEF Refer
<1>2. /\ Append(rows, row) \in Seq(ResumeShape) /\ Len(rows) \in Nat
      /\ DOMAIN Append(rows, row) = 1 .. (Len(rows) + 1) /\ DOMAIN rows = 1 .. Len(rows)
      /\ \A i \in 1 .. Len(rows) : Append(rows, row)[i] = rows[i]
      /\ Append(rows, row)[Len(rows) + 1] = row
  BY <1>1, AppendProperties
<1>3. \A i \in DOMAIN Append(rows, row) : i \in DOMAIN rows \/ i = Len(rows) + 1
  BY <1>2
<1> QED
  BY <1>2, <1>3 DEF Refer

LEMMA ReferCleared ==
  ASSUME NEW from, Refer(resume, from), NEW rows
  PROVE  /\ Refer(Resumes!Cleared(rows), from)
         /\ DOMAIN Resumes!Cleared(rows) = DOMAIN resume
<1>1. \A r \in DOMAIN resume : resume[r] \in ResumeShape
  BY DEF Refer
<1>2. \A row \in ResumeShape : /\ [row EXCEPT !.primary = FALSE] \in ResumeShape
                               /\ [row EXCEPT !.primary = FALSE].versions = row.versions
  BY DEF ResumeShape
<1>3. DOMAIN Resumes!Cleared(rows) = DOMAIN resume
  BY DEF Resumes!Cleared
<1>4. \A r \in DOMAIN resume : /\ Resumes!Cleared(rows)[r] \in ResumeShape
                               /\ Resumes!Cleared(rows)[r].versions = resume[r].versions
  BY <1>1, <1>2 DEF Resumes!Cleared
<1>5. Resumes!Cleared(rows) \in Seq(ResumeShape)
  <2>1. resume \in Seq(ResumeShape) /\ Len(resume) \in Nat /\ DOMAIN resume = 1 .. Len(resume)
    BY DEF Refer
  <2>2. Resumes!Cleared(rows) = [r \in 1 .. Len(resume) |-> Resumes!Cleared(rows)[r]]
    BY <2>1 DEF Resumes!Cleared
  <2> QED
    BY <1>4, <2>1, <2>2
<1> QED
  BY <1>3, <1>4, <1>5 DEF Refer

LEMMA NewResumeShape ==
  ASSUME NEW primary \in BOOLEAN, NEW versions \in Seq(Imported)
  PROVE  /\ Resumes!NewResume(primary, versions) \in ResumeShape
         /\ Resumes!NewResume(primary, versions).versions = versions
BY DEF Resumes!NewResume, ResumeShape

\* One transaction moves from its state to s: the file it holds is its own, and
\* a new row has it once it is whole, or removed for its text, and held no more.
FileMove(c, s) ==
  /\ upload' = [upload EXCEPT ![c] = s]
  /\ disk' \in Seq(Resumes!FileState) /\ asset' \in Seq(FileRow)
  /\ Len(disk) <= Len(disk') /\ Len(asset) <= Len(asset')
  /\ \A k \in DOMAIN disk : disk'[k] = disk[k] \/ (HoldsFile(upload[c]) /\ k = upload[c].key)
  /\ \A a \in DOMAIN asset : asset'[a].key = asset[a].key /\ asset'[a].data = asset[a].data
  /\ \A a \in DOMAIN asset' : a \in DOMAIN asset \/
       /\ a = Len(asset) + 1 /\ HoldsFile(upload[c]) /\ asset'[a].key = upload[c].key
       /\ Backed(asset'[a], disk'[upload[c].key]) /\ ~HoldsFile(s)
  /\ Legal(upload[c])'
  /\ HoldsFile(s) => s.key \notin DOMAIN disk \/
                      (HoldsFile(upload[c]) /\ s.key = upload[c].key)
  /\ Refer(resume', Sources(asset'))

LEMMA MoveKeepsFiles ==
  ASSUME FilesInv, NEW c \in Clients, NEW s, FileMove(c, s)
  PROVE  FilesInv'
<1> USE DEF FileMove
<1>1. /\ DOMAIN upload = Clients /\ upload'[c] = s /\ DOMAIN upload' = Clients
      /\ \A d \in Clients \ {c} : upload'[d] = upload[d]
  BY DEF FilesInv
<1>2. /\ DOMAIN disk \subseteq DOMAIN disk' /\ DOMAIN asset \subseteq DOMAIN asset'
      /\ Len(asset) \in Nat /\ Len(asset') \in Nat
  BY DEF FilesInv
<1>3. \A d \in Clients : HoldsFile(upload[d]) => upload[d].key \in DOMAIN disk
  BY DEF FilesInv, Legal
<1>4. \A d \in Clients \ {c} : Legal(upload[d])'
  <2> SUFFICES ASSUME NEW d \in Clients \ {c}
               PROVE  Legal(upload[d])'
    OBVIOUS
  <2>1. Legal(upload[d]) /\ upload'[d] = upload[d]
    BY <1>1 DEF FilesInv
  <2>2. HoldsFile(upload[d]) => disk'[upload[d].key] = disk[upload[d].key]
    <3>1. HoldsFile(upload[d]) /\ HoldsFile(upload[c]) => upload[d].key # upload[c].key
      BY DEF FilesInv
    <3> QED
      BY <1>3, <3>1
  <2> QED
    BY <1>2, <2>1, <2>2 DEF Legal, HoldsFile
<1>5. \A d \in Clients : Legal(upload[d])'
  BY <1>4
<1>6. \A d \in Clients : HoldsFile(upload'[d]) =>
        \A a \in DOMAIN asset' : asset'[a].key # upload'[d].key
  <2> SUFFICES ASSUME NEW d \in Clients, HoldsFile(upload'[d]), NEW a \in DOMAIN asset'
               PROVE  asset'[a].key # upload'[d].key
    OBVIOUS
  <2>1. CASE a \in DOMAIN asset
    <3>1. /\ asset'[a].key = asset[a].key /\ asset[a].key \in DOMAIN disk
          /\ \A e \in Clients : HoldsFile(upload[e]) => asset[a].key # upload[e].key
      BY <2>1 DEF FilesInv
    <3> QED
      BY <1>1, <3>1
  <2>2. CASE a \notin DOMAIN asset
    <3>1. HoldsFile(upload[c]) /\ asset'[a].key = upload[c].key /\ ~HoldsFile(s)
      BY <2>2
    <3>2. d # c /\ upload'[d] = upload[d]
      BY <1>1, <3>1
    <3> QED
      BY <3>1, <3>2 DEF FilesInv
  <2> QED
    BY <2>1, <2>2
<1>7. \A d, e \in Clients :
        HoldsFile(upload'[d]) /\ HoldsFile(upload'[e]) /\ upload'[d].key = upload'[e].key => d = e
  <2>1. \A d \in Clients \ {c} :
          HoldsFile(s) /\ HoldsFile(upload[d]) => s.key # upload[d].key
    BY <1>3 DEF FilesInv
  <2>2. \A d, e \in Clients \ {c} :
          HoldsFile(upload[d]) /\ HoldsFile(upload[e]) /\ upload[d].key = upload[e].key => d = e
    BY DEF FilesInv
  <2> QED
    BY <1>1, <2>1, <2>2
<1>8. \A a \in DOMAIN asset' :
        asset'[a].key \in DOMAIN disk' /\ Backed(asset'[a], disk'[asset'[a].key])
  <2> SUFFICES ASSUME NEW a \in DOMAIN asset'
               PROVE  asset'[a].key \in DOMAIN disk' /\ Backed(asset'[a], disk'[asset'[a].key])
    OBVIOUS
  <2>1. CASE a \in DOMAIN asset
    <3>1. /\ asset'[a].key = asset[a].key /\ asset[a].key \in DOMAIN disk
          /\ asset'[a].data = asset[a].data /\ Backed(asset[a], disk[asset[a].key])
          /\ HoldsFile(upload[c]) => asset[a].key # upload[c].key
      BY <2>1 DEF FilesInv
    <3> QED
      BY <1>2, <3>1 DEF Backed
  <2>2. CASE a \notin DOMAIN asset
    BY <1>2, <1>3, <2>2
  <2> QED
    BY <2>1, <2>2
<1>9. \A a, b \in DOMAIN asset' : asset'[a].key = asset'[b].key => a = b
  <2>1. \A a, b \in DOMAIN asset : asset'[a].key = asset'[b].key => a = b
    BY DEF FilesInv
  <2>2. \A a \in DOMAIN asset, b \in DOMAIN asset' \ DOMAIN asset : asset'[a].key # asset'[b].key
    <3> SUFFICES ASSUME NEW a \in DOMAIN asset, NEW b \in DOMAIN asset' \ DOMAIN asset
                 PROVE  asset'[a].key # asset'[b].key
      OBVIOUS
    <3>1. HoldsFile(upload[c]) /\ asset'[b].key = upload[c].key /\ asset'[a].key = asset[a].key
      OBVIOUS
    <3> QED
      BY <3>1 DEF FilesInv
  <2>3. \A a, b \in DOMAIN asset' \ DOMAIN asset : a = b
    OBVIOUS
  <2> QED
    BY <2>1, <2>2, <2>3
<1> QED
  BY <1>1, <1>5, <1>6, <1>7, <1>8, <1>9 DEF FilesInv

\* A transaction without a file is as legal as its state can be.
LEMMA LegalWithout ==
  ASSUME NEW u, u.op \notin {"writing", "filed", "import"}
  PROVE  Legal(u) /\ ~HoldsFile(u)
BY DEF Legal, HoldsFile

LEMMA IdleWithout == Resumes!Idle.op \notin {"writing", "filed", "import"}
BY DEF Resumes!Idle

LEMMA ResumesKeepFiles ==
  ASSUME FilesInv, UNCHANGED <<asset, disk, upload>>, Refer(resume', Sources(asset))
  PROVE  FilesInv'
BY DEF FilesInv, Legal

LEMMA StateKeepsFiles ==
  ASSUME FilesInv, NEW c \in Clients, NEW s, upload' = [upload EXCEPT ![c] = s],
         UNCHANGED <<asset, disk>>, Legal(s), Refer(resume', Sources(asset)),
         HoldsFile(s) => HoldsFile(upload[c]) /\ s.key = upload[c].key
  PROVE  FilesInv'
<1>1. upload'[c] = s /\ disk \in Seq(Resumes!FileState) /\ asset \in Seq(FileRow)
  BY DEF FilesInv
<1>2. Legal(upload[c])'
  BY <1>1 DEF Legal, HoldsFile
<1>3. FileMove(c, s)
  BY <1>1, <1>2 DEF FileMove
<1> QED
  BY <1>3, MoveKeepsFiles

LEMMA WithoutKeepsFiles ==
  ASSUME FilesInv, NEW c \in Clients, NEW s, upload' = [upload EXCEPT ![c] = s],
         UNCHANGED <<asset, disk>>, s.op \notin {"writing", "filed", "import"},
         Refer(resume', Sources(asset))
  PROVE  FilesInv'
BY LegalWithout, StateKeepsFiles

LEMMA AssetAdded ==
  ASSUME FilesInv, NEW c \in Clients, upload[c].op \in {"filed", "import"},
         NEW rows, rows = Resumes!WithAsset(c)
  PROVE  /\ rows \in Seq(FileRow) /\ Len(asset) <= Len(rows)
         /\ \A a \in DOMAIN asset : rows[a] = asset[a]
         /\ \A a \in DOMAIN rows : a \in DOMAIN asset \/
              /\ a = Len(asset) + 1 /\ HoldsFile(upload[c])
              /\ rows[a].key = upload[c].key /\ rows[a].data = upload[c].data
         /\ Resumes!AssetOf(c) \in DOMAIN rows
         /\ rows[Resumes!AssetOf(c)].data = upload[c].data
         /\ Sources(asset) \subseteq Sources(rows)
<1>1. /\ asset \in Seq(FileRow) /\ upload[c].asset \in {0} \cup DOMAIN asset
      /\ upload[c].data \in Datas /\ upload[c].key \in Nat
      /\ upload[c].asset # 0 => asset[upload[c].asset].data = upload[c].data
  BY DEF FilesInv, Legal
<1>2. CASE upload[c].asset # 0
  <2>1. rows = asset /\ Resumes!AssetOf(c) = upload[c].asset
    BY <1>2 DEF Resumes!WithAsset, Resumes!AssetOf
  <2>2. Len(asset) \in Nat /\ Len(asset) <= Len(rows) /\ Sources(asset) \subseteq Sources(rows)
    BY <1>1, <2>1
  <2>3. upload[c].asset \in DOMAIN rows /\ rows[upload[c].asset].data = upload[c].data
    BY <1>1, <1>2, <2>1
  <2> QED
    BY <1>1, <2>1, <2>2, <2>3
<1>3. CASE upload[c].asset = 0
  <2>1. PICK row : row = [data |-> upload[c].data, key |-> upload[c].key, deleted |-> FALSE]
    OBVIOUS
  <2>2. row \in FileRow /\ row.key = upload[c].key /\ row.data = upload[c].data
    BY <1>1, <2>1 DEF FileRow
  <2>3. rows = Append(asset, row) /\ Resumes!AssetOf(c) = Len(asset) + 1
    BY <1>3, <2>1 DEF Resumes!WithAsset, Resumes!AssetOf
  <2>4. HoldsFile(upload[c])
    BY <1>3 DEF HoldsFile
  <2>5. /\ rows \in Seq(FileRow) /\ Len(asset) \in Nat /\ Len(rows) = Len(asset) + 1
        /\ DOMAIN asset = 1 .. Len(asset) /\ DOMAIN rows = 1 .. (Len(asset) + 1)
        /\ \A a \in DOMAIN asset : rows[a] = asset[a]
        /\ rows[Len(asset) + 1] = row
    BY <1>1, <2>2, <2>3, AppendProperties
  <2>6. Sources(asset) \subseteq Sources(rows)
    BY <2>5, SourcesGrow
  <2> QED
    BY <2>2, <2>3, <2>4, <2>5, <2>6
<1> QED
  BY <1>2, <1>3

LEMMA CommitKeepsFiles ==
  ASSUME FilesInv, NEW c \in Clients, upload[c].op \in {"filed", "import"},
         asset' = Resumes!WithAsset(c), upload' = [upload EXCEPT ![c] = Resumes!Idle],
         UNCHANGED disk, Refer(resume', Sources(asset'))
  PROVE  FilesInv'
<1>1. /\ asset' \in Seq(FileRow) /\ Len(asset) <= Len(asset')
      /\ \A a \in DOMAIN asset : asset'[a] = asset[a]
      /\ \A a \in DOMAIN asset' : a \in DOMAIN asset \/
           (a = Len(asset) + 1 /\ HoldsFile(upload[c]) /\ asset'[a].key = upload[c].key)
  BY AssetAdded
<1>2. /\ HoldsFile(upload[c]) => disk[upload[c].key] = "whole"
      /\ disk \in Seq(Resumes!FileState) /\ upload'[c] = Resumes!Idle
  BY DEF FilesInv, Legal
<1>3. Legal(upload[c])' /\ ~HoldsFile(Resumes!Idle)
  BY <1>2, IdleWithout DEF Legal, HoldsFile
<1>4. PICK s : s = Resumes!Idle
  OBVIOUS
<1>5. FileMove(c, s)
  BY <1>1, <1>2, <1>3, <1>4 DEF FileMove, Backed
<1> QED
  BY <1>5, MoveKeepsFiles

\* A file is written whole, or removed: only the one the transaction holds.
LEMMA WriteKeepsFiles ==
  ASSUME FilesInv, NEW c \in Clients, HoldsFile(upload[c]), NEW now \in Resumes!FileState,
         disk' = [disk EXCEPT ![upload[c].key] = now],
         NEW s, upload' = [upload EXCEPT ![c] = s], UNCHANGED <<resume, asset>>,
         \/ s = Resumes!Idle
         \/ /\ upload[c].op = "writing" /\ now = "whole"
            /\ s = [upload[c] EXCEPT !.op = "filed"]
  PROVE  FilesInv'
<1>1. /\ disk \in Seq(Resumes!FileState) /\ asset \in Seq(FileRow) /\ upload'[c] = s
      /\ upload[c].key \in DOMAIN disk /\ Refer(resume, Sources(asset)) /\ Legal(upload[c])
      /\ Len(asset) \in Nat
  BY DEF FilesInv, Legal
<1>2. /\ disk' \in Seq(Resumes!FileState) /\ Len(disk') = Len(disk) /\ DOMAIN disk' = DOMAIN disk
      /\ Len(disk) \in Nat
  BY <1>1
<1>3. CASE s = Resumes!Idle
  <2>1. Legal(upload[c])' /\ ~HoldsFile(s)
    BY <1>1, <1>3, IdleWithout DEF Legal, HoldsFile
  <2>2. FileMove(c, s)
    BY <1>1, <1>2, <2>1 DEF FileMove
  <2> QED
    BY <2>2, MoveKeepsFiles
<1>4. CASE /\ upload[c].op = "writing" /\ now = "whole"
           /\ s = [upload[c] EXCEPT !.op = "filed"]
  <2>1. upload[c] \in [op : {"writing"}, goal : Goals, data : Datas, key : Nat, asset : {0}]
    BY <1>1, <1>4 DEF Legal
  <2>2. /\ s \in [op : {"filed"}, goal : Goals, data : Datas, key : Nat, asset : {0}]
        /\ s.key = upload[c].key
    BY <1>4, <2>1
  <2>3. Legal(upload[c])'
    <3>1. /\ s.op = "filed" /\ s.data \in Datas /\ s.key \in Nat /\ s.asset = 0
          /\ s \in [op : {"filed"}, goal : Goals, data : Datas, key : Nat, asset : Nat]
      BY <2>2
    <3>2. s.key \in DOMAIN disk' /\ disk'[s.key] = "whole"
      BY <1>1, <1>2, <1>4, <2>2
    <3> QED
      BY <1>1, <3>1, <3>2 DEF Legal, HoldsFile
  <2>4. FileMove(c, s)
    BY <1>1, <1>2, <2>2, <2>3 DEF FileMove
  <2> QED
    BY <2>4, MoveKeepsFiles
<1> QED
  BY <1>3, <1>4

\* Uploads and deletions, up to the commit of their rows
LEMMA FileStepKeepsFiles ==
  ASSUME FilesInv, NEW c \in Clients, Resumes!FileStep(c)
  PROVE  FilesInv'
<1>1. /\ disk \in Seq(Resumes!FileState) /\ asset \in Seq(FileRow) /\ Legal(upload[c])
      /\ Len(disk) \in Nat /\ Len(asset) \in Nat /\ DOMAIN asset = 1 .. Len(asset)
      /\ Refer(resume, Sources(asset)) /\ c \in DOMAIN upload
  BY DEF FilesInv
<1>2. ASSUME NEW data \in Datas, NEW goal \in Goals, Resumes!UploadDuplicate(c, data, goal)
      PROVE  FilesInv'
  <2>1. PICK a \in Resumes!Duplicates(data) :
          Resumes!Begin(c, [op |-> "filed", goal |-> goal, data |-> data, key |-> 0, asset |-> a])
    BY <1>2 DEF Resumes!UploadDuplicate
  <2>2. PICK s : s = [op |-> "filed", goal |-> goal, data |-> data, key |-> 0, asset |-> a]
    OBVIOUS
  <2>3. a \in DOMAIN asset /\ a # 0 /\ asset[a].data = data /\ a \in Nat /\ goal # "job"
    BY <1>1, <1>2, <2>1 DEF Resumes!Duplicates, Resumes!UploadDuplicate
  <2>4. Legal(s) /\ ~HoldsFile(s)
    BY <2>2, <2>3 DEF Legal, HoldsFile
  <2>5. /\ upload' = [upload EXCEPT ![c] = s] /\ UNCHANGED <<asset, disk>>
        /\ Refer(resume', Sources(asset))
    BY <1>1, <1>2, <2>1, <2>2 DEF Resumes!UploadDuplicate, Resumes!Begin
  <2> QED
    BY <2>4, <2>5, StateKeepsFiles
<1>3. ASSUME NEW data \in Datas, NEW goal \in Goals, Resumes!WriteBegin(c, data, goal)
      PROVE  FilesInv'
  <2>1. PICK s : s = [op |-> "writing", goal |-> goal, data |-> data, key |-> Len(disk) + 1,
                      asset |-> 0]
    OBVIOUS
  <2>2. /\ upload' = [upload EXCEPT ![c] = s] /\ UNCHANGED <<resume, asset>>
        /\ disk' = Append(disk, "temporary")
    BY <1>3, <2>1 DEF Resumes!WriteBegin, Resumes!Begin
  <2>3. /\ disk' \in Seq(Resumes!FileState) /\ Len(disk') = Len(disk) + 1
        /\ DOMAIN disk = 1 .. Len(disk) /\ DOMAIN disk' = 1 .. (Len(disk) + 1)
        /\ \A k \in DOMAIN disk : disk'[k] = disk[k]
        /\ disk'[Len(disk) + 1] = "temporary"
    BY <1>1, <2>2, AppendProperties DEF Resumes!FileState
  <2>4. Legal(upload[c])' /\ s.key \notin DOMAIN disk
    <3>1. /\ s \in [op : {"writing"}, goal : Goals, data : Datas, key : Nat, asset : {0}]
          /\ s.op = "writing" /\ s.key = Len(disk) + 1
      BY <1>1, <2>1
    <3>2. upload'[c] = s
      BY <1>1, <2>2
    <3> QED
      BY <1>1, <2>3, <3>1, <3>2 DEF Legal, HoldsFile
  <2>5. FileMove(c, s)
    BY <1>1, <2>2, <2>3, <2>4 DEF FileMove
  <2> QED
    BY <2>5, MoveKeepsFiles
<1>4. CASE Resumes!WriteEnd(c)
  <2>1. HoldsFile(upload[c]) /\ "whole" \in Resumes!FileState
    BY <1>1, <1>4 DEF Resumes!WriteEnd, Legal, HoldsFile, Resumes!FileState
  <2> QED
    BY <1>4, <2>1, WriteKeepsFiles DEF Resumes!WriteEnd, Resumes!Goto
<1>5. CASE Resumes!WriteFails(c)
  <2>1. HoldsFile(upload[c]) /\ "removed" \in Resumes!FileState
    BY <1>1, <1>5 DEF Resumes!WriteFails, Legal, HoldsFile, Resumes!FileState
  <2> QED
    BY <1>5, <2>1, WriteKeepsFiles DEF Resumes!WriteFails, Resumes!Goto
<1>6. CASE Resumes!FileCommit(c)
  <2>1. Sources(asset) \subseteq Sources(asset')
    BY <1>6, AssetAdded DEF Resumes!FileCommit
  <2>2. Refer(resume', Sources(asset'))
    BY <1>1, <1>6, <2>1, ReferLonger DEF Resumes!FileCommit
  <2> QED
    BY <1>6, <2>2, CommitKeepsFiles DEF Resumes!FileCommit, Resumes!Goto
<1>7. CASE Resumes!JobFileFails(c)
  <2>1. HoldsFile(upload[c]) /\ "removed" \in Resumes!FileState
    BY <1>1, <1>7 DEF Resumes!JobFileFails, Legal, HoldsFile, Resumes!FileState
  <2> QED
    BY <1>7, <2>1, WriteKeepsFiles DEF Resumes!JobFileFails, Resumes!Goto
<1>8. CASE \E a \in 1 .. MaxFiles : Resumes!DeleteRead(c, a)
  <2>1. PICK a \in 1 .. MaxFiles : Resumes!DeleteRead(c, a)
    BY <1>8
  <2>2. PICK s : s = [op |-> "delete", asset |-> a]
    OBVIOUS
  <2>3. /\ upload' = [upload EXCEPT ![c] = s] /\ UNCHANGED <<resume, asset, disk>>
        /\ s.op \notin {"writing", "filed", "import"}
    BY <2>1, <2>2 DEF Resumes!DeleteRead, Resumes!Begin
  <2> QED
    BY <1>1, <2>3, WithoutKeepsFiles
<1>9. CASE Resumes!DeleteCommit(c)
  <2>1. PICK a : a = upload[c].asset
    OBVIOUS
  <2>2. PICK s : s = Resumes!Idle
    OBVIOUS
  <2>3. /\ asset' = [asset EXCEPT ![a].deleted = TRUE] /\ UNCHANGED <<resume, disk>>
        /\ upload' = [upload EXCEPT ![c] = s]
    BY <1>9, <2>1, <2>2 DEF Resumes!DeleteCommit, Resumes!Goto
  <2>4. /\ asset' \in Seq(FileRow) /\ Len(asset') = Len(asset)
        /\ \A b \in DOMAIN asset : asset'[b].key = asset[b].key /\ asset'[b].data = asset[b].data
    <3>1. PICK row : row = [asset[a] EXCEPT !.deleted = TRUE]
      OBVIOUS
    <3>2. asset' = [asset EXCEPT ![a] = row]
      BY <2>3, <3>1
    <3>3. a \in DOMAIN asset => /\ row \in FileRow
                                /\ row.key = asset[a].key /\ row.data = asset[a].data
      <4>1. a \in DOMAIN asset => asset[a] \in FileRow
        BY <1>1
      <4> QED
        BY <3>1, <4>1 DEF FileRow
    <3>4. CASE a \in DOMAIN asset
      <4>1. \A b \in DOMAIN asset : asset'[b] = IF b = a THEN row ELSE asset[b]
        BY <3>2
      <4>2. asset' \in Seq(FileRow) /\ Len(asset') = Len(asset)
        BY <1>1, <3>2, <3>3, <3>4
      <4> QED
        BY <3>3, <3>4, <4>1, <4>2
    <3>5. CASE a \notin DOMAIN asset
      <4>1. asset' = asset
        BY <1>1, <3>2, <3>5
      <4> QED
        BY <1>1, <4>1
    <3> QED
      BY <3>4, <3>5
  <2>5. Legal(upload[c])' /\ ~HoldsFile(s)
    <3>1. upload'[c] = s
      BY <1>1, <2>3
    <3> QED
      BY <2>2, <3>1, IdleWithout DEF Legal, HoldsFile
  <2>6. Refer(resume', Sources(asset'))
    <3>1. DOMAIN asset' = DOMAIN asset
      BY <1>1, <2>4
    <3>2. \A b \in DOMAIN asset : asset'[b].data = asset[b].data
      BY <2>4
    <3>3. Sources(asset) \subseteq Sources(asset')
      BY <3>1, <3>2, SourcesGrow
    <3> QED
      BY <1>1, <2>3, <3>3, ReferLonger
  <2>7. FileMove(c, s)
    BY <1>1, <2>3, <2>4, <2>5, <2>6 DEF FileMove
  <2> QED
    BY <2>7, MoveKeepsFiles
<1>10. CASE Resumes!JobFileRefused(c)
  <2>1. PICK s : s = Resumes!Idle
    OBVIOUS
  <2>2. /\ upload[c].op = "filed" /\ upload[c].data \in Unencodable
        /\ disk' = [disk EXCEPT ![upload[c].key] = "removed"] /\ asset' = Resumes!WithAsset(c)
        /\ upload' = [upload EXCEPT ![c] = s] /\ UNCHANGED resume
    BY <1>10, <2>1 DEF Resumes!JobFileRefused, Resumes!Goto
  <2>3. HoldsFile(upload[c]) /\ upload[c].key \in DOMAIN disk
    BY <1>1, <1>10 DEF Resumes!JobFileRefused, Legal, HoldsFile
  <2>4. /\ disk' \in Seq(Resumes!FileState) /\ Len(disk') = Len(disk)
        /\ \A k \in DOMAIN disk : disk'[k] = disk[k] \/ k = upload[c].key
        /\ disk'[upload[c].key] = "removed"
    BY <1>1, <2>2, <2>3 DEF Resumes!FileState
  <2>5. /\ asset' \in Seq(FileRow) /\ Len(asset) <= Len(asset')
        /\ \A a \in DOMAIN asset : asset'[a] = asset[a]
        /\ \A a \in DOMAIN asset' : a \in DOMAIN asset \/
             /\ a = Len(asset) + 1
             /\ asset'[a].key = upload[c].key /\ asset'[a].data = upload[c].data
        /\ Sources(asset) \subseteq Sources(asset')
    BY <2>2, AssetAdded
  <2>6. Legal(upload[c])' /\ ~HoldsFile(s)
    <3>1. upload'[c] = s
      BY <1>1, <2>2
    <3> QED
      BY <2>1, <3>1, IdleWithout DEF Legal, HoldsFile
  <2>7. Refer(resume', Sources(asset'))
    BY <1>1, <2>2, <2>5, ReferLonger
  <2>8. \A a \in DOMAIN asset' : a \in DOMAIN asset \/
          /\ a = Len(asset) + 1 /\ HoldsFile(upload[c]) /\ asset'[a].key = upload[c].key
          /\ Backed(asset'[a], disk'[upload[c].key]) /\ ~HoldsFile(s)
    BY <2>2, <2>3, <2>4, <2>5, <2>6 DEF Backed
  <2>9. FileMove(c, s)
    BY <1>1, <2>2, <2>3, <2>4, <2>5, <2>6, <2>7, <2>8 DEF FileMove
  <2> QED
    BY <2>9, MoveKeepsFiles
<1> QED
  BY <1>2, <1>3, <1>4, <1>5, <1>6, <1>7, <1>8, <1>9, <1>10 DEF Resumes!FileStep, Goals

\* Archiving changes no Version.  (An id that is no row changes nothing.)
LEMMA EffectRefers ==
  ASSUME NEW rows, NEW from, Refer(rows, from), NEW r, NEW row,
         r \in DOMAIN rows => row \in ResumeShape /\ row.versions = rows[r].versions
  PROVE  Refer([rows EXCEPT ![r] = row], from)
<1>1. CASE r \in DOMAIN rows
  <2>1. \A v \in DOMAIN row.versions : row.versions[v].asset \in from
    BY <1>1 DEF Refer
  <2> QED
    BY <1>1, <2>1, ReferChanged
<1>2. CASE r \notin DOMAIN rows
  <2>1. [rows EXCEPT ![r] = row] = rows
    BY <1>2 DEF Refer
  <2> QED
    BY <2>1
<1> QED
  BY <1>1, <1>2

LEMMA ArchivedRefers ==
  ASSUME NEW c \in Clients, NEW from, Refer(resume, from), Resumes!ArchiveCommit(c)
  PROVE  Refer(resume', from)
<1>1. \A r \in DOMAIN resume : resume[r] \in ResumeShape
  BY DEF Refer
<1>2. \A r \in DOMAIN resume : /\ Resumes!Archived(r) \in ResumeShape
                               /\ Resumes!Archived(r).versions = resume[r].versions
  BY <1>1 DEF Resumes!Archived, ResumeShape
<1>3. PICK r : r = upload[c].resume
  OBVIOUS
<1>4. CASE resume' = [resume EXCEPT ![r] = Resumes!Archived(r)]
  BY <1>2, <1>4, EffectRefers
<1>5. ASSUME NEW remaining, NEW without,
             without = [Resumes!Cleared(remaining) EXCEPT ![r] = Resumes!Archived(r)],
             \/ resume' = without
             \/ \E next \in remaining : resume' = [without EXCEPT ![next].primary = TRUE]
      PROVE  Refer(resume', from)
  <2>1. PICK cleared : cleared = Resumes!Cleared(remaining)
    OBVIOUS
  <2>2. Refer(cleared, from) /\ DOMAIN cleared = DOMAIN resume
        /\ \A i \in DOMAIN resume : cleared[i].versions = resume[i].versions
    <3>1. Refer(cleared, from) /\ DOMAIN cleared = DOMAIN resume
      BY <2>1, ReferCleared
    <3>2. \A i \in DOMAIN resume : cleared[i].versions = resume[i].versions
      BY <1>1, <2>1 DEF Resumes!Cleared, ResumeShape
    <3> QED
      BY <3>1, <3>2
  <2>3. Refer(without, from)
    <3>1. r \in DOMAIN cleared => /\ Resumes!Archived(r) \in ResumeShape
                                  /\ Resumes!Archived(r).versions = cleared[r].versions
      BY <1>2, <2>2
    <3>2. PICK row : row = Resumes!Archived(r)
      OBVIOUS
    <3> QED
      BY <1>5, <2>1, <2>2, <3>1, <3>2, EffectRefers
  <2>4. CASE \E next \in remaining : resume' = [without EXCEPT ![next].primary = TRUE]
    <3>1. PICK next : resume' = [without EXCEPT ![next].primary = TRUE]
      BY <2>4
    <3>2. PICK row : row = [without[next] EXCEPT !.primary = TRUE]
      OBVIOUS
    <3>3. resume' = [without EXCEPT ![next] = row]
      BY <3>1, <3>2
    <3>4. next \in DOMAIN without => without[next] \in ResumeShape
      BY <2>3 DEF Refer
    <3>5. next \in DOMAIN without => row \in ResumeShape /\ row.versions = without[next].versions
      BY <3>2, <3>4 DEF ResumeShape
    <3> QED
      BY <2>3, <3>3, <3>5, EffectRefers
  <2> QED
    BY <1>5, <2>3, <2>4
<1>6. ASSUME NEW remaining,
             LET without == [Resumes!Cleared(remaining) EXCEPT ![r] = Resumes!Archived(r)]
             IN \/ resume' = without
                \/ \E next \in remaining : resume' = [without EXCEPT ![next].primary = TRUE]
      PROVE  Refer(resume', from)
  <2>1. PICK without : without = [Resumes!Cleared(remaining) EXCEPT ![r] = Resumes!Archived(r)]
    OBVIOUS
  <2> QED
    BY <1>5, <1>6, <2>1
<1>7. \/ resume' = [resume EXCEPT ![r] = Resumes!Archived(r)]
      \/ LET remaining == upload[c].seen \cap Resumes!ActiveResumes
             without == [Resumes!Cleared(remaining) EXCEPT ![r] = Resumes!Archived(r)]
         IN \/ resume' = without
            \/ \E next \in remaining : resume' = [without EXCEPT ![next].primary = TRUE]
  BY <1>3, Zenon DEF Resumes!ArchiveCommit
<1> QED
  BY <1>4, <1>6, <1>7

\* Imports, and Resumes created and archived
LEMMA ResumeStepKeepsFiles ==
  ASSUME FilesInv, NEW c \in Clients, Resumes!ResumeStep(c)
  PROVE  FilesInv'
<1>1. /\ asset \in Seq(FileRow) /\ Legal(upload[c]) /\ Len(asset) \in Nat
      /\ Refer(resume, Sources(asset)) /\ c \in DOMAIN upload
  BY DEF FilesInv
<1>2. \A r \in DOMAIN resume : resume[r] \in ResumeShape
  BY <1>1 DEF Refer
<1>3. << >> \in Seq(Imported)
  OBVIOUS
<1>4. CASE Resumes!ImportLock(c)
  <2>1. PICK s : s = [op |-> "import", goal |-> "import", data |-> upload[c].data,
                      key |-> upload[c].key, asset |-> upload[c].asset,
                      seen |-> Resumes!ActiveResumes]
    OBVIOUS
  <2>2. /\ upload' = [upload EXCEPT ![c] = s] /\ UNCHANGED <<resume, asset, disk>>
        /\ upload[c].op = "filed"
    BY <1>4, <2>1 DEF Resumes!ImportLock, Resumes!Goto
  <2>3. /\ s.op = "import" /\ s.goal = "import" /\ s.data = upload[c].data
        /\ s.key = upload[c].key /\ s.asset = upload[c].asset
    BY <2>1
  <2>4. s.data \notin Unencodable
    BY <1>4, <2>3, EncodingAssumption DEF Resumes!ImportLock
  <2>5. Legal(s) /\ (HoldsFile(s) => HoldsFile(upload[c]))
    BY <1>1, <2>2, <2>3, <2>4 DEF Legal, HoldsFile
  <2> QED
    BY <1>1, <2>2, <2>3, <2>5, StateKeepsFiles
<1>5. CASE Resumes!ImportRefused(c)
  <2>1. Sources(asset) \subseteq Sources(asset')
    BY <1>5, AssetAdded DEF Resumes!ImportRefused
  <2>2. PICK new : new = Resumes!NewResume(FALSE, << >>)
    OBVIOUS
  <2>3. new \in ResumeShape /\ new.versions = << >>
    BY <1>3, <2>2, NewResumeShape
  <2>4. Refer(resume, Sources(asset'))
    BY <1>1, <2>1, ReferLonger
  <2>5. Refer(Append(resume, new), Sources(asset'))
    BY <2>1, <2>3, <2>4, ReferAdded
  <2> QED
    BY <1>5, <2>2, <2>5, CommitKeepsFiles DEF Resumes!ImportRefused, Resumes!Goto
<1>6. CASE Resumes!ImportCommit(c)
  <2>1. /\ Sources(asset) \subseteq Sources(asset') /\ Resumes!AssetOf(c) \in DOMAIN asset'
        /\ asset'[Resumes!AssetOf(c)].data = upload[c].data
    BY <1>6, AssetAdded DEF Resumes!ImportCommit
  <2>10. upload[c].data \notin Unencodable
    BY <1>1, <1>6 DEF Resumes!ImportCommit, Legal
  <2>2. PICK imported : imported = [final |-> FALSE, asset |-> Resumes!AssetOf(c)]
    OBVIOUS
  <2>3. imported \in Imported /\ imported.asset \in Sources(asset')
    <3>1. asset' \in Seq(FileRow)
      BY <1>6, AssetAdded DEF Resumes!ImportCommit
    <3>2. Resumes!AssetOf(c) \in Nat
      BY <2>1, <3>1
    <3> QED
      BY <2>1, <2>2, <2>10, <3>2 DEF Imported, Sources
  <2>4. PICK new : new = Resumes!NewResume(TRUE, <<imported>>)
    OBVIOUS
  <2>5. new \in ResumeShape /\ new.versions = <<imported>>
    <3>0. PICK versions : versions = <<imported>>
      OBVIOUS
    <3>1. versions = <<imported>> /\ versions \in Seq(Imported)
      BY <2>3, <3>0
    <3>2. new = Resumes!NewResume(TRUE, versions)
      BY <2>4, <3>1
    <3>3. new \in ResumeShape /\ new.versions = versions
      BY <3>1, <3>2, NewResumeShape
    <3> QED
      BY <3>1, <3>3
  <2>6. PICK rows : rows = Resumes!Cleared(upload[c].seen)
    OBVIOUS
  <2>7. Refer(rows, Sources(asset'))
    BY <1>1, <2>1, <2>6, ReferCleared, ReferLonger
  <2>8. Refer(Append(rows, new), Sources(asset'))
    BY <2>1, <2>3, <2>5, <2>7, ReferAdded
  <2> QED
    BY <1>6, <2>2, <2>4, <2>6, <2>8, CommitKeepsFiles DEF Resumes!ImportCommit, Resumes!Goto
<1>7. CASE Resumes!CreateRead(c)
  <2>1. PICK s : s = [op |-> IF Resumes!Primary = {} THEN "create_all" ELSE "create"]
    OBVIOUS
  <2>2. s.op \notin {"writing", "filed", "import"}
    BY <2>1
  <2> QED
    BY <1>1, <1>7, <2>1, <2>2, WithoutKeepsFiles DEF Resumes!CreateRead, Resumes!Begin
<1>8. CASE Resumes!CreateLock(c)
  <2>1. PICK s : s = [op |-> "create_primary", seen |-> Resumes!ActiveResumes]
    OBVIOUS
  <2>2. s.op \notin {"writing", "filed", "import"}
    BY <2>1
  <2> QED
    BY <1>1, <1>8, <2>1, <2>2, WithoutKeepsFiles DEF Resumes!CreateLock, Resumes!Goto
<1>9. CASE Resumes!CreateCommit(c)
  <2>1. PICK s : s = Resumes!Idle
    OBVIOUS
  <2>2. /\ upload' = [upload EXCEPT ![c] = s] /\ UNCHANGED <<asset, disk>>
        /\ \/ resume' = Append(resume, Resumes!NewResume(FALSE, << >>))
           \/ resume' = Append(Resumes!Cleared(upload[c].seen), Resumes!NewResume(TRUE, << >>))
    BY <1>9, <2>1 DEF Resumes!CreateCommit, Resumes!Goto
  <2>3. \A b \in BOOLEAN : /\ Resumes!NewResume(b, << >>) \in ResumeShape
                           /\ Resumes!NewResume(b, << >>).versions = << >>
    BY <1>3, NewResumeShape
  <2>4. PICK rows, new : /\ resume' = Append(rows, new) /\ Refer(rows, Sources(asset))
                         /\ new \in ResumeShape /\ new.versions = << >>
    BY <1>1, <2>2, <2>3, ReferCleared
  <2>5. Refer(resume', Sources(asset))
    BY <1>1, <2>4, ReferAdded
  <2> QED
    BY <2>1, <2>2, <2>5, IdleWithout, WithoutKeepsFiles
<1>10. CASE \E r \in 1 .. MaxResumes : Resumes!ArchiveLock(c, r)
  <2>1. PICK r \in 1 .. MaxResumes : Resumes!ArchiveLock(c, r)
    BY <1>10
  <2>2. PICK s : s = [op |-> "archive", resume |-> r, primary |-> resume[r].primary]
    OBVIOUS
  <2>3. s.op \notin {"writing", "filed", "import"}
    BY <2>2
  <2>4. upload' = [upload EXCEPT ![c] = s] /\ UNCHANGED <<resume, asset, disk>>
    BY <2>1, <2>2 DEF Resumes!ArchiveLock, Resumes!Begin
  <2> QED
    BY <1>1, <2>3, <2>4, WithoutKeepsFiles
<1>11. CASE Resumes!ArchiveAll(c)
  <2>1. PICK s : s = [op |-> "archive_all", resume |-> upload[c].resume,
                      seen |-> Resumes!ActiveResumes \ {upload[c].resume}]
    OBVIOUS
  <2>2. s.op \notin {"writing", "filed", "import"}
    BY <2>1
  <2>3. upload' = [upload EXCEPT ![c] = s] /\ UNCHANGED <<resume, asset, disk>>
    BY <1>11, <2>1 DEF Resumes!ArchiveAll, Resumes!Goto
  <2> QED
    BY <1>1, <2>2, <2>3, WithoutKeepsFiles
<1>12. CASE Resumes!ArchiveCommit(c)
  <2>1. PICK s : s = Resumes!Idle
    OBVIOUS
  <2>2. upload' = [upload EXCEPT ![c] = s] /\ UNCHANGED <<asset, disk>>
    BY <1>12, <2>1 DEF Resumes!ArchiveCommit, Resumes!Goto
  <2>3. Refer(resume', Sources(asset))
    BY <1>1, <1>12, ArchivedRefers
  <2> QED
    BY <2>1, <2>2, <2>3, IdleWithout, WithoutKeepsFiles
<1>13. CASE Resumes!Abort(c)
  <2>1. PICK s : s = Resumes!Idle
    OBVIOUS
  <2> QED
    BY <1>1, <1>13, <2>1, IdleWithout, WithoutKeepsFiles DEF Resumes!Abort, Resumes!Goto
<1> QED
  BY <1>4, <1>5, <1>6, <1>7, <1>8, <1>9, <1>10, <1>11, <1>12, <1>13 DEF Resumes!ResumeStep

\* A Version of a Resume is written, finalized or made active.
LEMMA VersionStepKeepsFiles ==
  ASSUME FilesInv, NEW r, NEW v,
         Resumes!CreateVersion(r) \/ Resumes!Finalize(r, v) \/ Resumes!SetActive(r, v)
  PROVE  FilesInv'
<1>1. /\ UNCHANGED <<asset, disk, upload>> /\ r \in DOMAIN resume
      /\ Refer(resume, Sources(asset)) /\ Len(asset) \in Nat
  BY DEF FilesInv, Resumes!CreateVersion, Resumes!Finalize, Resumes!SetActive,
     Resumes!ActiveResumes
<1>2. PICK old : old = resume[r]
  OBVIOUS
<1>3. /\ old \in ResumeShape /\ old.versions \in Seq(Imported) /\ old.active \in Nat
      /\ \A w \in DOMAIN old.versions : old.versions[w].asset \in Sources(asset)
  <2>1. /\ old \in ResumeShape
        /\ \A w \in DOMAIN old.versions : old.versions[w].asset \in Sources(asset)
    BY <1>1, <1>2 DEF Refer
  <2> QED
    BY <2>1 DEF ResumeShape
<1>4. ASSUME NEW row \in ResumeShape, resume' = [resume EXCEPT ![r] = row],
             \A w \in DOMAIN row.versions : row.versions[w].asset \in Sources(asset)
      PROVE  FilesInv'
  BY <1>1, <1>4, ReferChanged, ResumesKeepFiles
<1>5. CASE Resumes!CreateVersion(r)
  <2>1. PICK written : written = [final |-> FALSE, asset |-> 0]
    OBVIOUS
  <2>2. PICK versions : versions = Append(old.versions, written)
    OBVIOUS
  <2>3. PICK active : active = IF old.active = 0 THEN Len(old.versions) + 1 ELSE old.active
    OBVIOUS
  <2>4. PICK row : row = [[old EXCEPT !.versions = versions] EXCEPT !.active = active]
    OBVIOUS
  <2>5. written \in Imported /\ written.asset \in Sources(asset)
    BY <2>1 DEF Imported, Sources
  <2>6. /\ versions \in Seq(Imported) /\ active \in Nat
        /\ \A w \in DOMAIN versions : versions[w].asset \in Sources(asset)
    <3>1. /\ versions \in Seq(Imported) /\ Len(old.versions) \in Nat
          /\ DOMAIN versions = 1 .. (Len(old.versions) + 1)
          /\ DOMAIN old.versions = 1 .. Len(old.versions)
          /\ \A w \in 1 .. Len(old.versions) : versions[w] = old.versions[w]
          /\ versions[Len(old.versions) + 1] = written
      BY <1>3, <2>2, <2>5, AppendProperties
    <3>2. \A w \in DOMAIN versions : w \in DOMAIN old.versions \/ w = Len(old.versions) + 1
      BY <3>1
    <3>3. \A w \in DOMAIN versions : versions[w].asset \in Sources(asset)
      BY <1>1, <1>3, <2>5, <3>1, <3>2
    <3> QED
      BY <1>3, <2>3, <3>1, <3>3
  <2>7. row \in ResumeShape /\ row.versions = versions
    BY <1>3, <2>4, <2>6 DEF ResumeShape
  <2>8. resume' = [resume EXCEPT ![r] = row]
    BY <1>2, <1>5, <2>1, <2>2, <2>3, <2>4 DEF Resumes!CreateVersion
  <2> QED
    BY <1>4, <2>6, <2>7, <2>8
<1>6. CASE Resumes!Finalize(r, v)
  <2>1. PICK final : final = [old.versions[v] EXCEPT !.final = TRUE]
    OBVIOUS
  <2>2. PICK versions : versions = [old.versions EXCEPT ![v] = final]
    OBVIOUS
  <2>3. PICK row : row = [[old EXCEPT !.versions = versions] EXCEPT !.active = v]
    OBVIOUS
  <2>4. v \in DOMAIN old.versions /\ v \in Nat
    <3>1. v \in DOMAIN old.versions
      BY <1>2, <1>6 DEF Resumes!Finalize
    <3> QED
      BY <1>3, <3>1
  <2>5. final \in Imported /\ final.asset = old.versions[v].asset
    <3>1. old.versions[v] \in Imported
      BY <1>3, <2>4
    <3> QED
      BY <2>1, <3>1 DEF Imported
  <2>6. /\ versions \in Seq(Imported)
        /\ \A w \in DOMAIN versions : versions[w].asset \in Sources(asset)
    BY <1>3, <2>2, <2>4, <2>5
  <2>7. row \in ResumeShape /\ row.versions = versions
    BY <1>3, <2>3, <2>4, <2>6 DEF ResumeShape
  <2>8. resume' = [resume EXCEPT ![r] = row]
    BY <1>2, <1>6, <2>1, <2>2, <2>3 DEF Resumes!Finalize
  <2> QED
    BY <1>4, <2>6, <2>7, <2>8
<1>7. CASE Resumes!SetActive(r, v)
  <2>1. PICK row : row = [old EXCEPT !.active = v]
    OBVIOUS
  <2>2. v \in Nat
    <3>1. v \in DOMAIN old.versions
      BY <1>2, <1>7 DEF Resumes!SetActive
    <3> QED
      BY <1>3, <3>1
  <2>3. row \in ResumeShape /\ row.versions = old.versions
    BY <1>3, <2>1, <2>2 DEF ResumeShape
  <2>4. resume' = [resume EXCEPT ![r] = row]
    BY <1>2, <1>7, <2>1 DEF Resumes!SetActive
  <2> QED
    BY <1>3, <1>4, <2>3, <2>4
<1> QED
  BY <1>5, <1>6, <1>7

LEMMA ResumesStart == Resumes!Init => FilesInv
<1> SUFFICES ASSUME Resumes!Init
             PROVE  FilesInv
  OBVIOUS
<1>1. /\ resume = << >> /\ asset = << >> /\ disk = << >> /\ DOMAIN upload = Clients
      /\ \A c \in Clients : upload[c] = Resumes!Idle
  BY DEF Resumes!Init
<1>2. \A c \in Clients : Legal(upload[c]) /\ ~HoldsFile(upload[c])
  BY <1>1, IdleWithout, LegalWithout
<1> QED
  BY <1>1, <1>2 DEF FilesInv, Refer

LEMMA ResumesKeepInv ==
  FilesInv /\ [Resumes!Next]_resumeVars => FilesInv'
<1>1. ASSUME FilesInv, UNCHANGED resumeVars
      PROVE  FilesInv'
  BY <1>1, ResumesKeepFiles DEF resumeVars, FilesInv
<1>2. ASSUME FilesInv, Resumes!Next
      PROVE  FilesInv'
  <2>1. CASE \E c \in Clients : Resumes!FileStep(c) \/ Resumes!ResumeStep(c)
    BY <1>2, <2>1, FileStepKeepsFiles, ResumeStepKeepsFiles
  <2>2. CASE \E r \in 1 .. MaxResumes : Resumes!CreateVersion(r)
    BY <1>2, <2>2, VersionStepKeepsFiles
  <2>3. CASE \E r \in 1 .. MaxResumes, v \in 1 .. MaxResumeVersions :
               Resumes!Finalize(r, v) \/ Resumes!SetActive(r, v)
    BY <1>2, <2>3, VersionStepKeepsFiles
  <2> QED
    BY <1>2, <2>1, <2>2, <2>3 DEF Resumes!Next
<1> QED
  BY <1>1, <1>2

LEMMA ResumesStandAlone ==
  ASSUME [RecordsNext]_recordsVars
  PROVE  part' = part /\ [part = "resumes" /\ Resumes!Next]_resumeVars
BY DEF recordsVars, RecordsNext, MaterialsStep, LibraryStep, TrackingStep, ResumesStep,
   CareerStep, MatchingStep, OnlyOf

\* Whatever upload, import or deletion fails, and whenever the process dies
\* between its steps: every row has a file of its own, whole unless a Job import
\* was refused for its text, and every imported Version a row whose file is whole.
THEOREM RowsAlwaysHaveFiles == RecordsSpec => []RowsHaveFiles
<1>1. RecordsInit => FilesInv
  BY ResumesStart DEF RecordsInit
<1>2. FilesInv /\ [RecordsNext]_recordsVars => FilesInv'
  BY ResumesStandAlone, ResumesKeepInv
<1>3. FilesInv => RowsHaveFiles
  BY FilesAreThere DEF RowsHaveFiles
<1> QED
  BY <1>1, <1>2, <1>3, PTL DEF RecordsSpec, recordsVars

-----------------------------------------------------------------------------
(* The Job Library (JobLibrary)                                            *)
(*                                                                         *)
(* What is unique among the committed rows is inductive with what the      *)
(* transactions under way have inserted: an import has no key an active    *)
(* Job or another import has, none twice, and its counts are those of the  *)
(* rows it has worked on.                                                  *)

ApplicationShape == [job : Nat, archived : BOOLEAN, deleted : BOOLEAN,
                     analysis : Analyses \cup {None}]
SourceShape == [job : Nat, run : Nat]

CsvFields == {"op", "rows", "at", "seen", "validate", "inserted", "touched", "pairs",
              "duplicate", "failed"}

\* What an import has done of its file
CsvLegal(t) ==
  /\ DOMAIN t = CsvFields
  /\ t.rows \in Seq(Contents \cup {Library!Refused}) /\ t.inserted \in Seq(Contents)
  /\ t.at \in 1 .. (Len(t.rows) + 1) /\ t.seen \in Nat \cup {-1}
  /\ t.touched \in Seq(Nat) /\ t.duplicate \in Nat /\ t.failed \in Nat
  /\ Len(t.touched) = Len(t.inserted) + t.duplicate
  /\ ~t.validate => t.at - 1 = Len(t.inserted) + t.duplicate + t.failed
  /\ t.seen # -1 => t.at <= Len(t.rows) /\ ~t.validate /\ t.rows[t.at] # Library!Refused
  /\ t.seen = 0 => \A i \in DOMAIN t.inserted : ~Library!SameAs(t.rows[t.at], t.inserted[i])
  /\ \A i, k \in DOMAIN t.inserted :
       Library!Key(t.inserted[i]) = Library!Key(t.inserted[k]) => i = k

TxLegal(t) ==
  /\ t.op = "create" => t.content \in Contents /\ t.existing \in Nat /\ t.imports \in BOOLEAN
  /\ t.op = "apply" => t.job \in Nat /\ t.analysis \in Analyses \cup {None}
  /\ t.op = "merge" => t.target \in Nat
  /\ t.op = "csv" => CsvLegal(t)

TxInv ==
  /\ DOMAIN libraryTx = Clients /\ job \in Seq(Library!JobRow)
  /\ \A c \in Clients : TxLegal(libraryTx[c])

LEMMA BeginLegal ==
  ASSUME TxInv, NEW c \in Clients, NEW t, libraryTx' = [libraryTx EXCEPT ![c] = t], TxLegal(t)
  PROVE  DOMAIN libraryTx' = Clients /\ \A d \in Clients : TxLegal(libraryTx'[d])
<1>1. /\ DOMAIN libraryTx' = Clients /\ libraryTx'[c] = t
      /\ \A d \in Clients \ {c} : libraryTx'[d] = libraryTx[d] /\ TxLegal(libraryTx[d])
  BY DEF TxInv
<1> QED
  BY <1>1

LEMMA OtherLegal ==
  ASSUME NEW t, t.op \notin {"create", "apply", "merge", "csv"}
  PROVE  TxLegal(t)
BY DEF TxLegal

(* The next row of a file: it is counted once. *)

\* A row is refused, validated or fails.
LEMMA RowDone ==
  ASSUME NEW t, CsvLegal(t), t.at <= Len(t.rows), NEW d \in {0, 1}, t.validate \/ d = 1
  PROVE  CsvLegal([[[t EXCEPT !.failed = t.failed + d] EXCEPT !.at = t.at + 1] EXCEPT !.seen = -1])
<1>1. PICK f : f = [t EXCEPT !.failed = t.failed + d]
  OBVIOUS
<1>2. PICK g : g = [f EXCEPT !.at = t.at + 1]
  OBVIOUS
<1>3. PICK h : h = [g EXCEPT !.seen = -1]
  OBVIOUS
<1>4. /\ DOMAIN t = CsvFields /\ t.at \in Nat /\ Len(t.rows) \in Nat /\ t.failed \in Nat
      /\ Len(t.inserted) \in Nat /\ t.duplicate \in Nat
  BY DEF CsvLegal
<1>5. /\ DOMAIN h = CsvFields /\ h.rows = t.rows /\ h.inserted = t.inserted
      /\ h.touched = t.touched /\ h.duplicate = t.duplicate /\ h.validate = t.validate
      /\ h.failed = t.failed + d /\ h.at = t.at + 1 /\ h.seen = -1
  BY <1>1, <1>2, <1>3, <1>4 DEF CsvFields
<1>6. h.at \in 1 .. (Len(h.rows) + 1) /\ h.failed \in Nat /\ h.seen \in Nat \cup {-1}
  BY <1>4, <1>5
<1>7. ~h.validate => h.at - 1 = Len(h.inserted) + h.duplicate + h.failed
  <2> HAVE ~h.validate
  <2>1. ~t.validate
    BY <1>5
  <2>2. t.at - 1 = Len(t.inserted) + t.duplicate + t.failed /\ d = 1
    BY <2>1 DEF CsvLegal
  <2>3. t.at = Len(t.inserted) + t.duplicate + t.failed + d
    BY <1>4, <2>2
  <2>4. /\ h.at = t.at + 1 /\ h.failed = t.failed + d /\ h.duplicate = t.duplicate
        /\ Len(h.inserted) = Len(t.inserted) /\ d \in Nat
    BY <1>5
  <2> QED
    BY <1>4, <2>3, <2>4
<1>8. /\ h.rows \in Seq(Contents \cup {Library!Refused}) /\ h.inserted \in Seq(Contents)
      /\ h.touched \in Seq(Nat) /\ h.duplicate \in Nat
      /\ Len(h.touched) = Len(h.inserted) + h.duplicate
      /\ \A i, k \in DOMAIN h.inserted :
           Library!Key(h.inserted[i]) = Library!Key(h.inserted[k]) => i = k
  BY <1>5 DEF CsvLegal
<1>9. CsvLegal(h)
  BY <1>5, <1>6, <1>7, <1>8 DEF CsvLegal
<1> QED
  BY <1>1, <1>2, <1>3, <1>9

\* exact() has seen a Job, or none that has the text or the URL of the row.
LEMMA RowSeen ==
  ASSUME NEW t, CsvLegal(t), t.at <= Len(t.rows), ~t.validate, t.rows[t.at] # Library!Refused,
         NEW existing \in Nat,
         existing = 0 => \A i \in DOMAIN t.inserted : ~Library!SameAs(t.rows[t.at], t.inserted[i])
  PROVE  CsvLegal([t EXCEPT !.seen = existing])
<1>1. PICK h : h = [t EXCEPT !.seen = existing]
  OBVIOUS
<1>2. DOMAIN t = CsvFields
  BY DEF CsvLegal
<1>3. /\ DOMAIN h = CsvFields /\ h.rows = t.rows /\ h.inserted = t.inserted
      /\ h.touched = t.touched /\ h.duplicate = t.duplicate /\ h.validate = t.validate
      /\ h.failed = t.failed /\ h.at = t.at /\ h.seen = existing
  BY <1>1, <1>2 DEF CsvFields
<1>4. CsvLegal(h)
  BY <1>3 DEF CsvLegal
<1> QED
  BY <1>1, <1>4

\* The row is a Job there is already ...
LEMMA RowDuplicate ==
  ASSUME NEW t, CsvLegal(t), t.seen # -1
  PROVE  CsvLegal([[[[t EXCEPT !.duplicate = t.duplicate + 1]
                       EXCEPT !.touched = Append(t.touched, t.seen)]
                       EXCEPT !.at = t.at + 1] EXCEPT !.seen = -1])
<1>1. PICK e : e = [t EXCEPT !.duplicate = t.duplicate + 1]
  OBVIOUS
<1>2. PICK f : f = [e EXCEPT !.touched = Append(t.touched, t.seen)]
  OBVIOUS
<1>3. PICK g : g = [f EXCEPT !.at = t.at + 1]
  OBVIOUS
<1>4. PICK h : h = [g EXCEPT !.seen = -1]
  OBVIOUS
<1>5. /\ DOMAIN t = CsvFields /\ t.at \in Nat /\ Len(t.rows) \in Nat /\ t.failed \in Nat
      /\ Len(t.inserted) \in Nat /\ t.duplicate \in Nat /\ t.seen \in Nat
      /\ t.touched \in Seq(Nat) /\ t.at <= Len(t.rows)
  BY SMTT(40) DEF CsvLegal
<1>6. /\ DOMAIN h = CsvFields /\ h.rows = t.rows /\ h.inserted = t.inserted
      /\ h.touched = Append(t.touched, t.seen) /\ h.duplicate = t.duplicate + 1
      /\ h.validate = t.validate /\ h.failed = t.failed /\ h.at = t.at + 1 /\ h.seen = -1
  BY <1>1, <1>2, <1>3, <1>4, <1>5 DEF CsvFields
<1>7. h.touched \in Seq(Nat) /\ Len(h.touched) = Len(t.touched) + 1
  BY <1>5, <1>6
<1>8. h.at \in 1 .. (Len(h.rows) + 1) /\ h.duplicate \in Nat /\ h.seen \in Nat \cup {-1}
  BY SMTT(40), <1>5, <1>6
<1>9. /\ ~h.validate => h.at - 1 = Len(h.inserted) + h.duplicate + h.failed
      /\ Len(h.touched) = Len(h.inserted) + h.duplicate
  <2>1. Len(t.touched) = Len(t.inserted) + t.duplicate
    BY DEF CsvLegal
  <2>2. /\ h.at = t.at + 1 /\ h.failed = t.failed /\ h.duplicate = t.duplicate + 1
        /\ Len(h.inserted) = Len(t.inserted) /\ Len(h.touched) = Len(t.touched) + 1
    BY <1>6, <1>7
  <2>3. ASSUME ~h.validate
        PROVE  h.at - 1 = Len(h.inserted) + h.duplicate + h.failed
    <3>1. ~t.validate
      BY <1>6, <2>3
    <3>2. t.at - 1 = Len(t.inserted) + t.duplicate + t.failed
      BY <3>1 DEF CsvLegal
    <3>3. t.at = Len(t.inserted) + t.duplicate + t.failed + 1
      BY <1>5, <3>2
    <3>4. PICK i \in Nat, d \in Nat, f0 \in Nat :
            i = Len(t.inserted) /\ d = t.duplicate /\ f0 = t.failed
      BY <1>5
    <3>5. h.at - 1 = i + d + f0 + 1 /\ h.duplicate = d + 1
      BY <1>5, <2>2, <3>3, <3>4
    <3>6. h.at - 1 = i + (d + 1) + f0
      BY <3>5
    <3> QED
      BY <2>2, <3>4, <3>6
  <2>4. Len(h.touched) = Len(h.inserted) + h.duplicate
    BY <1>5, <2>1, <2>2
  <2> QED
    BY <2>3, <2>4
<1>10. /\ h.rows \in Seq(Contents \cup {Library!Refused}) /\ h.inserted \in Seq(Contents)
       /\ h.failed \in Nat
       /\ \A i, k \in DOMAIN h.inserted :
            Library!Key(h.inserted[i]) = Library!Key(h.inserted[k]) => i = k
  BY <1>6 DEF CsvLegal
<1>11. CsvLegal(h)
  BY <1>6, <1>7, <1>8, <1>9, <1>10 DEF CsvLegal
<1> QED
  BY <1>1, <1>2, <1>3, <1>4, <1>11

\* ... or a new one, as no other row before it was.
LEMMA RowInserted ==
  ASSUME NEW t, CsvLegal(t), t.seen = 0, NEW pairs, NEW id \in Nat
  PROVE  LET row == t.rows[t.at]
             h == [[[[[t EXCEPT !.inserted = Append(t.inserted, row)]
                        EXCEPT !.pairs = pairs] EXCEPT !.touched = Append(t.touched, id)]
                        EXCEPT !.at = t.at + 1] EXCEPT !.seen = -1]
         IN CsvLegal(h) /\ h.inserted = Append(t.inserted, row) /\ row \in Contents
<1>1. PICK row : row = t.rows[t.at]
  OBVIOUS
<1>2. PICK e : e = [t EXCEPT !.inserted = Append(t.inserted, row)]
  OBVIOUS
<1>3. PICK e2 : e2 = [e EXCEPT !.pairs = pairs]
  OBVIOUS
<1>4. PICK f : f = [e2 EXCEPT !.touched = Append(t.touched, id)]
  OBVIOUS
<1>5. PICK g : g = [f EXCEPT !.at = t.at + 1]
  OBVIOUS
<1>6. PICK h : h = [g EXCEPT !.seen = -1]
  OBVIOUS
<1>7. /\ DOMAIN t = CsvFields /\ t.at \in Nat /\ Len(t.rows) \in Nat /\ t.failed \in Nat
      /\ Len(t.inserted) \in Nat /\ t.duplicate \in Nat /\ t.touched \in Seq(Nat)
      /\ t.at <= Len(t.rows) /\ t.at >= 1 /\ t.inserted \in Seq(Contents)
      /\ t.rows \in Seq(Contents \cup {Library!Refused}) /\ row # Library!Refused
      /\ \A i \in DOMAIN t.inserted : ~Library!SameAs(row, t.inserted[i])
  BY <1>1 DEF CsvLegal
<1>8. row \in Contents
  BY <1>1, <1>7
<1>9. /\ DOMAIN h = CsvFields /\ h.rows = t.rows /\ h.inserted = Append(t.inserted, row)
      /\ h.touched = Append(t.touched, id) /\ h.duplicate = t.duplicate
      /\ h.validate = t.validate /\ h.failed = t.failed /\ h.at = t.at + 1 /\ h.seen = -1
  BY <1>2, <1>3, <1>4, <1>5, <1>6, <1>7 DEF CsvFields
<1>10. h.touched \in Seq(Nat) /\ Len(h.touched) = Len(t.touched) + 1
  BY <1>7, <1>9
<1>11. /\ h.inserted \in Seq(Contents) /\ Len(h.inserted) = Len(t.inserted) + 1
       /\ DOMAIN h.inserted = 1 .. (Len(t.inserted) + 1)
       /\ DOMAIN t.inserted = 1 .. Len(t.inserted)
       /\ \A i \in 1 .. Len(t.inserted) : h.inserted[i] = t.inserted[i]
       /\ h.inserted[Len(t.inserted) + 1] = row
  BY <1>7, <1>8, <1>9, AppendProperties
<1>12. \A i, k \in DOMAIN h.inserted :
         Library!Key(h.inserted[i]) = Library!Key(h.inserted[k]) => i = k
  <2>1. \A i, k \in 1 .. Len(t.inserted) :
          Library!Key(t.inserted[i]) = Library!Key(t.inserted[k]) => i = k
    BY <1>11 DEF CsvLegal
  <2>2. \A i \in 1 .. Len(t.inserted) : Library!Key(t.inserted[i]) # Library!Key(row)
    BY <1>7, <1>11 DEF Library!Key, Library!SameAs
  <2>3. \A i \in DOMAIN h.inserted : i \in 1 .. Len(t.inserted) \/ i = Len(t.inserted) + 1
    BY <1>7, <1>11
  <2> QED
    BY <1>11, <2>1, <2>2, <2>3
<1>13. h.at \in 1 .. (Len(h.rows) + 1) /\ h.seen \in Nat \cup {-1}
  BY SMTT(40), <1>7, <1>9
<1>14. /\ ~h.validate => h.at - 1 = Len(h.inserted) + h.duplicate + h.failed
       /\ Len(h.touched) = Len(h.inserted) + h.duplicate
  <2>1. Len(t.touched) = Len(t.inserted) + t.duplicate
    BY DEF CsvLegal
  <2>2. /\ h.at = t.at + 1 /\ h.failed = t.failed /\ h.duplicate = t.duplicate
        /\ Len(h.inserted) = Len(t.inserted) + 1 /\ Len(h.touched) = Len(t.touched) + 1
    BY <1>9, <1>10, <1>11
  <2>3. ASSUME ~h.validate
        PROVE  h.at - 1 = Len(h.inserted) + h.duplicate + h.failed
    <3>1. ~t.validate
      BY <1>9, <2>3
    <3>2. t.at - 1 = Len(t.inserted) + t.duplicate + t.failed
      BY <3>1 DEF CsvLegal
    <3>3. t.at = Len(t.inserted) + t.duplicate + t.failed + 1
      BY <1>7, <3>2
    <3> QED
      BY SMTT(40), <1>7, <2>2, <3>3
  <2>4. Len(h.touched) = Len(h.inserted) + h.duplicate
    BY SMTT(40), <1>7, <2>1, <2>2
  <2> QED
    BY <2>3, <2>4
<1>15. /\ h.rows \in Seq(Contents \cup {Library!Refused}) /\ h.inserted \in Seq(Contents)
       /\ h.failed \in Nat /\ h.duplicate \in Nat /\ h.seen = -1
  BY <1>7, <1>9, <1>11
<1>16. CsvLegal(h)
  <2>1. DOMAIN h = CsvFields /\ h.touched \in Seq(Nat) /\ h.seen # 0
    BY <1>9, <1>10, <1>15
  <2> QED
    BY <1>12, <1>13, <1>14, <1>15, <2>1 DEF CsvLegal
<1> QED
  BY <1>1, <1>2, <1>3, <1>4, <1>5, <1>6, <1>8, <1>9, <1>16

(* What is unique, and what an import run counts. *)

KeysInv ==
  /\ \A i, j \in Library!ActiveJobs : Library!Key(job[i]) = Library!Key(job[j]) => i = j
  /\ \A c \in Clients : \A j \in Library!ActiveJobs :
       Library!Key(job[j]) \notin Library!Pending(c)
  /\ \A c, d \in Clients : \A key \in Library!Pending(c) : key \in Library!Pending(d) => c = d

Current(a) == ~application[a].archived /\ ~application[a].deleted

ApplicationsInv ==
  /\ application \in Seq(ApplicationShape)
  /\ \A a, b \in DOMAIN application :
       Current(a) /\ Current(b) /\ application[a].job = application[b].job
       /\ application[a].job # 0 => a = b
  /\ \A a, b \in DOMAIN application :
       /\ application[a].analysis = application[b].analysis
       /\ application[a].analysis # None
       /\ ~application[a].deleted /\ ~application[b].deleted
       => a = b

Left(i) == {k \in DOMAIN source : source[k].run = i}

RunsInv ==
  /\ run \in Seq(Library!RunRow) /\ source \in Seq(SourceShape)
  /\ \A k \in DOMAIN source : source[k].run <= Len(run)
  /\ \A i \in DOMAIN run :
       /\ run[i].created + run[i].duplicate = Cardinality(Left(i))
       /\ run[i].type # "csv_validate" =>
            run[i].created + run[i].duplicate + run[i].failed = run[i].count

LibraryInv == TxInv /\ KeysInv /\ ApplicationsInv /\ RunsInv

LEMMA LibraryCounts == \A S : Library!Cardinality(S) = Cardinality(S)
  BY DEF Library!Cardinality, Cardinality

LEMMA AtMostOne ==
  ASSUME NEW S, \A a, b \in S : a = b
  PROVE  Cardinality(S) <= 1
<1>1. CASE S = {}
  BY <1>1, FS_EmptySet
<1>2. CASE S # {}
  <2>1. PICK a : S = {a}
    BY <1>2
  <2> QED
    BY <2>1, FS_Singleton
<1> QED
  BY <1>1, <1>2

LEMMA LibraryInvAccounts ==
  LibraryInv => Library!UniqueWhereItCounts /\ Library!ImportAccounted
<1> SUFFICES ASSUME LibraryInv
             PROVE  Library!UniqueWhereItCounts /\ Library!ImportAccounted
  OBVIOUS
<1>1. ASSUME NEW j \in DOMAIN job
      PROVE  Library!Cardinality(Library!ActiveFor(j)) <= 1
  <2>1. j # 0
    BY DEF LibraryInv, TxInv
  <2>2. \A a, b \in Library!ActiveFor(j) : a = b
    BY <2>1 DEF LibraryInv, ApplicationsInv, Current, Library!ActiveFor
  <2> QED
    BY <2>2, AtMostOne, LibraryCounts
<1>2. Library!UniqueWhereItCounts
  BY <1>1 DEF LibraryInv, KeysInv, ApplicationsInv, Library!UniqueWhereItCounts
<1>3. Library!ImportAccounted
  BY LibraryCounts DEF LibraryInv, RunsInv, Left, Library!ImportAccounted
<1> QED
  BY <1>2, <1>3

(* A transaction that only changes what it has seen, or ends *)

LEMMA PendingLess ==
  ASSUME KeysInv, job' = job,
         \A d \in Clients : \A key \in Library!Pending(d)' : key \in Library!Pending(d)
  PROVE  KeysInv'
<1>1. Library!ActiveJobs' = Library!ActiveJobs
  BY DEF Library!ActiveJobs
<1> QED
  BY <1>1 DEF KeysInv

LEMMA StateKeepsLibrary ==
  ASSUME LibraryInv, NEW c \in Clients, NEW t, libraryTx' = [libraryTx EXCEPT ![c] = t],
         TxLegal(t), UNCHANGED <<job, source, application, run>>,
         t.op = "csv" => \/ t.inserted = << >>
                         \/ libraryTx[c].op = "csv" /\ t.inserted = libraryTx[c].inserted
  PROVE  LibraryInv'
<1>1. TxInv'
  BY BeginLegal DEF LibraryInv, TxInv
<1>2. ASSUME NEW d \in Clients, NEW key \in Library!Pending(d)'
      PROVE  key \in Library!Pending(d)
  <2>1. /\ d # c => libraryTx'[d] = libraryTx[d]
        /\ libraryTx'[c] = t
    BY DEF LibraryInv, TxInv
  <2>2. CASE d # c
    BY <1>2, <2>1, <2>2 DEF Library!Pending
  <2>3. CASE d = c
    BY <1>2, <2>1, <2>3 DEF Library!Pending
  <2> QED
    BY <2>2, <2>3
<1>3. KeysInv'
  BY <1>2, PendingLess DEF LibraryInv
<1>4. ApplicationsInv' /\ RunsInv'
  BY DEF LibraryInv, ApplicationsInv, Current, RunsInv, Left
<1> QED
  BY <1>1, <1>3, <1>4 DEF LibraryInv

LEMMA ReadsKeepLibrary ==
  ASSUME LibraryInv, NEW c \in Clients, NEW t, Library!Begin(c, t), TxLegal(t),
         t.op = "csv" => t.inserted = << >>
  PROVE  LibraryInv'
BY StateKeepsLibrary DEF Library!Begin

LEMMA ExactIsNumber ==
  ASSUME TxInv, NEW content0
  PROVE  Library!Exact(content0) \subseteq Nat
BY DEF TxInv, Library!Exact, Library!ActiveJobs

LEMMA ReadStepKeepsLibrary ==
  ASSUME LibraryInv, NEW c \in Clients,
         \/ \E content0 \in Contents, imports \in BOOLEAN : Library!CreateRead(c, content0, imports)
         \/ \E rows \in Files, validateOnly \in BOOLEAN : Library!CsvBegin(c, rows, validateOnly)
         \/ \E t, s \in DOMAIN job : Library!MergeRead(c, t, s)
         \/ \E j \in DOMAIN job : Library!ApplyRead(c, j)
         \/ \E analysis0 \in Analyses \cup {None} : Library!SubmitRead(c, analysis0)
         \/ \E a \in {0} \cup DOMAIN application, j \in {0} \cup DOMAIN job :
              Library!TaskRead(c, a, j)
  PROVE  LibraryInv'
<1>1. TxInv /\ DOMAIN job \subseteq Nat
  BY DEF LibraryInv, TxInv
<1>2. ASSUME NEW content0 \in Contents, NEW imports \in BOOLEAN,
             Library!CreateRead(c, content0, imports)
      PROVE  LibraryInv'
  <2>1. PICK existing \in Nat :
          Library!Begin(c, [op |-> "create", content |-> content0, existing |-> existing,
                            imports |-> imports])
    BY <1>1, <1>2, ExactIsNumber DEF Library!CreateRead
  <2>2. PICK t : t = [op |-> "create", content |-> content0, existing |-> existing,
                      imports |-> imports]
    OBVIOUS
  <2>3. t.op = "create" /\ TxLegal(t)
    BY <2>2 DEF TxLegal
  <2> QED
    BY <2>1, <2>2, <2>3, ReadsKeepLibrary
<1>3. ASSUME NEW rows \in Files, NEW validateOnly \in BOOLEAN,
             Library!CsvBegin(c, rows, validateOnly)
      PROVE  LibraryInv'
  <2>1. PICK t : t = [op |-> "csv", rows |-> rows, at |-> 1, seen |-> -1,
                      validate |-> validateOnly, inserted |-> << >>, touched |-> << >>,
                      pairs |-> {}, duplicate |-> 0, failed |-> 0]
    OBVIOUS
  <2>2. /\ t.op = "csv" /\ DOMAIN t = CsvFields /\ t.rows = rows /\ t.at = 1 /\ t.seen = -1
        /\ t.inserted = << >> /\ t.touched = << >> /\ t.duplicate = 0 /\ t.failed = 0
    BY <2>1 DEF CsvFields
  <2>3. rows \in Seq(Contents \cup {Library!Refused}) /\ Len(rows) \in Nat
    BY RecordsAssumption
  <2>4. CsvLegal(t)
    BY <2>2, <2>3 DEF CsvLegal
  <2>5. TxLegal(t)
    BY <2>2, <2>4 DEF TxLegal
  <2> QED
    BY <1>3, <2>1, <2>2, <2>5, ReadsKeepLibrary DEF Library!CsvBegin
<1>4. ASSUME NEW t \in DOMAIN job, NEW s \in DOMAIN job, Library!MergeRead(c, t, s)
      PROVE  LibraryInv'
  <2>1. PICK a : Library!Begin(c, [op |-> "merge", target |-> t, origin |-> s, application |-> a])
    BY <1>4 DEF Library!MergeRead
  <2>2. PICK u : u = [op |-> "merge", target |-> t, origin |-> s, application |-> a]
    OBVIOUS
  <2>3. u.op = "merge" /\ TxLegal(u)
    BY <1>1, <2>2 DEF TxLegal
  <2> QED
    BY <2>1, <2>2, <2>3, ReadsKeepLibrary
<1>5. ASSUME NEW j \in Nat, NEW analysis0 \in Analyses \cup {None},
             Library!Begin(c, [op |-> "apply", job |-> j, analysis |-> analysis0])
      PROVE  LibraryInv'
  <2>1. PICK u : u = [op |-> "apply", job |-> j, analysis |-> analysis0]
    OBVIOUS
  <2>2. u.op = "apply" /\ TxLegal(u)
    BY <2>1 DEF TxLegal
  <2> QED
    BY <1>5, <2>1, <2>2, ReadsKeepLibrary
<1>6. ASSUME NEW a, NEW j, Library!TaskRead(c, a, j)
      PROVE  LibraryInv'
  <2>1. PICK u : u = [op |-> "task", application |-> a, job |-> j]
    OBVIOUS
  <2>2. u.op = "task" /\ TxLegal(u)
    BY <2>1 DEF TxLegal
  <2> QED
    BY <1>6, <2>1, <2>2, ReadsKeepLibrary DEF Library!TaskRead
<1> QED
  BY <1>1, <1>2, <1>3, <1>4, <1>5, <1>6 DEF Library!ApplyRead, Library!SubmitRead

LEMMA EndKeepsLibrary ==
  ASSUME LibraryInv, NEW c \in Clients, Library!End(c),
         UNCHANGED <<job, source, application, run>>
  PROVE  LibraryInv'
<1>1. PICK t : t = Library!Idle
  OBVIOUS
<1>2. t.op \notin {"create", "apply", "merge", "csv"}
  BY <1>1 DEF Library!Idle
<1> QED
  BY <1>1, <1>2, OtherLegal, StateKeepsLibrary DEF Library!End

LEMMA QuietKeepsLibrary ==
  ASSUME LibraryInv, UNCHANGED <<job, source, application, run, libraryTx>>
  PROVE  LibraryInv'
<1>1. TxInv' /\ ApplicationsInv' /\ RunsInv'
  BY DEF LibraryInv, TxInv, ApplicationsInv, Current, RunsInv, Left
<1>2. \A d \in Clients : Library!Pending(d)' = Library!Pending(d)
  BY DEF Library!Pending
<1>3. KeysInv'
  BY <1>2, PendingLess DEF LibraryInv
<1> QED
  BY <1>1, <1>3 DEF LibraryInv

(* CSV imports, row by row *)

LEMMA CsvOf ==
  ASSUME TxInv, NEW c \in Clients, libraryTx[c].op = "csv"
  PROVE  CsvLegal(libraryTx[c]) /\ DOMAIN libraryTx[c] = CsvFields
BY DEF TxInv, TxLegal, CsvLegal

\* A row that leaves what is inserted as it is
LEMMA RowKeepsLibrary ==
  ASSUME LibraryInv, NEW c \in Clients, libraryTx[c].op = "csv", NEW t,
         libraryTx' = [libraryTx EXCEPT ![c] = t], CsvLegal(t), t.op = "csv",
         t.inserted = libraryTx[c].inserted, UNCHANGED <<job, source, application, run>>
  PROVE  LibraryInv'
<1>1. TxLegal(t)
  BY DEF TxLegal
<1> QED
  BY <1>1, StateKeepsLibrary

LEMMA RefusedKeepsLibrary ==
  ASSUME LibraryInv, NEW c \in Clients, libraryTx[c].op = "csv", NEW t, t = libraryTx[c],
         NEW d \in {0, 1}, t.validate \/ d = 1, t.at <= Len(t.rows),
         libraryTx' = [libraryTx EXCEPT ![c] =
                         Library!CsvNext([t EXCEPT !.failed = t.failed + d])],
         UNCHANGED <<job, source, application, run>>
  PROVE  LibraryInv'
<1>1. CsvLegal(t) /\ DOMAIN t = CsvFields
  BY CsvOf DEF LibraryInv
<1>2. PICK f : f = [t EXCEPT !.failed = t.failed + d]
  OBVIOUS
<1>3. PICK h : h = [[f EXCEPT !.at = t.at + 1] EXCEPT !.seen = -1]
  OBVIOUS
<1>4. f.at = t.at /\ f.op = t.op /\ f.inserted = t.inserted /\ DOMAIN f = CsvFields
  BY <1>1, <1>2 DEF CsvFields
<1>5. Library!CsvNext(f) = h
  BY <1>3, <1>4 DEF Library!CsvNext
<1>6. h.op = "csv" /\ h.inserted = t.inserted
  BY <1>3, <1>4 DEF CsvFields
<1>7. CsvLegal(h)
  BY <1>1, <1>2, <1>3, RowDone
<1> QED
  BY <1>2, <1>5, <1>6, <1>7, RowKeepsLibrary

LEMMA CsvCheckKeepsLibrary ==
  ASSUME LibraryInv, NEW c \in Clients, Library!CsvCheck(c)
  PROVE  LibraryInv'
<1>1. PICK t : t = libraryTx[c]
  OBVIOUS
<1>2. PICK d \in {0, 1} : d = IF t.rows[t.at] = Library!Refused THEN 1 ELSE 0
  OBVIOUS
<1>3. /\ t.op = "csv" /\ t.at <= Len(t.rows)
      /\ t.validate \/ d = 1
      /\ libraryTx' = [libraryTx EXCEPT ![c] =
                         Library!CsvNext([t EXCEPT !.failed = t.failed + d])]
      /\ UNCHANGED <<job, source, application, run>>
  <2>1. libraryTx' = [libraryTx EXCEPT ![c] = Library!CsvNext([t EXCEPT !.failed = t.failed +
                        (IF t.rows[t.at] = Library!Refused THEN 1 ELSE 0)])]
    BY <1>1 DEF Library!CsvCheck
  <2>2. libraryTx' = [libraryTx EXCEPT ![c] =
                         Library!CsvNext([t EXCEPT !.failed = t.failed + d])]
    BY <1>2, <2>1
  <2> QED
    BY <1>1, <1>2, <2>2 DEF Library!CsvCheck
<1>4. libraryTx[c].op = "csv"
  BY <1>1, <1>3
<1> QED
  BY <1>1, <1>3, <1>4, RefusedKeepsLibrary

LEMMA CsvReadKeepsLibrary ==
  ASSUME LibraryInv, NEW c \in Clients, Library!CsvRead(c)
  PROVE  LibraryInv'
<1>1. PICK t : t = libraryTx[c]
  OBVIOUS
<1>2. PICK own : own = {MaxJobs + i : i \in {k \in DOMAIN t.inserted :
                                               Library!SameAs(t.rows[t.at], t.inserted[k])}}
  OBVIOUS
<1>3. PICK found : found = Library!Exact(t.rows[t.at])
  OBVIOUS
<1>4. /\ t.op = "csv" /\ t.at <= Len(t.rows) /\ ~t.validate
      /\ t.rows[t.at] # Library!Refused /\ UNCHANGED <<job, source, application, run>>
      /\ \E existing \in IF found \cup own = {} THEN {0} ELSE found \cup own :
           libraryTx' = [libraryTx EXCEPT ![c].seen = existing]
  BY <1>1, <1>2, <1>3 DEF Library!CsvRead
<1>5. CsvLegal(t) /\ DOMAIN t = CsvFields
  BY <1>1, <1>4, CsvOf DEF LibraryInv
<1>6. PICK existing \in IF found \cup own = {} THEN {0} ELSE found \cup own :
        libraryTx' = [libraryTx EXCEPT ![c].seen = existing]
  BY <1>4
<1>7. own \subseteq Nat \ {0} /\ found \subseteq Nat \ {0} /\ DOMAIN t.inserted \subseteq Nat
  <2>1. t.inserted \in Seq(Contents) /\ job \in Seq(Library!JobRow)
    BY <1>5 DEF CsvLegal, LibraryInv, TxInv
  <2>2. DOMAIN t.inserted \subseteq Nat \ {0} /\ DOMAIN job \subseteq Nat \ {0}
    BY <2>1
  <2>3. own \subseteq Nat \ {0}
    BY <1>2, <2>2, RecordsAssumption
  <2> QED
    BY <1>3, <2>2, <2>3 DEF Library!Exact, Library!ActiveJobs
<1>8. existing \in Nat /\ (existing = 0 => own = {})
  BY <1>6, <1>7
<1>9. existing = 0 => \A i \in DOMAIN t.inserted : ~Library!SameAs(t.rows[t.at], t.inserted[i])
  BY <1>2, <1>8
<1>10. PICK h : h = [t EXCEPT !.seen = existing]
  OBVIOUS
<1>11. CsvLegal(h) /\ h.op = "csv" /\ h.inserted = t.inserted
  <2>1. CsvLegal(h)
    BY <1>4, <1>5, <1>8, <1>9, <1>10, RowSeen
  <2> QED
    BY <1>4, <1>5, <1>10, <2>1 DEF CsvFields
<1>12. libraryTx' = [libraryTx EXCEPT ![c] = h]
  BY <1>1, <1>6, <1>10
<1> QED
  BY <1>1, <1>4, <1>11, <1>12, RowKeepsLibrary

\* A row that is inserted has a key no one else has.
LEMMA InsertKeepsLibrary ==
  ASSUME LibraryInv, NEW c \in Clients, libraryTx[c].op = "csv", NEW h,
         libraryTx' = [libraryTx EXCEPT ![c] = h], CsvLegal(h), h.op = "csv",
         NEW row \in Contents, h.inserted = Append(libraryTx[c].inserted, row),
         Library!KeyFree(row, {}), ~Library!KeyPending(c, row),
         UNCHANGED <<job, source, application, run>>
  PROVE  LibraryInv'
<1>1. TxInv'
  BY BeginLegal DEF LibraryInv, TxInv, TxLegal
<1>2. ApplicationsInv' /\ RunsInv'
  BY DEF LibraryInv, ApplicationsInv, Current, RunsInv, Left
<1>3. /\ libraryTx'[c] = h /\ \A d \in Clients : d # c => libraryTx'[d] = libraryTx[d]
  BY DEF LibraryInv, TxInv
<1>4. \A d \in Clients : d # c => Library!Pending(d)' = Library!Pending(d)
  BY <1>3 DEF Library!Pending
<1>5. \A key \in Library!Pending(c)' : key \in Library!Pending(c) \/ key = Library!Key(row)
  <2>1. libraryTx[c].inserted \in Seq(Contents)
    BY CsvOf DEF LibraryInv, CsvLegal
  <2>2. \A i \in DOMAIN h.inserted :
          \/ i \in DOMAIN libraryTx[c].inserted /\ h.inserted[i] = libraryTx[c].inserted[i]
          \/ h.inserted[i] = row
    BY <2>1, AppendProperties
  <2>3. Library!Pending(c)' = {Library!Key(h.inserted[i]) : i \in DOMAIN h.inserted}
    BY <1>3 DEF Library!Pending
  <2> QED
    BY <2>2, <2>3 DEF Library!Pending
<1>6. \A d \in Clients \ {c} : Library!Key(row) \notin Library!Pending(d)
  BY DEF Library!KeyPending
<1>7. Library!ActiveJobs' = Library!ActiveJobs /\ job' = job
  BY DEF Library!ActiveJobs
<1>8. \A j \in Library!ActiveJobs : Library!Key(job[j]) # Library!Key(row)
  BY DEF Library!KeyFree
<1>9. KeysInv'
  <2>1. \A d \in Clients : \A j \in Library!ActiveJobs :
          Library!Key(job[j]) \notin Library!Pending(d)'
    BY <1>4, <1>5, <1>8 DEF LibraryInv, KeysInv
  <2>2. \A d, e \in Clients : \A key \in Library!Pending(d)' :
          key \in Library!Pending(e)' => d = e
    BY <1>4, <1>5, <1>6 DEF LibraryInv, KeysInv
  <2> QED
    BY <1>7, <2>1, <2>2 DEF LibraryInv, KeysInv
<1> QED
  BY <1>1, <1>2, <1>9 DEF LibraryInv

LEMMA CsvInsertKeepsLibrary ==
  ASSUME LibraryInv, NEW c \in Clients, Library!CsvInsert(c)
  PROVE  LibraryInv'
<1>1. PICK t : t = libraryTx[c]
  OBVIOUS
<1>2. t.op = "csv" /\ t.seen # -1 /\ UNCHANGED <<job, source, application, run>>
  BY <1>1 DEF Library!CsvInsert
<1>3. CsvLegal(t) /\ DOMAIN t = CsvFields
  BY <1>1, <1>2, CsvOf DEF LibraryInv
<1>4. ASSUME libraryTx' = [libraryTx EXCEPT ![c] =
               Library!CsvNext([t EXCEPT !.duplicate = @ + 1, !.touched = Append(@, t.seen)])]
      PROVE  LibraryInv'
  <2>1. PICK f : f = [[t EXCEPT !.duplicate = t.duplicate + 1]
                         EXCEPT !.touched = Append(t.touched, t.seen)]
    OBVIOUS
  <2>2. f = [t EXCEPT !.duplicate = @ + 1, !.touched = Append(@, t.seen)]
    BY <1>3, <2>1 DEF CsvFields
  <2>3. f.at = t.at /\ f.op = t.op /\ f.inserted = t.inserted /\ DOMAIN f = CsvFields
    BY <1>3, <2>1 DEF CsvFields
  <2>4. PICK h : h = [[f EXCEPT !.at = t.at + 1] EXCEPT !.seen = -1]
    OBVIOUS
  <2>5. Library!CsvNext(f) = h
    BY <2>3, <2>4 DEF Library!CsvNext
  <2>6. h.op = "csv" /\ h.inserted = t.inserted
    BY <1>2, <2>3, <2>4 DEF CsvFields
  <2>7. CsvLegal(h)
    BY <1>2, <1>3, <2>1, <2>4, RowDuplicate
  <2> QED
    BY <1>1, <1>2, <1>4, <2>2, <2>5, <2>6, <2>7, RowKeepsLibrary
<1>5. ASSUME t.seen = 0, Library!KeyFree(t.rows[t.at], {}),
             ~Library!KeyPending(c, t.rows[t.at]), NEW pairs, NEW id \in Nat,
             libraryTx' = [libraryTx EXCEPT ![c] =
               Library!CsvNext([t EXCEPT !.inserted = Append(@, t.rows[t.at]),
                                         !.pairs = @ \cup pairs, !.touched = Append(@, id)])]
      PROVE  LibraryInv'
  <2>1. PICK row : row = t.rows[t.at]
    OBVIOUS
  <2>2. PICK all : all = t.pairs \cup pairs
    OBVIOUS
  <2>3. PICK f : f = [[[t EXCEPT !.inserted = Append(t.inserted, row)] EXCEPT !.pairs = all]
                         EXCEPT !.touched = Append(t.touched, id)]
    OBVIOUS
  <2>4. f = [t EXCEPT !.inserted = Append(@, t.rows[t.at]), !.pairs = @ \cup pairs,
                      !.touched = Append(@, id)]
    BY <1>3, <2>1, <2>2, <2>3 DEF CsvFields
  <2>5. f.at = t.at /\ f.op = t.op /\ DOMAIN f = CsvFields
    BY <1>3, <2>3 DEF CsvFields
  <2>6. PICK h : h = [[f EXCEPT !.at = t.at + 1] EXCEPT !.seen = -1]
    OBVIOUS
  <2>7. Library!CsvNext(f) = h
    BY <2>5, <2>6 DEF Library!CsvNext
  <2>8. h.op = "csv"
    BY <1>2, <2>5, <2>6 DEF CsvFields
  <2>9. CsvLegal(h) /\ h.inserted = Append(t.inserted, row) /\ row \in Contents
    BY ZenonT(60), <1>3, <1>5, <2>1, <2>3, <2>6, RowInserted
  <2> QED
    BY <1>1, <1>2, <1>5, <2>1, <2>4, <2>7, <2>8, <2>9, InsertKeepsLibrary
<1>6. ASSUME t.seen = 0, libraryTx' = [libraryTx EXCEPT ![c] = Library!RowFails(t)]
      PROVE  LibraryInv'
  <2>1. PICK d \in {0, 1} : d = 1
    OBVIOUS
  <2>2. t.at <= Len(t.rows)
    BY <1>2, <1>3 DEF CsvLegal
  <2>3. libraryTx' = [libraryTx EXCEPT ![c] =
                        Library!CsvNext([t EXCEPT !.failed = t.failed + d])]
    BY <1>6, <2>1 DEF Library!RowFails
  <2> QED
    BY <1>1, <1>2, <2>1, <2>2, <2>3, RefusedKeepsLibrary
<1>7. MaxJobs + Len(t.inserted) + 1 \in Nat
  BY <1>3, RecordsAssumption DEF CsvLegal
<1> QED
  BY <1>1, <1>4, <1>5, <1>6, <1>7 DEF Library!CsvInsert

(* Requirements, duplicate candidates and Tasks have no part in it. *)

LEMMA OtherTablesKeepLibrary ==
  ASSUME LibraryInv,
         \/ \E j : Library!AddRequirement(j)
         \/ \E r : Library!DeleteRequirement(r)
         \/ \E pair : Library!ResolveDuplicate(pair)
         \/ \E i : Library!ArchiveTask(i)
  PROVE  LibraryInv'
<1>1. UNCHANGED <<job, source, application, run, libraryTx>>
  BY DEF Library!AddRequirement, Library!DeleteRequirement, Library!ResolveDuplicate,
         Library!ArchiveTask, Library!Request
<1> QED
  BY <1>1, QuietKeepsLibrary

LEMMA EndsKeepLibrary ==
  ASSUME LibraryInv, NEW c \in Clients, Library!GiveUp(c) \/ Library!TaskCommit(c)
  PROVE  LibraryInv'
BY EndKeepsLibrary DEF Library!GiveUp, Library!TaskCommit

LEMMA EndKeepsTx ==
  ASSUME TxInv, NEW c \in Clients, Library!End(c)
  PROVE  /\ DOMAIN libraryTx' = Clients /\ \A d \in Clients : TxLegal(libraryTx'[d])
         /\ Library!Pending(c)' = {}
         /\ \A d \in Clients : d # c => Library!Pending(d)' = Library!Pending(d)
<1>1. PICK t : t = Library!Idle
  OBVIOUS
<1>2. t.op = "idle" /\ TxLegal(t)
  BY <1>1, OtherLegal DEF Library!Idle
<1>3. libraryTx' = [libraryTx EXCEPT ![c] = t]
  BY <1>1 DEF Library!End
<1>4. libraryTx'[c] = t /\ \A d \in Clients : d # c => libraryTx'[d] = libraryTx[d]
  BY <1>3 DEF TxInv
<1>5. DOMAIN libraryTx' = Clients /\ \A d \in Clients : TxLegal(libraryTx'[d])
  BY <1>2, <1>3, BeginLegal
<1>6. Library!Pending(c)' = {}
  BY <1>2, <1>4 DEF Library!Pending
<1>7. \A d \in Clients : d # c => Library!Pending(d)' = Library!Pending(d)
  BY <1>4 DEF Library!Pending
<1> QED
  BY <1>5, <1>6, <1>7

(* Applications *)

\* One Application is changed: it keeps its Analysis, and is the current one of
\* its Job only when no other is.
LEMMA ChangeKeepsApplications ==
  ASSUME ApplicationsInv, NEW a \in DOMAIN application, NEW r \in ApplicationShape,
         application' = [application EXCEPT ![a] = r],
         r.analysis = application[a].analysis, ~r.deleted => ~application[a].deleted,
         ~r.archived /\ ~r.deleted /\ r.job # 0 =>
           \A b \in DOMAIN application : b # a /\ Current(b) => application[b].job # r.job
  PROVE  ApplicationsInv'
<1>1. /\ application' \in Seq(ApplicationShape) /\ DOMAIN application' = DOMAIN application
      /\ application'[a] = r
      /\ \A b \in DOMAIN application : b # a => application'[b] = application[b]
  BY DEF ApplicationsInv
<1>2. \A b \in DOMAIN application : b # a => (Current(b)' <=> Current(b))
  BY <1>1 DEF Current
<1>3. Current(a)' <=> ~r.archived /\ ~r.deleted
  BY <1>1 DEF Current
<1>4. \A b, d \in DOMAIN application :
        (Current(b) /\ Current(d))' /\ application'[b].job = application'[d].job
        /\ application'[b].job # 0 => b = d
  BY <1>1, <1>2, <1>3 DEF ApplicationsInv
<1>5. \A b, d \in DOMAIN application :
        /\ application'[b].analysis = application'[d].analysis
        /\ application'[b].analysis # None
        /\ ~application'[b].deleted /\ ~application'[d].deleted
        => b = d
  BY <1>1 DEF ApplicationsInv
<1> QED
  BY <1>1, <1>4, <1>5 DEF ApplicationsInv

\* One is added: no other of its Job is current, and none has its Analysis.
LEMMA AddKeepsApplications ==
  ASSUME ApplicationsInv, NEW r \in ApplicationShape,
         application' = Append(application, r), Library!ApplicationAllowed(r.job, r.analysis)
  PROVE  ApplicationsInv'
<1>1. PICK n \in Nat : n = Len(application)
  BY DEF ApplicationsInv
<1>2. /\ application' \in Seq(ApplicationShape) /\ DOMAIN application = 1 .. n
      /\ DOMAIN application' = 1 .. (n + 1) /\ application'[n + 1] = r
      /\ \A b \in 1 .. n : application'[b] = application[b]
  BY <1>1, AppendProperties DEF ApplicationsInv
<1>3. \A b \in 1 .. n : Current(b)' <=> Current(b)
  BY <1>2 DEF Current
<1>4. r.job # 0 => \A b \in 1 .. n : Current(b) => application[b].job # r.job
  BY <1>2 DEF Library!ApplicationAllowed, Library!ActiveFor, Current
<1>5. r.analysis # None => \A b \in 1 .. n :
        application[b].deleted \/ application[b].analysis # r.analysis
  BY <1>2 DEF Library!ApplicationAllowed
<1>6. \A b \in DOMAIN application' : b \in 1 .. n \/ b = n + 1
  BY <1>2
<1>7. \A b, d \in DOMAIN application' :
        (Current(b) /\ Current(d))' /\ application'[b].job = application'[d].job
        /\ application'[b].job # 0 => b = d
  <2>1. \A b, d \in 1 .. n :
          (Current(b) /\ Current(d))' /\ application'[b].job = application'[d].job
          /\ application'[b].job # 0 => b = d
    BY <1>2, <1>3 DEF ApplicationsInv
  <2>2. \A b \in 1 .. n : Current(b)' /\ r.job # 0 => application'[b].job # r.job
    BY <1>2, <1>3, <1>4
  <2> QED
    BY <1>2, <1>6, <2>1, <2>2
<1>8. \A b, d \in DOMAIN application' :
        /\ application'[b].analysis = application'[d].analysis
        /\ application'[b].analysis # None
        /\ ~application'[b].deleted /\ ~application'[d].deleted
        => b = d
  <2>1. \A b, d \in 1 .. n :
          /\ application'[b].analysis = application'[d].analysis
          /\ application'[b].analysis # None
          /\ ~application'[b].deleted /\ ~application'[d].deleted
          => b = d
    BY <1>2 DEF ApplicationsInv
  <2>2. \A b \in 1 .. n : r.analysis # None /\ ~application'[b].deleted =>
                            application'[b].analysis # r.analysis
    BY <1>2, <1>5
  <2> QED
    BY <1>2, <1>6, <2>1, <2>2
<1> QED
  BY <1>2, <1>7, <1>8 DEF ApplicationsInv

LEMMA ApplyKeepsLibrary ==
  ASSUME LibraryInv, NEW c \in Clients, Library!ApplyCommit(c)
  PROVE  LibraryInv'
<1>1. PICK t : t = libraryTx[c]
  OBVIOUS
<1>2. t.op = "apply" /\ Library!ApplicationAllowed(t.job, t.analysis) /\ Library!End(c)
      /\ UNCHANGED <<job, source, run>>
      /\ application' = Append(application, [job |-> t.job, archived |-> FALSE,
                                             deleted |-> FALSE, analysis |-> t.analysis])
  BY <1>1 DEF Library!ApplyCommit
<1>3. t.job \in Nat /\ t.analysis \in Analyses \cup {None}
  BY <1>1, <1>2 DEF LibraryInv, TxInv, TxLegal
<1>4. PICK r : r = [job |-> t.job, archived |-> FALSE, deleted |-> FALSE,
                    analysis |-> t.analysis]
  OBVIOUS
<1>5. r \in ApplicationShape /\ r.job = t.job /\ r.analysis = t.analysis
  BY <1>3, <1>4 DEF ApplicationShape
<1>6. ApplicationsInv'
  BY <1>2, <1>4, <1>5, AddKeepsApplications DEF LibraryInv
<1>7. TxInv' /\ RunsInv'
  BY <1>2, EndKeepsTx DEF LibraryInv, TxInv, RunsInv, Left
<1>8. KeysInv'
  BY <1>2, EndKeepsTx, PendingLess DEF LibraryInv
<1> QED
  BY <1>6, <1>7, <1>8 DEF LibraryInv

LEMMA ApplicationStepKeepsLibrary ==
  ASSUME LibraryInv, NEW a \in DOMAIN application,
         \/ Library!ArchiveApplication(a) \/ Library!RestoreApplication(a)
         \/ Library!DeleteApplication(a)
  PROVE  LibraryInv'
<1>1. UNCHANGED <<job, source, run, libraryTx>>
  BY DEF Library!ArchiveApplication, Library!RestoreApplication, Library!DeleteApplication,
         Library!Request
<1>2. PICK o : o = application[a]
  OBVIOUS
<1>3. o \in ApplicationShape /\ DOMAIN o = {"job", "archived", "deleted", "analysis"}
  <2>1. application \in Seq(ApplicationShape)
    BY DEF LibraryInv, ApplicationsInv
  <2>2. o \in ApplicationShape
    BY <1>2, <2>1
  <2> QED
    BY <2>2 DEF ApplicationShape
<1>4. ASSUME Library!ArchiveApplication(a)
      PROVE  ApplicationsInv'
  <2>1. PICK r : r = [o EXCEPT !.archived = TRUE]
    OBVIOUS
  <2>2. r \in ApplicationShape /\ r.archived /\ r.deleted = o.deleted /\ r.analysis = o.analysis
    BY <1>3, <2>1 DEF ApplicationShape
  <2>3. application' = [application EXCEPT ![a] = r]
    BY <1>2, <1>4, <2>1 DEF Library!ArchiveApplication
  <2> QED
    BY <1>2, <2>2, <2>3, ChangeKeepsApplications DEF LibraryInv
<1>5. ASSUME Library!RestoreApplication(a)
      PROVE  ApplicationsInv'
  <2>1. PICK r : r = [o EXCEPT !.archived = FALSE]
    OBVIOUS
  <2>2. r \in ApplicationShape /\ r.job = o.job /\ r.deleted = o.deleted /\ r.analysis = o.analysis
    BY <1>3, <2>1 DEF ApplicationShape
  <2>3. application' = [application EXCEPT ![a] = r]
    BY <1>2, <1>5, <2>1 DEF Library!RestoreApplication
  <2>4. \A b \in DOMAIN application : Current(b) => application[b].job # r.job
    BY <1>2, <1>5, <2>2 DEF Library!RestoreApplication, Library!ActiveFor, Current
  <2> QED
    BY <1>2, <2>2, <2>3, <2>4, ChangeKeepsApplications DEF LibraryInv
<1>6. ASSUME Library!DeleteApplication(a)
      PROVE  ApplicationsInv'
  <2>1. PICK r : r = [o EXCEPT !.deleted = TRUE]
    OBVIOUS
  <2>2. r \in ApplicationShape /\ r.deleted /\ r.analysis = o.analysis
    BY <1>3, <2>1 DEF ApplicationShape
  <2>3. application' = [application EXCEPT ![a] = r]
    BY <1>2, <1>6, <2>1 DEF Library!DeleteApplication
  <2> QED
    BY <1>2, <2>2, <2>3, ChangeKeepsApplications DEF LibraryInv
<1>7. ApplicationsInv'
  BY <1>4, <1>5, <1>6
<1>8. TxInv' /\ RunsInv'
  BY <1>1 DEF LibraryInv, TxInv, RunsInv, Left
<1>9. KeysInv'
  BY <1>1, PendingLess DEF LibraryInv, Library!Pending
<1> QED
  BY <1>7, <1>8, <1>9 DEF LibraryInv

(* Jobs *)

\* Among the active Jobs one is new or has a new key, which no other has.
LEMMA ChangeKeepsKeys ==
  ASSUME KeysInv, NEW k, NEW key,
         \A d \in Clients : \A p \in Library!Pending(d)' : p \in Library!Pending(d),
         \A j \in Library!ActiveJobs' : j # k =>
           /\ j \in Library!ActiveJobs /\ Library!Key(job'[j]) = Library!Key(job[j])
           /\ k \in Library!ActiveJobs' => Library!Key(job[j]) # key,
         k \in Library!ActiveJobs' =>
           /\ Library!Key(job'[k]) = key
           /\ \A d \in Clients : key \notin Library!Pending(d)'
  PROVE  KeysInv'
<1>1. \A i, j \in Library!ActiveJobs' : Library!Key(job'[i]) = Library!Key(job'[j]) => i = j
  <2> SUFFICES ASSUME NEW i \in Library!ActiveJobs', NEW j \in Library!ActiveJobs',
                      Library!Key(job'[i]) = Library!Key(job'[j]), i # j
               PROVE  FALSE
    OBVIOUS
  <2>1. CASE i # k /\ j # k
    BY <2>1 DEF KeysInv
  <2>2. CASE i = k
    BY <2>2
  <2>3. CASE j = k
    BY <2>3
  <2> QED
    BY <2>1, <2>2, <2>3
<1>2. \A d \in Clients : \A j \in Library!ActiveJobs' :
        Library!Key(job'[j]) \notin Library!Pending(d)'
  BY DEF KeysInv
<1>3. \A d, e \in Clients : \A p \in Library!Pending(d)' : p \in Library!Pending(e)' => d = e
  BY DEF KeysInv
<1> QED
  BY <1>1, <1>2, <1>3 DEF KeysInv

LEMMA JobStepKeepsLibrary ==
  ASSUME LibraryInv, NEW j \in DOMAIN job,
         \/ \E content0 \in Contents : Library!UpdateJob(j, content0)
         \/ Library!ArchiveJob(j) \/ Library!RestoreJob(j)
  PROVE  LibraryInv'
<1>1. /\ UNCHANGED <<source, application, run, libraryTx>>
      /\ job \in Seq(Library!JobRow)
  BY DEF Library!UpdateJob, Library!ArchiveJob, Library!RestoreJob, Library!Request, LibraryInv,
         TxInv
<1>2. \A d \in Clients : Library!Pending(d)' = Library!Pending(d)
  BY <1>1 DEF Library!Pending
<1>3. PICK o : o = job[j]
  OBVIOUS
<1>4. o \in Library!JobRow /\ DOMAIN o = {"text", "url", "archived"}
  <2>1. o \in Library!JobRow
    BY <1>1, <1>3
  <2> QED
    BY <2>1 DEF Library!JobRow
<1>5. ASSUME NEW content0 \in Contents, Library!UpdateJob(j, content0)
      PROVE  job' \in Seq(Library!JobRow) /\ KeysInv'
  <2>1. PICK r : r = [[o EXCEPT !.text = content0.text] EXCEPT !.url = content0.url]
    OBVIOUS
  <2>2. /\ r.text = content0.text /\ r.url = content0.url /\ r.archived = o.archived
        /\ r \in Library!JobRow
    BY <1>4, <2>1 DEF Library!JobRow, Library!Texts, Library!Urls
  <2>3. job' = [job EXCEPT ![j] = r]
    BY <1>3, <1>5, <2>1 DEF Library!UpdateJob
  <2>4. /\ job' \in Seq(Library!JobRow) /\ DOMAIN job' = DOMAIN job /\ job'[j] = r
        /\ \A i \in DOMAIN job : i # j => job'[i] = job[i]
    BY <1>1, <2>2, <2>3
  <2>5. \A i \in Library!ActiveJobs' : i # j => i \in Library!ActiveJobs /\ job'[i] = job[i]
    BY <2>4 DEF Library!ActiveJobs
  <2>6. Library!Key(r) = Library!Key(content0)
    BY <2>2 DEF Library!Key
  <2>7. /\ \A i \in Library!ActiveJobs : i # j => Library!Key(job[i]) # Library!Key(content0)
        /\ \A d \in Clients : Library!Key(content0) \notin Library!Pending(d)
    BY <1>5 DEF Library!UpdateJob, Library!KeyFree
  <2>8. KeysInv'
    BY SMTT(40), <1>2, <2>4, <2>5, <2>6, <2>7, ChangeKeepsKeys DEF LibraryInv
  <2> QED
    BY <2>4, <2>8
<1>6. ASSUME Library!ArchiveJob(j)
      PROVE  job' \in Seq(Library!JobRow) /\ KeysInv'
  <2>1. PICK r : r = [o EXCEPT !.archived = TRUE]
    OBVIOUS
  <2>2. r.archived /\ r \in Library!JobRow
    BY <1>4, <2>1 DEF Library!JobRow
  <2>3. job' = [job EXCEPT ![j] = r]
    BY <1>3, <1>6, <2>1 DEF Library!ArchiveJob
  <2>4. /\ job' \in Seq(Library!JobRow) /\ DOMAIN job' = DOMAIN job /\ job'[j] = r
        /\ \A i \in DOMAIN job : i # j => job'[i] = job[i]
    BY <1>1, <2>2, <2>3
  <2>5. /\ j \notin Library!ActiveJobs'
        /\ \A i \in Library!ActiveJobs' : i # j => i \in Library!ActiveJobs /\ job'[i] = job[i]
    BY <2>2, <2>4 DEF Library!ActiveJobs
  <2>6. KeysInv'
    BY <1>2, <2>5, ChangeKeepsKeys DEF LibraryInv
  <2> QED
    BY <2>4, <2>6
<1>7. ASSUME Library!RestoreJob(j)
      PROVE  job' \in Seq(Library!JobRow) /\ KeysInv'
  <2>1. PICK r : r = [o EXCEPT !.archived = FALSE]
    OBVIOUS
  <2>2. r.text = o.text /\ r.url = o.url /\ r \in Library!JobRow
    BY <1>4, <2>1 DEF Library!JobRow
  <2>3. job' = [job EXCEPT ![j] = r]
    BY <1>3, <1>7, <2>1 DEF Library!RestoreJob
  <2>4. /\ job' \in Seq(Library!JobRow) /\ DOMAIN job' = DOMAIN job /\ job'[j] = r
        /\ \A i \in DOMAIN job : i # j => job'[i] = job[i]
    BY <1>1, <2>2, <2>3
  <2>5. \A i \in Library!ActiveJobs' : i # j => i \in Library!ActiveJobs /\ job'[i] = job[i]
    BY <2>4 DEF Library!ActiveJobs
  <2>6. Library!Key(r) = Library!Key(o)
    BY <2>2 DEF Library!Key
  <2>7. /\ \A i \in Library!ActiveJobs : i # j => Library!Key(job[i]) # Library!Key(o)
        /\ \A d \in Clients : Library!Key(o) \notin Library!Pending(d)
    <3>1. /\ Library!KeyFree(job[j], {j})
          /\ \A d \in Clients : Library!Key(job[j]) \notin Library!Pending(d)
      BY <1>7 DEF Library!RestoreJob
    <3>2. Library!KeyFree(o, {j}) /\ \A d \in Clients : Library!Key(o) \notin Library!Pending(d)
      BY <1>3, <3>1
    <3> QED
      BY <3>2 DEF Library!KeyFree
  <2>8. KeysInv'
    <3>1. PICK key : key = Library!Key(o)
      OBVIOUS
    <3>2. \A i \in Library!ActiveJobs' : i # j =>
            /\ i \in Library!ActiveJobs /\ Library!Key(job'[i]) = Library!Key(job[i])
            /\ Library!Key(job[i]) # key
      BY <2>5, <2>7, <3>1
    <3>3. /\ Library!Key(job'[j]) = key
          /\ \A d \in Clients : key \notin Library!Pending(d)'
      BY <1>2, <2>4, <2>6, <2>7, <3>1
    <3> QED
      BY <1>2, <3>2, <3>3, ChangeKeepsKeys DEF LibraryInv
  <2> QED
    BY <2>4, <2>8
<1>8. job' \in Seq(Library!JobRow) /\ KeysInv'
  BY <1>5, <1>6, <1>7
<1>9. TxInv'
  BY <1>1, <1>8 DEF LibraryInv, TxInv
<1>10. ApplicationsInv' /\ RunsInv'
  BY <1>1 DEF LibraryInv, ApplicationsInv, Current, RunsInv, Left
<1> QED
  BY <1>8, <1>9, <1>10 DEF LibraryInv

(* A Job is created, alone or as an import of one row. *)

\* What is left of the runs there are: rows of another run are added.
LEMMA RunsKeepTheirs ==
  ASSUME RunsInv, NEW n \in Nat, n = Len(source), NEW m \in Nat,
         source' \in Seq(SourceShape), Len(source') = n + m,
         \A k \in 1 .. n : source'[k].run = source[k].run,
         NEW i, \A k \in (n + 1) .. (n + m) : source'[k].run # i
  PROVE  Left(i)' = Left(i)
<1>1. DOMAIN source = 1 .. n /\ DOMAIN source' = 1 .. (n + m)
  BY DEF RunsInv
<1>2. \A k \in DOMAIN source' : k \in 1 .. n \/ k \in (n + 1) .. (n + m)
  BY <1>1
<1>3. DOMAIN source \subseteq DOMAIN source'
  BY <1>1
<1> QED
  BY <1>1, <1>2, <1>3 DEF Left

\* A run is added, with a Source for every row it counts as created or duplicate.
LEMMA RunAdded ==
  ASSUME RunsInv, NEW r \in Library!RunRow, run' = Append(run, r),
         NEW n \in Nat, n = Len(source), NEW m \in Nat,
         source' \in Seq(SourceShape), Len(source') = n + m,
         \A k \in 1 .. n : source'[k].run = source[k].run,
         \A k \in (n + 1) .. (n + m) : source'[k].run = Len(run) + 1,
         r.created + r.duplicate = m,
         r.type # "csv_validate" => r.created + r.duplicate + r.failed = r.count
  PROVE  RunsInv'
<1>1. PICK l \in Nat : l = Len(run)
  BY DEF RunsInv
<1>2. /\ run' \in Seq(Library!RunRow) /\ Len(run') = l + 1 /\ DOMAIN run' = 1 .. (l + 1)
      /\ DOMAIN run = 1 .. l /\ run'[l + 1] = r /\ \A i \in 1 .. l : run'[i] = run[i]
  BY <1>1, AppendProperties DEF RunsInv
<1>3. DOMAIN source = 1 .. n /\ DOMAIN source' = 1 .. (n + m)
  BY DEF RunsInv
<1>4. \A k \in DOMAIN source' : k \in 1 .. n \/ k \in (n + 1) .. (n + m)
  BY <1>3
<1>5. \A k \in 1 .. n : source[k].run \in Nat /\ source[k].run <= l
  <2> TAKE k \in 1 .. n
  <2>1. source[k] \in SourceShape /\ source[k].run <= l
    BY <1>1, <1>3 DEF RunsInv
  <2> QED
    BY <2>1 DEF SourceShape
<1>6. \A k \in DOMAIN source' : source'[k].run <= l + 1
  BY <1>1, <1>4, <1>5
<1>7. ASSUME NEW i \in 1 .. l
      PROVE  Left(i)' = Left(i)
  <2>1. \A k \in (n + 1) .. (n + m) : source'[k].run # i
    BY <1>1
  <2> QED
    BY <2>1, RunsKeepTheirs
<1>8. Left(l + 1)' = (n + 1) .. (n + m)
  <2>1. \A k \in 1 .. n : source'[k].run # l + 1
    BY <1>5
  <2>2. \A k \in (n + 1) .. (n + m) : k \in DOMAIN source' /\ source'[k].run = l + 1
    BY <1>1, <1>3
  <2>3. Left(l + 1)' \subseteq (n + 1) .. (n + m)
    BY <1>4, <2>1 DEF Left
  <2>4. (n + 1) .. (n + m) \subseteq Left(l + 1)'
    BY <2>2 DEF Left
  <2> QED
    BY <2>3, <2>4
<1>9. Cardinality((n + 1) .. (n + m)) = m
  <2>0. PICK a \in Int, b \in Int : a = n + 1 /\ b = n + m
    OBVIOUS
  <2>1. Cardinality(a .. b) = IF a > b THEN 0 ELSE b - a + 1
    BY FS_Interval
  <2>2. CASE m = 0
    BY <2>0, <2>1, <2>2
  <2>3. CASE m # 0
    BY <2>0, <2>1, <2>3
  <2> QED
    BY <2>2, <2>3
<1>10. \A i \in DOMAIN run' :
         /\ run'[i].created + run'[i].duplicate = Cardinality(Left(i))'
         /\ run'[i].type # "csv_validate" =>
              run'[i].created + run'[i].duplicate + run'[i].failed = run'[i].count
  <2>1. \A i \in 1 .. l :
         /\ run'[i].created + run'[i].duplicate = Cardinality(Left(i))'
         /\ run'[i].type # "csv_validate" =>
              run'[i].created + run'[i].duplicate + run'[i].failed = run'[i].count
    BY <1>2, <1>7 DEF RunsInv
  <2>2. Cardinality(Left(l + 1))' = m
    BY <1>8, <1>9
  <2>3. \A i \in DOMAIN run' : i \in 1 .. l \/ i = l + 1
    BY <1>2
  <2> QED
    BY <1>2, <2>1, <2>2, <2>3
<1> QED
  BY <1>1, <1>2, <1>6, <1>10 DEF RunsInv

\* Sources are added that no run counts, or Sources move to another Job.
LEMMA RunsUntouched ==
  ASSUME RunsInv, UNCHANGED run, NEW n \in Nat, n = Len(source), NEW m \in Nat,
         source' \in Seq(SourceShape), Len(source') = n + m,
         \A k \in 1 .. n : source'[k].run = source[k].run,
         \A k \in (n + 1) .. (n + m) : source'[k].run = 0
  PROVE  RunsInv'
<1>1. DOMAIN source = 1 .. n /\ DOMAIN source' = 1 .. (n + m) /\ Len(run) \in Nat
      /\ DOMAIN run = 1 .. Len(run)
  BY DEF RunsInv
<1>2. \A k \in DOMAIN source' : k \in 1 .. n \/ k \in (n + 1) .. (n + m)
  BY <1>1
<1>3. \A k \in DOMAIN source' : source'[k].run <= Len(run')
  BY <1>1, <1>2 DEF RunsInv
<1>4. \A i \in DOMAIN run : Left(i)' = Left(i)
  <2>1. \A i \in DOMAIN run : i # 0
    BY <1>1
  <2> QED
    BY <2>1, RunsKeepTheirs, ZenonT(60)
<1> QED
  BY <1>3, <1>4 DEF RunsInv

LEMMA OneRowIsCounted ==
  ASSUME NEW new \in BOOLEAN
  PROVE  /\ Library!OneRowRun(new) \in Library!RunRow
         /\ Library!OneRowRun(new).created + Library!OneRowRun(new).duplicate = 1
         /\ Library!OneRowRun(new).failed = 0 /\ Library!OneRowRun(new).count = 1
BY DEF Library!OneRowRun, Library!RunRow

LEMMA CreateKeepsRuns ==
  ASSUME LibraryInv, NEW c \in Clients, Library!CreateCommit(c)
  PROVE  RunsInv'
<1>1. PICK t : t = libraryTx[c]
  OBVIOUS
<1>2. PICK new \in BOOLEAN : new <=> t.existing = 0
  OBVIOUS
<1>3. PICK id : id = IF t.existing = 0 THEN Len(job) + 1 ELSE t.existing
  OBVIOUS
<1>4. PICK row : row = [job |-> id, run |-> IF t.imports THEN Len(run) + 1 ELSE 0]
  OBVIOUS
<1>5. /\ t.op = "create" /\ source' = Append(source, row)
      /\ run' = IF t.imports THEN Append(run, Library!OneRowRun(t.existing = 0)) ELSE run
  BY <1>1, <1>3, <1>4 DEF Library!CreateCommit
<1>6. t.existing \in Nat /\ t.imports \in BOOLEAN /\ job \in Seq(Library!JobRow)
  BY <1>1, <1>5 DEF LibraryInv, TxInv, TxLegal
<1>7. RunsInv /\ source \in Seq(SourceShape) /\ run \in Seq(Library!RunRow)
  BY DEF LibraryInv, RunsInv
<1>8. PICK n \in Nat : n = Len(source)
  BY <1>7
<1>9. id \in Nat /\ Len(run) \in Nat
  BY <1>3, <1>6, <1>7
<1>10. row \in SourceShape /\ row.run = IF t.imports THEN Len(run) + 1 ELSE 0
  BY <1>4, <1>9 DEF SourceShape
<1>11. /\ source' \in Seq(SourceShape) /\ Len(source') = n + 1 /\ source'[n + 1] = row
       /\ \A k \in 1 .. n : source'[k].run = source[k].run
  BY <1>5, <1>7, <1>8, <1>10, AppendProperties
<1>12. \A k \in (n + 1) .. (n + 1) : source'[k].run = row.run
  BY <1>11
<1>13. CASE t.imports
  <2>1. PICK r : r = Library!OneRowRun(new)
    OBVIOUS
  <2>2. (t.existing = 0) = new
    BY <1>2
  <2>3. run' = Append(run, r)
    BY <1>5, <1>13, <2>1, <2>2
  <2>4. /\ r \in Library!RunRow /\ r.created + r.duplicate = 1
        /\ r.failed = 0 /\ r.count = 1
    BY <2>1, OneRowIsCounted
  <2>5. r.created + r.duplicate + r.failed = r.count
    BY <2>4
  <2>6. \A k \in (n + 1) .. (n + 1) : source'[k].run = Len(run) + 1
    BY <1>10, <1>12, <1>13
  <2> QED
    BY <1>7, <1>8, <1>11, <2>3, <2>4, <2>5, <2>6, RunAdded
<1>14. CASE ~t.imports
  <2>1. \A k \in (n + 1) .. (n + 1) : source'[k].run = 0
    BY <1>10, <1>12, <1>14
  <2>2. run' = run
    BY <1>5, <1>14
  <2> QED
    BY <1>7, <1>8, <1>11, <2>1, <2>2, RunsUntouched
<1> QED
  BY <1>13, <1>14

LEMMA CreateKeepsLibrary ==
  ASSUME LibraryInv, NEW c \in Clients, Library!CreateCommit(c)
  PROVE  LibraryInv'
<1>1. PICK t : t = libraryTx[c]
  OBVIOUS
<1>2. t.op = "create" /\ Library!End(c) /\ UNCHANGED application
  BY <1>1 DEF Library!CreateCommit
<1>3. TxInv /\ KeysInv /\ job \in Seq(Library!JobRow) /\ t.content \in Contents
  BY <1>1, <1>2 DEF LibraryInv, TxInv, TxLegal
<1>4. /\ DOMAIN libraryTx' = Clients /\ \A d \in Clients : TxLegal(libraryTx'[d])
      /\ Library!Pending(c)' = {}
      /\ \A d \in Clients : d # c => Library!Pending(d)' = Library!Pending(d)
  BY <1>2, <1>3, EndKeepsTx
<1>5. CASE t.existing = 0
  <2>1. PICK row : row = [text |-> t.content.text, url |-> t.content.url, archived |-> FALSE]
    OBVIOUS
  <2>2. /\ job' = Append(job, row)
        /\ Library!KeyFree(t.content, {}) /\ ~Library!KeyPending(c, t.content)
    BY <1>1, <1>5, <2>1 DEF Library!CreateCommit
  <2>3. row \in Library!JobRow /\ Library!Key(row) = Library!Key(t.content)
    BY <1>3, <2>1 DEF Library!JobRow, Library!Texts, Library!Urls, Library!Key
  <2>4. PICK n \in Nat : n = Len(job)
    BY <1>3
  <2>5. /\ job' \in Seq(Library!JobRow) /\ DOMAIN job = 1 .. n /\ DOMAIN job' = 1 .. (n + 1)
        /\ job'[n + 1] = row /\ \A i \in 1 .. n : job'[i] = job[i]
    BY <1>3, <2>2, <2>3, <2>4, AppendProperties
  <2>6. PICK key : key = Library!Key(t.content)
    OBVIOUS
  <2>7. \A i \in Library!ActiveJobs' : i # n + 1 =>
          /\ i \in Library!ActiveJobs /\ Library!Key(job'[i]) = Library!Key(job[i])
          /\ Library!Key(job[i]) # key
    <3>1. \A i \in Library!ActiveJobs' : i # n + 1 => i \in Library!ActiveJobs /\ job'[i] = job[i]
      BY <2>5 DEF Library!ActiveJobs
    <3>2. \A i \in Library!ActiveJobs : Library!Key(job[i]) # key
      BY <2>2, <2>6 DEF Library!KeyFree
    <3> QED
      BY <3>1, <3>2
  <2>8. /\ Library!Key(job'[n + 1]) = key
        /\ \A d \in Clients : key \notin Library!Pending(d)'
    BY <1>4, <2>2, <2>3, <2>5, <2>6 DEF Library!KeyPending
  <2>9. KeysInv'
    BY <1>3, <1>4, <2>7, <2>8, ChangeKeepsKeys
  <2> QED
    BY <2>5, <2>9, <1>2, <1>4, CreateKeepsRuns DEF LibraryInv, TxInv, ApplicationsInv, Current
<1>6. CASE t.existing # 0
  <2>1. job' = job
    BY <1>1, <1>6 DEF Library!CreateCommit
  <2>2. KeysInv'
    BY <1>3, <1>4, <2>1, PendingLess
  <2> QED
    BY <1>2, <1>3, <1>4, <2>1, <2>2, CreateKeepsRuns DEF LibraryInv, TxInv, ApplicationsInv, Current
<1> QED
  BY <1>5, <1>6

(* An import is committed. *)

LEMMA ElementsOf ==
  ASSUME NEW S, NEW s \in Seq(S), NEW m \in Nat, m = Len(s)
  PROVE  DOMAIN s = 1 .. m /\ \A i \in 1 .. m : s[i] \in S
OBVIOUS

LEMMA Joined ==
  ASSUME NEW S, NEW s \in Seq(S), NEW m \in Nat, NEW f \in [1 .. m -> S]
  PROVE  /\ s \o f \in Seq(S) /\ Len(s \o f) = Len(s) + m
         /\ DOMAIN (s \o f) = 1 .. (Len(s) + m) /\ DOMAIN s = 1 .. Len(s)
         /\ \A k \in 1 .. Len(s) : (s \o f)[k] = s[k]
         /\ \A k \in (Len(s) + 1) .. (Len(s) + m) :
              k - Len(s) \in 1 .. m /\ (s \o f)[k] = f[k - Len(s)]
<1>1. f \in Seq(S) /\ Len(f) = m /\ Len(s) \in Nat
  OBVIOUS
<1>2. /\ s \o f \in Seq(S) /\ Len(s \o f) = Len(s) + Len(f)
      /\ \A i \in 1 .. Len(s) + Len(f) :
           (s \o f)[i] = IF i <= Len(s) THEN s[i] ELSE f[i - Len(s)]
  BY <1>1, ConcatProperties
<1>3. DOMAIN (s \o f) = 1 .. (Len(s) + m) /\ DOMAIN s = 1 .. Len(s)
  BY <1>1, <1>2
<1>4. \A k \in 1 .. Len(s) : (s \o f)[k] = s[k]
  BY <1>1, <1>2
<1>5. \A k \in (Len(s) + 1) .. (Len(s) + m) :
        k - Len(s) \in 1 .. m /\ (s \o f)[k] = f[k - Len(s)]
  BY <1>1, <1>2
<1> QED
  BY <1>1, <1>2, <1>3, <1>4, <1>5

LEMMA CsvCommitKeepsRuns ==
  ASSUME LibraryInv, NEW c \in Clients, Library!CsvCommit(c)
  PROVE  RunsInv'
<1>1. PICK t : t = libraryTx[c]
  OBVIOUS
<1>2. t.op = "csv" /\ t.at > Len(t.rows)
  BY <1>1 DEF Library!CsvCommit
<1>3. CsvLegal(t)
  BY <1>1, <1>2, CsvOf DEF LibraryInv
<1>4. RunsInv /\ source \in Seq(SourceShape) /\ run \in Seq(Library!RunRow)
      /\ job \in Seq(Library!JobRow)
  BY DEF LibraryInv, RunsInv, TxInv
<1>5. /\ t.rows \in Seq(Contents \cup {Library!Refused}) /\ t.inserted \in Seq(Contents)
      /\ t.touched \in Seq(Nat) /\ t.duplicate \in Nat /\ t.failed \in Nat
      /\ t.at \in 1 .. (Len(t.rows) + 1)
  BY <1>3 DEF CsvLegal
<1>6. PICK n \in Nat, j \in Nat, l \in Nat, m \in Nat, a \in Nat, d \in Nat, f \in Nat, k0 \in Nat :
        /\ n = Len(source) /\ j = Len(job) /\ l = Len(run) /\ m = Len(t.touched)
        /\ a = Len(t.inserted) /\ d = t.duplicate /\ f = t.failed /\ k0 = Len(t.rows)
  <2>1. /\ Len(source) \in Nat /\ Len(job) \in Nat /\ Len(run) \in Nat /\ Len(t.touched) \in Nat
        /\ Len(t.inserted) \in Nat /\ Len(t.rows) \in Nat
    BY SMTT(40), <1>5, <1>4
  <2> QED
    BY <1>5, <2>1
<1>7. m = a + d /\ (~t.validate => k0 = a + d + f)
  <2>1. Len(t.touched) = Len(t.inserted) + t.duplicate
    BY <1>3 DEF CsvLegal
  <2>2. t.at = k0 + 1
    BY <1>5, <1>2, <1>6
  <2>3. ~t.validate => t.at - 1 = Len(t.inserted) + t.duplicate + t.failed
    BY <1>3 DEF CsvLegal
  <2> QED
    BY <1>6, <2>1, <2>2, <2>3
<1>8. PICK fill : fill = [i \in DOMAIN t.touched |->
                            [job |-> IF t.touched[i] > MaxJobs
                                     THEN Len(job) + t.touched[i] - MaxJobs ELSE t.touched[i],
                             run |-> Len(run) + 1]]
  OBVIOUS
<1>9. source' = source \o fill
  BY <1>1, <1>8 DEF Library!CsvCommit
<1>10. DOMAIN t.touched = 1 .. m /\ \A i \in 1 .. m : t.touched[i] \in Nat
  BY <1>5, <1>6, ElementsOf
<1>11. \A i \in 1 .. m : fill[i] \in SourceShape /\ fill[i].run = l + 1
  <2> TAKE i \in 1 .. m
  <2>1. PICK s \in Nat : s = t.touched[i]
    BY <1>10
  <2>2. PICK id : id = IF s > MaxJobs THEN j + s - MaxJobs ELSE s
    OBVIOUS
  <2>3. id \in Nat
    BY <2>2, RecordsAssumption
  <2>4. fill[i] = [job |-> id, run |-> l + 1]
    BY <1>6, <1>8, <1>10, <2>1, <2>2
  <2> QED
    BY <2>3, <2>4 DEF SourceShape
<1>12. fill = [i \in 1 .. m |-> fill[i]]
  BY <1>8, <1>10
<1>13. fill \in [1 .. m -> SourceShape]
  BY <1>11, <1>12
<1>14. /\ source' \in Seq(SourceShape) /\ Len(source') = n + m
       /\ \A k \in 1 .. n : source'[k] = source[k]
       /\ \A k \in (n + 1) .. (n + m) : k - n \in 1 .. m /\ source'[k] = fill[k - n]
  <2>1. /\ source \o fill \in Seq(SourceShape) /\ Len(source \o fill) = Len(source) + m
        /\ \A k \in 1 .. Len(source) : (source \o fill)[k] = source[k]
        /\ \A k \in (Len(source) + 1) .. (Len(source) + m) :
             k - Len(source) \in 1 .. m /\ (source \o fill)[k] = fill[k - Len(source)]
    <3>1. PICK rows : rows = source
      OBVIOUS
    <3>2. PICK type : type = SourceShape
      OBVIOUS
    <3>3. rows \in Seq(type) /\ fill \in [1 .. m -> type]
      BY <1>4, <1>13, <3>1, <3>2
    <3>4. /\ rows \o fill \in Seq(type) /\ Len(rows \o fill) = Len(rows) + m
          /\ \A k \in 1 .. Len(rows) : (rows \o fill)[k] = rows[k]
          /\ \A k \in (Len(rows) + 1) .. (Len(rows) + m) :
               k - Len(rows) \in 1 .. m /\ (rows \o fill)[k] = fill[k - Len(rows)]
      BY <3>3, Joined
    <3> QED
      BY <3>1, <3>2, <3>4
  <2>2. n = Len(source)
    BY <1>6
  <2> QED
    BY <1>9, <2>1, <2>2
<1>15. \A k \in 1 .. n : source'[k].run = source[k].run
  BY <1>14
<1>16. \A k \in (n + 1) .. (n + m) : source'[k].run = l + 1
  BY <1>11, <1>14
<1>17. PICK r : r = [type |-> IF t.validate THEN "csv_validate" ELSE "csv",
                     count |-> Len(t.rows), created |-> Len(t.inserted),
                     duplicate |-> t.duplicate, failed |-> t.failed,
                     status |-> Library!CsvStatus(t)]
  OBVIOUS
<1>18. run' = Append(run, r)
  BY <1>1, <1>17 DEF Library!CsvCommit
<1>19. Library!CsvStatus(t) \in {"completed", "validated", "completed_with_errors"}
  BY DEF Library!CsvStatus
<1>20. /\ r.count = k0 /\ r.created = a /\ r.duplicate = d /\ r.failed = f
       /\ r.type = IF t.validate THEN "csv_validate" ELSE "csv"
  BY <1>6, <1>17
<1>21. r \in Library!RunRow
  BY <1>6, <1>17, <1>19 DEF Library!RunRow
<1>22. r.created + r.duplicate = m
       /\ (r.type # "csv_validate" => r.created + r.duplicate + r.failed = r.count)
  BY <1>7, <1>20
<1> QED
  <2>1. \A k \in (n + 1) .. (n + m) : source'[k].run = Len(run) + 1
    BY <1>6, <1>16
  <2> QED
    BY <1>4, <1>6, <1>14, <1>15, <1>18, <1>21, <1>22, <2>1, RunAdded

LEMMA CsvCommitKeepsLibrary ==
  ASSUME LibraryInv, NEW c \in Clients, Library!CsvCommit(c)
  PROVE  LibraryInv'
<1>1. PICK t : t = libraryTx[c]
  OBVIOUS
<1>2. t.op = "csv" /\ Library!End(c) /\ UNCHANGED application
  BY <1>1 DEF Library!CsvCommit
<1>3. TxInv /\ KeysInv /\ job \in Seq(Library!JobRow) /\ CsvLegal(t)
  BY <1>1, <1>2, CsvOf DEF LibraryInv, TxInv
<1>4. /\ DOMAIN libraryTx' = Clients /\ \A d \in Clients : TxLegal(libraryTx'[d])
      /\ Library!Pending(c)' = {}
      /\ \A d \in Clients : d # c => Library!Pending(d)' = Library!Pending(d)
  BY <1>2, <1>3, EndKeepsTx
<1>5. PICK inserted \in Seq(Contents) : inserted = t.inserted
  BY <1>3 DEF CsvLegal
<1>6. PICK n \in Nat, m \in Nat : n = Len(job) /\ m = Len(inserted)
  BY <1>3
<1>7. DOMAIN inserted = 1 .. m /\ \A i \in 1 .. m : inserted[i] \in Contents
  BY <1>6, ElementsOf
<1>8. PICK new : new = [i \in 1 .. m |-> [text |-> inserted[i].text, url |-> inserted[i].url,
                                          archived |-> FALSE]]
  OBVIOUS
<1>9. job' = job \o new
  BY <1>1, <1>5, <1>7, <1>8 DEF Library!CsvCommit
<1>10. \A i \in 1 .. m : /\ new[i] \in Library!JobRow
                         /\ Library!Key(new[i]) = Library!Key(inserted[i])
  BY <1>7, <1>8 DEF Library!JobRow, Library!Texts, Library!Urls, Library!Key
<1>11. new \in [1 .. m -> Library!JobRow]
  BY <1>8, <1>10
<1>12. /\ job' \in Seq(Library!JobRow) /\ DOMAIN job' = 1 .. (n + m) /\ DOMAIN job = 1 .. n
       /\ \A i \in 1 .. n : job'[i] = job[i]
       /\ \A i \in (n + 1) .. (n + m) : i - n \in 1 .. m /\ job'[i] = new[i - n]
  <2>1. /\ job \o new \in Seq(Library!JobRow) /\ DOMAIN (job \o new) = 1 .. (Len(job) + m)
        /\ DOMAIN job = 1 .. Len(job)
        /\ \A i \in 1 .. Len(job) : (job \o new)[i] = job[i]
        /\ \A i \in (Len(job) + 1) .. (Len(job) + m) :
             i - Len(job) \in 1 .. m /\ (job \o new)[i] = new[i - Len(job)]
    BY <1>3, <1>11, Joined
  <2>2. n = Len(job)
    BY <1>6
  <2> QED
    BY <1>9, <2>1, <2>2
<1>13. \A i \in Library!ActiveJobs' :
         \/ /\ i \in 1 .. n /\ i \in Library!ActiveJobs
            /\ Library!Key(job'[i]) = Library!Key(job[i])
         \/ /\ i \in (n + 1) .. (n + m) /\ i - n \in 1 .. m
            /\ Library!Key(job'[i]) = Library!Key(inserted[i - n])
  <2> TAKE i \in Library!ActiveJobs'
  <2>1. i \in 1 .. (n + m)
    BY <1>12 DEF Library!ActiveJobs
  <2>2. CASE i \in 1 .. n
    BY <1>12, <2>2 DEF Library!ActiveJobs
  <2>3. CASE i \in (n + 1) .. (n + m)
    BY <1>10, <1>12, <2>3
  <2> QED
    BY <2>1, <2>2, <2>3
<1>14. Library!Pending(c) = {Library!Key(inserted[i]) : i \in 1 .. m}
  BY <1>1, <1>2, <1>5, <1>7 DEF Library!Pending
<1>15. \A i, k \in 1 .. m : Library!Key(inserted[i]) = Library!Key(inserted[k]) => i = k
  BY <1>3, <1>5, <1>7 DEF CsvLegal
<1>16. \A i \in Library!ActiveJobs : \A k \in 1 .. m :
         Library!Key(job[i]) # Library!Key(inserted[k])
  BY <1>3, <1>14 DEF KeysInv
<1>17. \A i, k \in Library!ActiveJobs' : Library!Key(job'[i]) = Library!Key(job'[k]) => i = k
  <2> SUFFICES ASSUME NEW i \in Library!ActiveJobs', NEW k \in Library!ActiveJobs',
                      Library!Key(job'[i]) = Library!Key(job'[k])
               PROVE  i = k
    OBVIOUS
  <2>1. CASE i \in 1 .. n /\ k \in 1 .. n
    BY <1>3, <1>13, <2>1 DEF KeysInv
  <2>2. CASE i \in (n + 1) .. (n + m) /\ k \in (n + 1) .. (n + m)
    <3>1. i - n = k - n
      BY <1>13, <1>15, <2>2
    <3> QED
      BY <2>2, <3>1
  <2>3. CASE i \in 1 .. n /\ k \in (n + 1) .. (n + m)
    BY <1>13, <1>16, <2>3
  <2>4. CASE k \in 1 .. n /\ i \in (n + 1) .. (n + m)
    BY <1>13, <1>16, <2>4
  <2> QED
    BY <1>13, <2>1, <2>2, <2>3, <2>4
<1>18. \A d \in Clients : d # c => \A i \in Library!ActiveJobs' :
         Library!Key(job'[i]) \notin Library!Pending(d)
  <2> TAKE d \in Clients
  <2> HAVE d # c
  <2> TAKE i \in Library!ActiveJobs'
  <2>1. CASE i \in Library!ActiveJobs /\ Library!Key(job'[i]) = Library!Key(job[i])
    BY <1>3, <2>1 DEF KeysInv
  <2>2. CASE i - n \in 1 .. m /\ Library!Key(job'[i]) = Library!Key(inserted[i - n])
    <3>1. Library!Key(job'[i]) \in Library!Pending(c)
      BY <1>14, <2>2
    <3> QED
      BY <1>3, <3>1 DEF KeysInv
  <2> QED
    BY <1>13, <2>1, <2>2
<1>19. KeysInv'
  BY <1>3, <1>4, <1>17, <1>18 DEF KeysInv
<1>20. TxInv' /\ ApplicationsInv'
  BY <1>2, <1>4, <1>12 DEF LibraryInv, TxInv, ApplicationsInv, Current
<1> QED
  BY <1>19, <1>20, CsvCommitKeepsRuns DEF LibraryInv

(* Two Jobs are merged. *)

LEMMA MovedRuns ==
  ASSUME RunsInv, NEW s, NEW t \in Nat, UNCHANGED run, source' = Library!Moved(source, s, t)
  PROVE  RunsInv'
<1>1. PICK n \in Nat : n = Len(source)
  BY DEF RunsInv
<1>2. source \in Seq(SourceShape)
  BY DEF RunsInv
<1>3. DOMAIN source = 1 .. n /\ \A i \in 1 .. n : source[i] \in SourceShape
  BY <1>1, <1>2, ElementsOf
<1>4. source' = [i \in 1 .. n |-> IF source[i].job = s THEN [source[i] EXCEPT !.job = t]
                                  ELSE source[i]]
  BY <1>3 DEF Library!Moved
<1>5. \A i \in 1 .. n : source'[i] \in SourceShape /\ source'[i].run = source[i].run
  <2> TAKE i \in 1 .. n
  <2>1. PICK o : o = source[i]
    OBVIOUS
  <2>2. PICK r : r = [o EXCEPT !.job = t]
    OBVIOUS
  <2>3. o \in SourceShape
    BY <1>3, <2>1
  <2>4. r \in SourceShape /\ r.run = o.run
    BY <2>2, <2>3 DEF SourceShape
  <2>5. source'[i] = IF o.job = s THEN r ELSE o
    BY <1>4, <2>1, <2>2
  <2> QED
    BY <2>1, <2>3, <2>4, <2>5
<1>6. source' \in Seq(SourceShape) /\ Len(source') = n + 0
  <2>1. source' \in [1 .. n -> SourceShape]
    BY <1>4, <1>5
  <2> QED
    BY <2>1
<1>7. \A k \in (n + 1) .. (n + 0) : source'[k].run = 0
  OBVIOUS
<1> QED
  BY <1>1, <1>5, <1>6, <1>7, RunsUntouched

LEMMA MergeKeepsLibrary ==
  ASSUME LibraryInv, NEW c \in Clients, NEW content0 \in Contents, NEW first \in BOOLEAN,
         Library!MergeCommit(c, content0, first)
  PROVE  LibraryInv'
<1>1. PICK x : x = libraryTx[c]
  OBVIOUS
<1>2. PICK t : t = x.target
  OBVIOUS
<1>3. PICK s : s = x.origin
  OBVIOUS
<1>4. PICK a : a = x.application
  OBVIOUS
<1>5. /\ x.op = "merge" /\ Library!End(c) /\ UNCHANGED run
      /\ Library!KeyFree(content0, IF first THEN {t} ELSE {t, s})
      /\ \A d \in Clients : Library!Key(content0) \notin Library!Pending(d)
      /\ job' = [job EXCEPT ![t].text = content0.text, ![t].url = content0.url,
                            ![s].archived = TRUE]
      /\ source' = Library!Moved(source, s, t)
      /\ IF a = 0 \/ application[a].deleted THEN UNCHANGED application
         ELSE /\ application[a].archived \/ Library!ActiveFor(t) = {}
              /\ application' = [application EXCEPT ![a].job = t]
  BY <1>1, <1>2, <1>3, <1>4 DEF Library!MergeCommit
<1>6. TxInv /\ KeysInv /\ job \in Seq(Library!JobRow) /\ t \in Nat
  BY <1>1, <1>2, <1>5 DEF LibraryInv, TxInv, TxLegal
<1>7. /\ DOMAIN libraryTx' = Clients /\ \A d \in Clients : TxLegal(libraryTx'[d])
      /\ Library!Pending(c)' = {}
      /\ \A d \in Clients : d # c => Library!Pending(d)' = Library!Pending(d)
  BY <1>5, <1>6, EndKeepsTx
<1>8. PICK named : named = [[job EXCEPT ![t].text = content0.text] EXCEPT ![t].url = content0.url]
  OBVIOUS
<1>9. job' = [named EXCEPT ![s].archived = TRUE]
  BY <1>5, <1>8
<1>10. /\ named \in Seq(Library!JobRow) /\ DOMAIN named = DOMAIN job
       /\ \A i \in DOMAIN job : named[i].archived = job[i].archived
       /\ \A i \in DOMAIN job : i # t => named[i] = job[i]
       /\ t \in DOMAIN job => Library!Key(named[t]) = Library!Key(content0)
  <2>1. CASE t \notin DOMAIN job
    <3>1. named = job
      BY <1>6, <1>8, <2>1
    <3> QED
      BY <1>6, <2>1, <3>1
  <2>2. CASE t \in DOMAIN job
    <3>1. PICK o : o = job[t]
      OBVIOUS
    <3>2. PICK r : r = [[o EXCEPT !.text = content0.text] EXCEPT !.url = content0.url]
      OBVIOUS
    <3>3. named = [job EXCEPT ![t] = r]
      BY <1>6, <1>8, <2>2, <3>1, <3>2
    <3>4. o \in Library!JobRow
      BY <1>6, <2>2, <3>1
    <3>5. /\ r \in Library!JobRow /\ r.archived = o.archived
          /\ r.text = content0.text /\ r.url = content0.url
      BY <3>2, <3>4 DEF Library!JobRow, Library!Texts, Library!Urls
    <3>6. Library!Key(r) = Library!Key(content0)
      BY <3>5 DEF Library!Key
    <3>7. /\ named \in Seq(Library!JobRow) /\ DOMAIN named = DOMAIN job /\ named[t] = r
          /\ \A i \in DOMAIN job : i # t => named[i] = job[i]
      BY <1>6, <2>2, <3>3, <3>5
    <3> QED
      BY <3>1, <3>5, <3>6, <3>7
  <2> QED
    BY <2>1, <2>2
<1>11. /\ job' \in Seq(Library!JobRow) /\ DOMAIN job' = DOMAIN job
       /\ s \in DOMAIN job => job'[s].archived
       /\ \A i \in DOMAIN job : i # s => job'[i] = named[i]
  <2>1. CASE s \notin DOMAIN job
    <3>1. job' = named
      BY <1>9, <1>10, <2>1
    <3> QED
      BY <1>10, <2>1, <3>1
  <2>2. CASE s \in DOMAIN job
    <3>1. PICK o : o = named[s]
      OBVIOUS
    <3>2. PICK r : r = [o EXCEPT !.archived = TRUE]
      OBVIOUS
    <3>3. job' = [named EXCEPT ![s] = r]
      BY <1>9, <3>1, <3>2
    <3>4. o \in Library!JobRow
      BY <1>10, <2>2, <3>1
    <3>5. r \in Library!JobRow /\ r.archived
      BY <3>2, <3>4 DEF Library!JobRow
    <3> QED
      BY <1>10, <2>2, <3>3, <3>5
  <2> QED
    BY <2>1, <2>2
<1>12. \A i \in Library!ActiveJobs' :
         i \in Library!ActiveJobs /\ i # s /\ job'[i] = named[i]
  BY <1>10, <1>11 DEF Library!ActiveJobs
<1>13. PICK key : key = Library!Key(content0)
  OBVIOUS
<1>14. \A i \in Library!ActiveJobs' : i # t =>
         /\ i \in Library!ActiveJobs /\ Library!Key(job'[i]) = Library!Key(job[i])
         /\ Library!Key(job[i]) # key
  <2>1. \A i \in Library!ActiveJobs : i # t /\ i # s => Library!Key(job[i]) # key
    BY <1>5, <1>13 DEF Library!KeyFree
  <2>2. \A i \in Library!ActiveJobs : i \in DOMAIN job
    BY DEF Library!ActiveJobs
  <2> QED
    BY <1>10, <1>12, <2>1, <2>2
<1>15. t \in Library!ActiveJobs' =>
         /\ Library!Key(job'[t]) = key
         /\ \A d \in Clients : key \notin Library!Pending(d)'
  <2>1. \A d \in Clients : key \notin Library!Pending(d)'
    BY <1>5, <1>7, <1>13
  <2>2. \A i \in Library!ActiveJobs : i \in DOMAIN job
    BY DEF Library!ActiveJobs
  <2> QED
    BY <1>10, <1>12, <1>13, <2>1, <2>2
<1>16. KeysInv'
  BY <1>6, <1>7, <1>14, <1>15, ChangeKeepsKeys
<1>17. ApplicationsInv'
  <2>1. ApplicationsInv
    BY DEF LibraryInv
  <2>2. ASSUME UNCHANGED application
        PROVE  ApplicationsInv'
    BY <2>1, <2>2 DEF ApplicationsInv, Current
  <2>3. ASSUME a \in DOMAIN application, ~application[a].deleted,
               application[a].archived \/ Library!ActiveFor(t) = {},
               application' = [application EXCEPT ![a].job = t]
        PROVE  ApplicationsInv'
    <3>1. PICK o : o = application[a]
      OBVIOUS
    <3>2. PICK r : r = [o EXCEPT !.job = t]
      OBVIOUS
    <3>3. application' = [application EXCEPT ![a] = r]
      BY <2>3, <3>1, <3>2
    <3>4. application \in Seq(ApplicationShape)
      BY <2>1 DEF ApplicationsInv
    <3>5. o \in ApplicationShape
      BY <2>3, <3>1, <3>4
    <3>6. /\ r \in ApplicationShape /\ r.job = t /\ r.archived = o.archived
          /\ r.deleted = o.deleted /\ r.analysis = o.analysis
      BY <1>6, <3>2, <3>5 DEF ApplicationShape
    <3>7. ~r.archived => \A b \in DOMAIN application : Current(b) => application[b].job # t
      BY <2>3, <3>1, <3>6 DEF Library!ActiveFor, Current
    <3> QED
      BY <2>1, <2>3, <3>1, <3>3, <3>6, <3>7, ChangeKeepsApplications
  <2>4. ASSUME a \notin DOMAIN application, application' = [application EXCEPT ![a].job = t]
        PROVE  UNCHANGED application
    <3>1. application \in Seq(ApplicationShape)
      BY <2>1 DEF ApplicationsInv
    <3> QED
      BY <2>4, <3>1
  <2> QED
    BY <1>5, <2>2, <2>3, <2>4
<1>18. TxInv'
  BY <1>7, <1>11 DEF TxInv
<1>19. RunsInv'
  BY <1>5, <1>6, MovedRuns DEF LibraryInv
<1> QED
  BY <1>16, <1>17, <1>18, <1>19 DEF LibraryInv

LEMMA LibraryStarts == Library!Init => LibraryInv
<1> SUFFICES ASSUME Library!Init
             PROVE  LibraryInv
  OBVIOUS
<1>1. /\ job \in Stored /\ source = << >> /\ application = << >> /\ run = << >>
      /\ DOMAIN libraryTx = Clients /\ \A c \in Clients : libraryTx[c].op = "idle"
  BY DEF Library!Init, Library!Idle
<1>2. TxInv
  BY <1>1, OtherLegal, RecordsAssumption DEF TxInv
<1>3. \A c \in Clients : Library!Pending(c) = {}
  BY <1>1 DEF Library!Pending
<1>4. \A i, j \in Library!ActiveJobs : Library!Key(job[i]) = Library!Key(job[j]) => i = j
  BY <1>1, RecordsAssumption DEF Library!ActiveJobs
<1>5. KeysInv
  BY <1>3, <1>4 DEF KeysInv
<1>6. ApplicationsInv /\ RunsInv
  BY <1>1 DEF ApplicationsInv, RunsInv
<1> QED
  BY <1>2, <1>5, <1>6 DEF LibraryInv

LEMMA LockedStepKeepsLibrary ==
  ASSUME LibraryInv, Library!LockedStep
  PROVE  LibraryInv'
<1>1. CASE \E j \in DOMAIN job, content0 \in Contents : Library!UpdateJob(j, content0)
  BY <1>1, JobStepKeepsLibrary
<1>2. CASE \E j \in DOMAIN job : Library!ArchiveJob(j) \/ Library!RestoreJob(j)
  BY <1>2, JobStepKeepsLibrary
<1>3. CASE \/ \E j \in DOMAIN job : Library!AddRequirement(j)
           \/ \E r \in DOMAIN requirement : Library!DeleteRequirement(r)
           \/ \E pair \in DOMAIN candidate : Library!ResolveDuplicate(pair)
           \/ \E i \in DOMAIN task : Library!ArchiveTask(i)
  BY <1>3, OtherTablesKeepLibrary
<1>4. CASE \E a \in DOMAIN application :
             \/ Library!ArchiveApplication(a) \/ Library!RestoreApplication(a)
             \/ Library!DeleteApplication(a)
  BY <1>4, ApplicationStepKeepsLibrary
<1> QED
  BY <1>1, <1>2, <1>3, <1>4 DEF Library!LockedStep

LEMMA ClientStepKeepsLibrary ==
  ASSUME LibraryInv, NEW c \in Clients, Library!ClientStep(c)
  PROVE  LibraryInv'
<1>1. CASE \/ \E content0 \in Contents, imports \in BOOLEAN :
                Library!CreateRead(c, content0, imports)
           \/ \E rows \in Files, validateOnly \in BOOLEAN : Library!CsvBegin(c, rows, validateOnly)
           \/ \E t, s \in DOMAIN job : Library!MergeRead(c, t, s)
           \/ \E j \in DOMAIN job : Library!ApplyRead(c, j)
           \/ \E analysis0 \in Analyses \cup {None} : Library!SubmitRead(c, analysis0)
           \/ \E a \in {0} \cup DOMAIN application, j \in {0} \cup DOMAIN job :
                Library!TaskRead(c, a, j)
  BY <1>1, ReadStepKeepsLibrary
<1>2. CASE Library!CreateCommit(c)
  BY <1>2, CreateKeepsLibrary
<1>3. CASE Library!GiveUp(c) \/ Library!TaskCommit(c)
  BY <1>3, EndsKeepLibrary
<1>4. CASE Library!CsvCheck(c)
  BY <1>4, CsvCheckKeepsLibrary
<1>5. CASE Library!CsvRead(c)
  BY <1>5, CsvReadKeepsLibrary
<1>6. CASE Library!CsvInsert(c)
  BY <1>6, CsvInsertKeepsLibrary
<1>7. CASE Library!CsvCommit(c)
  BY <1>7, CsvCommitKeepsLibrary
<1>8. CASE \E content0 \in Contents, first \in BOOLEAN : Library!MergeCommit(c, content0, first)
  BY <1>8, MergeKeepsLibrary
<1>9. CASE Library!ApplyCommit(c)
  BY <1>9, ApplyKeepsLibrary
<1> QED
  BY <1>1, <1>2, <1>3, <1>4, <1>5, <1>6, <1>7, <1>8, <1>9 DEF Library!ClientStep

LEMMA LibraryKeepsInv ==
  LibraryInv /\ [Library!Next]_libraryVars => LibraryInv'
<1>1. ASSUME LibraryInv, UNCHANGED libraryVars
      PROVE  LibraryInv'
  BY <1>1, QuietKeepsLibrary DEF libraryVars
<1>2. ASSUME LibraryInv, Library!Next
      PROVE  LibraryInv'
  BY <1>2, LockedStepKeepsLibrary, ClientStepKeepsLibrary DEF Library!Next
<1> QED
  BY <1>1, <1>2

LEMMA LibraryStandsAlone ==
  ASSUME [RecordsNext]_recordsVars
  PROVE  part' = part /\ [part = "library" /\ Library!Next]_libraryVars
BY DEF recordsVars, RecordsNext, MaterialsStep, LibraryStep, TrackingStep, ResumesStep,
   CareerStep, MatchingStep, OnlyOf

\* Whatever requests, imports, merges and restores interleave: no two active Jobs
\* have one key, a Job has one current Application, an Analysis is applied once,
\* and an import counts every row of its file once, with a Source for each it used.
THEOREM LibraryIsAccounted == RecordsSpec => []LibraryAccounted
<1>1. RecordsInit => LibraryInv
  BY LibraryStarts DEF RecordsInit
<1>2. LibraryInv /\ [RecordsNext]_recordsVars => LibraryInv'
  BY LibraryStandsAlone, LibraryKeepsInv
<1>3. LibraryInv => LibraryAccounted
  BY LibraryInvAccounts DEF LibraryAccounted
<1> QED
  BY <1>1, <1>2, <1>3, PTL DEF RecordsSpec, recordsVars

-----------------------------------------------------------------------------
(* Scores and ranks (Matching)                                             *)
(*                                                                         *)
(* An Analysis is never changed, and the score is a function of what is    *)
(* kept with it, so what it is grounded in is said of score_match itself,  *)
(* for any snapshot and Requirements.  Its means and its total are sums    *)
(* over finite sets, and a rank counts who comes before.                   *)

\* The sums of c over the subsets of S
TermStep(c, f, s) ==
  IF s = {} THEN 0 ELSE LET x == CHOOSE x \in s : TRUE IN c[x] + f[s \ {x}]
Terms(c, f, S) == f = [s \in SUBSET S |-> TermStep(c, f, s)]

\* The least of some finite sets, for the induction over them
LEMMA LeastPart ==
  ASSUME NEW S, IsFiniteSet(S), NEW bad, bad \subseteq SUBSET S, bad # {}
  PROVE  \E s \in bad : \A t \in SUBSET s : t # s => t \notin bad
<1>1. IsWellFoundedOn(StrictSubsetOrdering(S), SUBSET S)
  BY FS_StrictSubsetOrderingWellFounded, FS_FiniteSubsetsOfFinite
<1>2. PICK s \in bad : \A t \in bad : ~(<<t, s>> \in StrictSubsetOrdering(S))
  BY <1>1, WFMin
<1>3. \A t \in SUBSET s : t # s => t \notin bad
  BY <1>2 DEF StrictSubsetOrdering
<1> QED
  BY <1>3

LEMMA TermsAgree ==
  ASSUME NEW c, NEW A, NEW B, IsFiniteSet(A), NEW f, NEW g, Terms(c, f, A), Terms(c, g, B),
         NEW s, s \subseteq A, s \subseteq B
  PROVE  f[s] = g[s]
<1>1. PICK bad : bad = {t \in SUBSET s : f[t] # g[t]}
  OBVIOUS
<1>2. SUFFICES ASSUME bad # {}
               PROVE  FALSE
  BY <1>1
<1>3. IsFiniteSet(s)
  BY FS_Subset
<1>4. PICK t \in bad : \A u \in SUBSET t : u # t => u \notin bad
  BY <1>1, <1>2, <1>3, LeastPart
<1>5. t \in SUBSET s /\ f[t] # g[t]
  BY <1>1
<1>6. f[t] = TermStep(c, f, t) /\ g[t] = TermStep(c, g, t)
  BY <1>5 DEF Terms
<1>7. t # {}
  BY <1>5, <1>6 DEF TermStep
<1>8. PICK x : x = (CHOOSE y \in t : TRUE)
  OBVIOUS
<1>9. x \in t
  BY <1>7, <1>8
<1>10. f[t \ {x}] = g[t \ {x}]
  BY <1>1, <1>4, <1>5, <1>9
<1> QED
  BY <1>5, <1>6, <1>7, <1>8, <1>10 DEF TermStep

LEMMA TermsExist ==
  ASSUME NEW c, NEW S, IsFiniteSet(S)
  PROVE  \E f : Terms(c, f, S)
<1>1. PICK bad : bad = {t \in SUBSET S : ~\E f : Terms(c, f, t)}
  OBVIOUS
<1>2. SUFFICES ASSUME bad # {}
               PROVE  FALSE
  BY <1>1
<1>3. PICK t \in bad : \A u \in SUBSET t : u # t => u \notin bad
  <2>1. bad \subseteq SUBSET S
    BY <1>1
  <2> QED
    BY <1>2, <2>1, LeastPart
<1>4. t \in SUBSET S /\ IsFiniteSet(t) /\ ~\E f : Terms(c, f, t)
  BY <1>1, FS_Subset
<1>5. \A u \in SUBSET t : u # t => \E f : Terms(c, f, u)
  BY <1>1, <1>3, <1>4
<1>6. PICK g : g = [u \in SUBSET t |-> CHOOSE f : Terms(c, f, u)]
  OBVIOUS
<1>7. \A u \in SUBSET t : u # t => Terms(c, g[u], u)
  <2> SUFFICES ASSUME NEW u \in SUBSET t, u # t
               PROVE  Terms(c, g[u], u)
    OBVIOUS
  <2>1. \E f : Terms(c, f, u)
    BY <1>5
  <2>2. g[u] = CHOOSE f : Terms(c, f, u)
    BY <1>6
  <2> QED
    BY <2>1, <2>2
<1>8. PICK h : h = [u \in SUBSET t |-> g[u][u]]
  OBVIOUS
<1>9. \A u \in SUBSET t : u # t => h[u] = TermStep(c, h, u)
  <2> SUFFICES ASSUME NEW u \in SUBSET t, u # t
               PROVE  h[u] = TermStep(c, h, u)
    OBVIOUS
  <2>1. h[u] = g[u][u] /\ Terms(c, g[u], u)
    BY <1>7, <1>8
  <2>2. g[u][u] = TermStep(c, g[u], u)
    BY <2>1 DEF Terms
  <2>3. CASE u = {}
    BY <2>1, <2>2, <2>3 DEF TermStep
  <2>4. CASE u # {}
    <3>1. PICK x : x = (CHOOSE y \in u : TRUE)
      OBVIOUS
    <3>2. x \in u
      BY <2>4, <3>1
    <3>3. PICK v : v = u \ {x}
      OBVIOUS
    <3>4. v \in SUBSET t /\ v # t /\ v \subseteq u
      BY <3>2, <3>3
    <3>5. Terms(c, g[v], v) /\ h[v] = g[v][v]
      BY <1>7, <1>8, <3>4
    <3>6. IsFiniteSet(u) /\ IsFiniteSet(v)
      BY <1>4, <3>4, FS_Subset
    <3>7. g[u][v] = g[v][v]
      <4>1. PICK a, b : a = g[u] /\ b = g[v]
        OBVIOUS
      <4>2. Terms(c, a, u) /\ Terms(c, b, v)
        BY <2>1, <3>5, <4>1
      <4>3. a[v] = b[v]
        BY <3>4, <3>6, <4>2, TermsAgree
      <4> QED
        BY <4>1, <4>3
    <3> QED
      BY <2>1, <2>2, <2>4, <3>1, <3>3, <3>5, <3>7 DEF TermStep
  <2> QED
    BY <2>3, <2>4
<1>10. PICK f : f = [u \in SUBSET t |-> IF u = t THEN TermStep(c, h, t) ELSE h[u]]
  OBVIOUS
<1>11. \A u \in SUBSET t : TermStep(c, f, u) = TermStep(c, h, u)
  <2> SUFFICES ASSUME NEW u \in SUBSET t
               PROVE  TermStep(c, f, u) = TermStep(c, h, u)
    OBVIOUS
  <2>1. CASE u = {}
    BY <2>1 DEF TermStep
  <2>2. CASE u # {}
    <3>1. PICK x : x = (CHOOSE y \in u : TRUE)
      OBVIOUS
    <3>2. x \in u
      BY <2>2, <3>1
    <3>3. u \ {x} \in SUBSET t /\ u \ {x} # t
      BY <3>2
    <3>4. f[u \ {x}] = h[u \ {x}]
      BY <1>10, <3>3
    <3> QED
      BY <2>2, <3>1, <3>4 DEF TermStep
  <2> QED
    BY <2>1, <2>2
<1>12. Terms(c, f, t)
  BY <1>9, <1>10, <1>11 DEF Terms
<1> QED
  BY <1>4, <1>12

LEMMA SumIsTerms ==
  ASSUME NEW c, IsFiniteSet(DOMAIN c), NEW f, Terms(c, f, DOMAIN c)
  PROVE  Engine!SumFunction(c) = f[DOMAIN c]
<1>1. Engine!SumFunction(c) = (CHOOSE g : Terms(c, g, DOMAIN c))[DOMAIN c]
  BY DEF Engine!SumFunction, Engine!SumFunctionOnSet, Engine!FoldFunctionOnSet,
     Engine!MapThenFoldSet, Terms, TermStep
<1>2. Terms(c, (CHOOSE g : Terms(c, g, DOMAIN c)), DOMAIN c)
  BY TermsExist
<1> QED
  BY <1>1, <1>2, TermsAgree

\* Terms that are natural numbers and at most m times those of w
LEMMA TermsBounded ==
  ASSUME NEW D, IsFiniteSet(D), NEW c \in [D -> Nat], NEW w \in [D -> Nat], NEW m \in Nat,
         \A x \in D : c[x] <= m * w[x],
         NEW f, NEW g, Terms(c, f, D), Terms(w, g, D)
  PROVE  \A s \in SUBSET D : f[s] \in Nat /\ g[s] \in Nat /\ f[s] <= m * g[s]
<1>1. PICK bad : bad = {s \in SUBSET D : ~(f[s] \in Nat /\ g[s] \in Nat /\ f[s] <= m * g[s])}
  OBVIOUS
<1>2. SUFFICES ASSUME bad # {}
               PROVE  FALSE
  BY <1>1
<1>3. PICK t \in bad : \A u \in SUBSET t : u # t => u \notin bad
  BY <1>1, <1>2, LeastPart
<1>4. t \in SUBSET D /\ ~(f[t] \in Nat /\ g[t] \in Nat /\ f[t] <= m * g[t])
  BY <1>1
<1>5. f[t] = TermStep(c, f, t) /\ g[t] = TermStep(w, g, t)
  BY <1>4 DEF Terms
<1>6. t # {}
  <2>1. ASSUME t = {}
        PROVE  f[t] = 0 /\ g[t] = 0
    BY <1>5, <2>1 DEF TermStep
  <2>2. m * 0 = 0
    OBVIOUS
  <2> QED
    BY <1>4, <2>1, <2>2
<1>7. PICK x : x = (CHOOSE y \in t : TRUE)
  OBVIOUS
<1>8. x \in t
  BY <1>6, <1>7
<1>9. PICK r : r = t \ {x}
  OBVIOUS
<1>10. f[r] \in Nat /\ g[r] \in Nat /\ f[r] <= m * g[r]
  BY <1>1, <1>3, <1>4, <1>8, <1>9
<1>11. f[t] = c[x] + f[r] /\ g[t] = w[x] + g[r]
  BY <1>5, <1>6, <1>7, <1>9 DEF TermStep
<1>12. c[x] \in Nat /\ w[x] \in Nat /\ c[x] <= m * w[x]
  BY <1>4, <1>8
<1>13. ASSUME NEW a \in Nat, NEW b \in Nat, NEW p \in Nat, NEW q \in Nat,
              a <= m * b, p <= m * q
       PROVE  a + p <= m * (b + q)
  <2>1. m * (b + q) = m * b + m * q
    BY <1>13
  <2>2. m * b \in Nat /\ m * q \in Nat
    BY <1>13
  <2> QED
    BY <1>13, <2>1, <2>2
<1>14. c[x] + f[r] <= m * (w[x] + g[r])
  BY <1>10, <1>12, <1>13
<1> QED
  BY <1>4, <1>10, <1>11, <1>12, <1>14

LEMMA SumBounded ==
  ASSUME NEW D, IsFiniteSet(D), NEW c \in [D -> Nat], NEW w \in [D -> Nat], NEW m \in Nat,
         \A x \in D : c[x] <= m * w[x]
  PROVE  /\ Engine!SumFunction(c) \in Nat /\ Engine!SumFunction(w) \in Nat
         /\ Engine!SumFunction(c) <= m * Engine!SumFunction(w)
<1>1. PICK f : Terms(c, f, D)
  BY TermsExist
<1>2. PICK g : Terms(w, g, D)
  BY TermsExist
<1>3. Engine!SumFunction(c) = f[D] /\ Engine!SumFunction(w) = g[D]
  BY <1>1, <1>2, SumIsTerms
<1> QED
  BY <1>1, <1>2, <1>3, TermsBounded

\* A mean of numbers up to m is at most m.
LEMMA SumOfMany ==
  ASSUME NEW D, IsFiniteSet(D), NEW c \in [D -> Nat], NEW m \in Nat, \A x \in D : c[x] <= m
  PROVE  Engine!SumFunction(c) \in Nat /\ Engine!SumFunction(c) <= m * Cardinality(D)
<1>1. PICK f : Terms(c, f, D)
  BY TermsExist
<1>2. PICK bad : bad = {s \in SUBSET D : ~(f[s] \in Nat /\ f[s] <= m * Cardinality(s))}
  OBVIOUS
<1>3. bad = {}
  <2> SUFFICES ASSUME bad # {}
               PROVE  FALSE
    OBVIOUS
  <2>1. PICK t \in bad : \A u \in SUBSET t : u # t => u \notin bad
    BY <1>2, LeastPart
  <2>2. t \in SUBSET D /\ ~(f[t] \in Nat /\ f[t] <= m * Cardinality(t))
    BY <1>2
  <2>3. f[t] = TermStep(c, f, t)
    BY <1>1, <2>2 DEF Terms
  <2>4. t # {}
    <3>1. ASSUME t = {}
          PROVE  f[t] = 0 /\ Cardinality(t) = 0
      BY <2>3, <3>1, FS_EmptySet DEF TermStep
    <3>2. m * 0 = 0
      OBVIOUS
    <3> QED
      BY <2>2, <3>1, <3>2
  <2>5. PICK x : x = (CHOOSE y \in t : TRUE)
    OBVIOUS
  <2>6. x \in t
    BY <2>4, <2>5
  <2>7. PICK r : r = t \ {x}
    OBVIOUS
  <2>8. f[r] \in Nat /\ f[r] <= m * Cardinality(r)
    BY <1>2, <2>1, <2>2, <2>6, <2>7
  <2>9. f[t] = c[x] + f[r]
    BY <2>3, <2>4, <2>5, <2>7 DEF TermStep
  <2>10. IsFiniteSet(t) /\ Cardinality(t) \in Nat /\ Cardinality(r) = Cardinality(t) - 1
    BY <2>2, <2>6, <2>7, FS_Subset, FS_RemoveElement, FS_CardinalityType
  <2>11. c[x] \in Nat /\ c[x] <= m
    BY <2>2, <2>6
  <2>12. ASSUME NEW n \in Nat
         PROVE  m * n = m * (n - 1) + m
    BY <2>12
  <2>13. m * Cardinality(t) = m * Cardinality(r) + m
    BY <2>10, <2>12
  <2>14. IsFiniteSet(r) /\ Cardinality(r) \in Nat
    BY <2>2, <2>7, <2>10, FS_Subset, FS_CardinalityType
  <2>15. m * Cardinality(r) \in Nat
    BY <2>14
  <2> QED
    BY <2>2, <2>8, <2>9, <2>11, <2>13, <2>15
<1>4. f[D] \in Nat /\ f[D] <= m * Cardinality(D)
  BY <1>2, <1>3
<1> QED
  BY <1>1, <1>4, SumIsTerms

\* It does not matter which term is taken first.
LEMMA TermsSplit ==
  ASSUME NEW D, IsFiniteSet(D), NEW c \in [D -> Nat], NEW f, Terms(c, f, D)
  PROVE  \A s \in SUBSET D : \A y \in s : f[s] = c[y] + f[s \ {y}]
<1>1. PICK bad : bad = {s \in SUBSET D : ~\A y \in s : f[s] = c[y] + f[s \ {y}]}
  OBVIOUS
<1>2. SUFFICES ASSUME bad # {}
               PROVE  FALSE
  BY <1>1
<1>3. PICK t \in bad : \A u \in SUBSET t : u # t => u \notin bad
  <2>1. bad \subseteq SUBSET D
    BY <1>1
  <2> QED
    BY <1>2, <2>1, LeastPart
<1>4. t \in SUBSET D /\ f[t] = TermStep(c, f, t)
  BY <1>1 DEF Terms
<1>5. PICK y \in t : f[t] # c[y] + f[t \ {y}]
  BY <1>1, <1>3
<1>6. PICK x : x = (CHOOSE z \in t : TRUE)
  OBVIOUS
<1>7. x \in t /\ f[t] = c[x] + f[t \ {x}]
  BY <1>4, <1>5, <1>6 DEF TermStep
<1>8. x # y
  BY <1>5, <1>7
<1>9. PICK a, b, r : a = t \ {x} /\ b = t \ {y} /\ r = t \ {x, y}
  OBVIOUS
<1>10. a \in SUBSET t /\ a # t /\ y \in a /\ a \ {y} = r
  BY <1>5, <1>7, <1>8, <1>9
<1>11. b \in SUBSET t /\ b # t /\ x \in b /\ b \ {x} = r
  BY <1>5, <1>7, <1>8, <1>9
<1>12. f[a] = c[y] + f[r]
  BY <1>1, <1>3, <1>4, <1>10
<1>13. f[b] = c[x] + f[r]
  BY <1>1, <1>3, <1>4, <1>11
<1>14. r \in SUBSET D
  BY <1>4, <1>9
<1>15. f[r] \in Nat /\ c[x] \in Nat /\ c[y] \in Nat
  <2>1. \A z \in D : c[z] <= 1 * c[z]
    OBVIOUS
  <2> QED
    BY <1>4, <1>7, <1>14, <2>1, TermsBounded
<1> QED
  BY <1>5, <1>7, <1>9, <1>12, <1>13, <1>15

LEMMA DimensionsAreFew == IsFiniteSet(Engine!DIMENSIONS)
<1>1. IsFiniteSet({"required_skills"} \cup {"experience"})
  BY FS_Singleton, FS_AddElement
<1>2. IsFiniteSet({"required_skills"} \cup {"experience"} \cup {"projects"})
  BY <1>1, FS_AddElement
<1>3. IsFiniteSet({"required_skills"} \cup {"experience"} \cup {"projects"} \cup {"education"})
  BY <1>2, FS_AddElement
<1>4. PICK half : half = {"required_skills"} \cup {"experience"} \cup {"projects"}
                         \cup {"education"}
  OBVIOUS
<1>5. IsFiniteSet(half \cup {"location_and_authorization"} \cup {"languages"})
  BY <1>3, <1>4, FS_AddElement
<1>6. IsFiniteSet(half \cup {"location_and_authorization"} \cup {"languages"}
                  \cup {"seniority"} \cup {"preferences"})
  BY <1>5, FS_AddElement
<1>7. Engine!DIMENSIONS = half \cup {"location_and_authorization"} \cup {"languages"}
                          \cup {"seniority"} \cup {"preferences"}
  BY <1>4 DEF Engine!DIMENSIONS
<1> QED
  BY <1>6, <1>7

LEMMA DefaultWeights ==
  /\ Engine!DEFAULT_WEIGHTS \in [Engine!DIMENSIONS -> Nat]
  /\ Engine!SumFunction(Engine!DEFAULT_WEIGHTS) = 100
<1>1. PICK D : D = Engine!DIMENSIONS
  OBVIOUS
<1>2. PICK w : w = Engine!DEFAULT_WEIGHTS
  OBVIOUS
<1>3. w \in [D -> Nat]
  BY <1>1, <1>2 DEF Engine!DEFAULT_WEIGHTS, Engine!DIMENSIONS
<1>4. PICK f : Terms(w, f, D)
  BY <1>1, TermsExist, DimensionsAreFew
<1>5. ASSUME NEW s \in SUBSET D, NEW y \in s, NEW rest, rest = s \ {y}
      PROVE  f[s] = w[y] + f[rest]
  <2>1. IsFiniteSet(D)
    BY <1>1, DimensionsAreFew
  <2> QED
    BY <1>3, <1>4, <1>5, <2>1, TermsSplit
<1>6. f[{}] = 0
  BY <1>4 DEF Terms, TermStep
<1>7. PICK d1, d2, d3, d4, d5, d6, d7 :
        /\ d1 = D \ {"required_skills"} /\ d2 = d1 \ {"experience"}
        /\ d3 = d2 \ {"projects"} /\ d4 = d3 \ {"education"}
        /\ d5 = d4 \ {"location_and_authorization"} /\ d6 = d5 \ {"languages"}
        /\ d7 = d6 \ {"seniority"}
  OBVIOUS
<1>8. /\ d1 \in SUBSET D /\ d2 \in SUBSET D /\ d3 \in SUBSET D /\ d4 \in SUBSET D
      /\ d5 \in SUBSET D /\ d6 \in SUBSET D /\ d7 \in SUBSET D
  BY <1>7
<1>9. /\ "required_skills" \in D /\ "experience" \in d1 /\ "projects" \in d2 /\ "education" \in d3
      /\ "location_and_authorization" \in d4 /\ "languages" \in d5 /\ "seniority" \in d6
      /\ "preferences" \in d7 /\ d7 \ {"preferences"} = {}
  BY <1>1, <1>7 DEF Engine!DIMENSIONS
<1>10. /\ f[D] = w["required_skills"] + f[d1] /\ f[d1] = w["experience"] + f[d2]
       /\ f[d2] = w["projects"] + f[d3] /\ f[d3] = w["education"] + f[d4]
  <2>1. f[D] = w["required_skills"] + f[d1]
    BY <1>5, <1>7, <1>8, <1>9
  <2>2. f[d1] = w["experience"] + f[d2]
    BY <1>5, <1>7, <1>8, <1>9
  <2>3. f[d2] = w["projects"] + f[d3]
    BY <1>5, <1>7, <1>8, <1>9
  <2>4. f[d3] = w["education"] + f[d4]
    BY <1>5, <1>7, <1>8, <1>9
  <2> QED
    BY <2>1, <2>2, <2>3, <2>4
<1>11. /\ f[d4] = w["location_and_authorization"] + f[d5] /\ f[d5] = w["languages"] + f[d6]
       /\ f[d6] = w["seniority"] + f[d7] /\ f[d7] = w["preferences"] + f[{}]
  <2>1. f[d4] = w["location_and_authorization"] + f[d5]
    BY <1>5, <1>7, <1>8, <1>9
  <2>2. f[d5] = w["languages"] + f[d6]
    BY <1>5, <1>7, <1>8, <1>9
  <2>3. f[d6] = w["seniority"] + f[d7]
    BY <1>5, <1>7, <1>8, <1>9
  <2>4. PICK none : none = {}
    OBVIOUS
  <2>5. none = d7 \ {"preferences"}
    BY <1>9, <2>4
  <2>6. f[d7] = w["preferences"] + f[none]
    BY <1>5, <1>8, <1>9, <2>5
  <2> QED
    BY <2>1, <2>2, <2>3, <2>4, <2>6
<1>12. /\ w["required_skills"] = 30 /\ w["experience"] = 20 /\ w["projects"] = 15
       /\ w["education"] = 10 /\ w["location_and_authorization"] = 10 /\ w["languages"] = 5
       /\ w["seniority"] = 5 /\ w["preferences"] = 5
  BY <1>2 DEF Engine!DEFAULT_WEIGHTS
<1>13. f[D] = 100
  BY <1>6, <1>10, <1>11, <1>12
<1>14. Engine!SumFunction(w) = f[D]
  BY <1>1, <1>3, <1>4, SumIsTerms, DimensionsAreFew
<1> QED
  BY <1>1, <1>2, <1>3, <1>13, <1>14

DemandShape ==
  [job : MatchedJobs, status : Engine!Status, name : Names,
   category : {demanded.category : demanded \in Demands},
   type : {demanded.type : demanded \in Demands}, minimum : Nat \cup {NoYears}]

\* A snapshot that is kept
Saved(s) ==
  /\ DOMAIN s \subseteq Nat
  /\ \A i \in DOMAIN s :
       /\ s[i].resource \in DOMAIN Engine!FactDimensions /\ s[i].years \in Nat \cup {NoYears}
       /\ \A name \in Names : Engine!Relates(name, s[i]) \in DOMAIN Engine!Contribution

LEMMA SnapshotsAreSaved == \A s \in Snapshots : Saved(s)
<1> SUFFICES ASSUME NEW s \in Snapshots
             PROVE  Saved(s)
  OBVIOUS
<1>1. s \in Seq({s[i] : i \in DOMAIN s})
  BY MatchingAssumption
<1>2. DOMAIN s \subseteq Nat
  BY <1>1
<1> QED
  BY <1>2, MatchingAssumption DEF Saved, Engine!Relates

LEMMA ContributionsAre ==
  \A relation \in DOMAIN Engine!Contribution :
    /\ relation \in {"exact", "synonym", "related", "missing"}
    /\ Engine!Contribution[relation] \in Nat /\ Engine!Contribution[relation] <= 10000
BY DEF Engine!Contribution

LEMMA LeastIs ==
  ASSUME NEW S, S \subseteq Nat, S # {}
  PROVE  Engine!Min(S) \in S /\ \A y \in S : Engine!Min(S) <= y
<1>1. PICK x \in S : \A y \in S : ~(<<y, x>> \in OpToRel(<, Nat))
  BY NatLessThanWellFounded, WFMin
<1>2. \A y \in S : ~(y < x)
  BY <1>1, ZenonT(30) DEF OpToRel
<1>3. \A y \in S : x <= y
  BY <1>2
<1> QED
  BY <1>3 DEF Engine!Min

LEMMA BestIsAFact ==
  ASSUME NEW s, Saved(s), NEW name \in Names, NEW F, F \subseteq DOMAIN s, F # {}
  PROVE  Engine!Best(name, s, F) \in F
<1>1. PICK h : h = [i \in F |-> Engine!Contribution[Engine!Relates(name, s[i])]]
  OBVIOUS
<1>2. \A i \in F : h[i] \in Nat /\ h[i] <= 10000
  BY <1>1, ContributionsAre DEF Saved
<1>3. PICK S : S = {10000 - h[i] : i \in F}
  OBVIOUS
<1>4. S \subseteq Nat /\ S # {}
  BY <1>2, <1>3
<1>5. PICK least \in S : \A y \in S : least <= y
  BY <1>4, LeastIs
<1>6. PICK j \in F : least = 10000 - h[j]
  BY <1>3
<1>7. ASSUME NEW k \in F
      PROVE  h[k] <= h[j]
  <2>1. 10000 - h[k] \in S
    BY <1>3
  <2>2. least <= 10000 - h[k]
    BY <1>5, <2>1
  <2>3. PICK a, b : a = h[k] /\ b = h[j]
    OBVIOUS
  <2>4. a \in Nat /\ b \in Nat /\ 10000 - b <= 10000 - a
    BY <1>2, <1>6, <2>2, <2>3
  <2> QED
    BY <2>3, <2>4
<1>8. PICK M : M = {i \in F : \A k \in F : h[k] <= h[i]}
  OBVIOUS
<1>9. M \subseteq Nat /\ M # {}
  BY <1>7, <1>8 DEF Saved
<1>10. M = {i \in F : \A k \in F : Engine!Contribution[Engine!Relates(name, s[k])]
                                   <= Engine!Contribution[Engine!Relates(name, s[i])]}
  BY <1>1, <1>8
<1>11. Engine!Best(name, s, F) = Engine!Min(M)
  BY <1>10 DEF Engine!Best
<1> QED
  BY <1>8, <1>9, <1>11, LeastIs

\* What a Requirement is worth, and the fact it rests on
LEMMA EvaluatedIs ==
  ASSUME NEW s, Saved(s), NEW row \in DemandShape, NEW F, F \subseteq DOMAIN s,
         NEW e, e = Engine!Evaluated(row, s, F)
  PROVE  /\ e.contribution \in Nat /\ e.contribution <= 10000
         /\ e.relation \in {"exact", "synonym"} =>
              \E k \in F : Engine!Relates(row.name, s[k]) = e.relation /\ e.years = s[k].years
<1>1. CASE F = {}
  BY <1>1 DEF Engine!Evaluated
<1>2. CASE F # {}
  <2>1. PICK k : k = Engine!Best(row.name, s, F)
    OBVIOUS
  <2>2. row.name \in Names /\ row.minimum \in Nat \cup {NoYears}
    BY DEF DemandShape
  <2>3. k \in F
    BY <1>2, <2>1, <2>2, BestIsAFact
  <2>4. PICK relation : relation = Engine!Relates(row.name, s[k])
    OBVIOUS
  <2>5. /\ Engine!Contribution[relation] \in Nat /\ Engine!Contribution[relation] <= 10000
        /\ s[k].years \in Nat \cup {NoYears}
    BY <2>2, <2>3, <2>4, ContributionsAre DEF Saved
  <2>6. PICK worth : worth = Engine!Contribution[relation]
    OBVIOUS
  <2>7. PICK short \in BOOLEAN :
          short <=> (row.minimum # NoYears /\ s[k].years # NoYears /\ s[k].years < row.minimum)
    OBVIOUS
  <2>8. CASE short
    <3>1. PICK scaled : scaled = Engine!Min({worth, (s[k].years * 10000) \div row.minimum})
      OBVIOUS
    <3>2. s[k].years \in Nat /\ row.minimum \in Nat /\ row.minimum > 0
      BY <2>2, <2>5, <2>7, <2>8
    <3>3. (s[k].years * 10000) \div row.minimum \in Nat
      BY <3>2
    <3>4. scaled \in Nat /\ scaled <= worth
      <4>1. PICK q : q = (s[k].years * 10000) \div row.minimum
        OBVIOUS
      <4>2. PICK S : S = {worth, q}
        OBVIOUS
      <4>3. S \subseteq Nat /\ S # {} /\ worth \in S
        BY <2>5, <2>6, <3>3, <4>1, <4>2
      <4>4. scaled = Engine!Min(S)
        BY <3>1, <4>1, <4>2
      <4>5. Engine!Min(S) \in S /\ \A y \in S : Engine!Min(S) <= y
        BY <4>3, LeastIs
      <4> QED
        BY <4>3, <4>4, <4>5
    <3>5. e = [contribution |-> scaled, relation |-> IF scaled > 0 THEN "related" ELSE "missing",
               years |-> s[k].years]
      BY <1>2, <2>1, <2>4, <2>6, <2>7, <2>8, <3>1 DEF Engine!Evaluated
    <3> QED
      BY <2>5, <2>6, <3>4, <3>5
  <2>9. CASE ~short
    <3>1. e = [contribution |-> worth, relation |-> relation, years |-> s[k].years]
      BY <1>2, <2>1, <2>4, <2>6, <2>7, <2>9 DEF Engine!Evaluated
    <3> QED
      BY <2>3, <2>4, <2>5, <2>6, <3>1
  <2> QED
    BY <2>8, <2>9
<1> QED
  BY <1>1, <1>2

LEMMA KnownIs ==
  ASSUME NEW s, Saved(s), NEW k, k = Engine!KnownOf(s)
  PROVE  /\ Saved(k) /\ DOMAIN k = {i \in DOMAIN s : Engine!Confirmed(s[i])}
         /\ \A i \in DOMAIN k : k[i] = s[i]
<1>1. PICK D : D = {i \in DOMAIN s : s[i].confirmed \/ s[i].resource = "location"}
  OBVIOUS
<1>2. k = [i \in D |-> s[i]]
  BY <1>1 DEF Engine!KnownOf, Engine!Restrict
<1>3. D = {i \in DOMAIN s : Engine!Confirmed(s[i])}
  BY <1>1 DEF Engine!Confirmed
<1>4. DOMAIN k = D /\ D \subseteq DOMAIN s /\ \A i \in D : k[i] = s[i]
  BY <1>1, <1>2
<1>5. Saved(k)
  <2>1. DOMAIN k \subseteq Nat
    BY <1>4 DEF Saved
  <2>2. ASSUME NEW i \in DOMAIN k
        PROVE  /\ k[i].resource \in DOMAIN Engine!FactDimensions
               /\ k[i].years \in Nat \cup {NoYears}
               /\ \A name \in Names : Engine!Relates(name, k[i]) \in DOMAIN Engine!Contribution
    <3>1. k[i] = s[i] /\ i \in DOMAIN s
      BY <1>4, <2>2
    <3> QED
      BY <3>1 DEF Saved
  <2> QED
    BY <2>1, <2>2 DEF Saved
<1> QED
  BY <1>3, <1>4, <1>5

LEMMA SameFacts ==
  ASSUME NEW s, Saved(s), NEW k, k = Engine!KnownOf(s), NEW d
  PROVE  Engine!Facts(k, d) = Engine!Facts(s, d) /\ Engine!Facts(k, d) \subseteq DOMAIN k
<1>1. PICK D : D = {i \in DOMAIN s : Engine!Confirmed(s[i])}
  OBVIOUS
<1>2. DOMAIN k = D /\ \A i \in D : k[i] = s[i]
  BY <1>1, KnownIs
<1>3. PICK F : F = Engine!Facts(s, d)
  OBVIOUS
<1>4. PICK G : G = Engine!Facts(k, d)
  OBVIOUS
<1>5. ASSUME NEW i
      PROVE  i \in F <=> i \in D /\ d \in Engine!FactDimensions[s[i].resource]
  BY <1>1, <1>3 DEF Engine!Facts
<1>6. ASSUME NEW i
      PROVE  i \in G <=> /\ i \in D /\ Engine!Confirmed(k[i])
                         /\ d \in Engine!FactDimensions[k[i].resource]
  BY <1>2, <1>4 DEF Engine!Facts
<1>7. ASSUME NEW i \in D
      PROVE  i \in G <=> d \in Engine!FactDimensions[s[i].resource]
  <2>1. k[i] = s[i] /\ Engine!Confirmed(s[i])
    BY <1>1, <1>2
  <2> QED
    BY <1>6, <2>1
<1>8. F = G
  BY <1>5, <1>6, <1>7
<1> QED
  BY <1>2, <1>3, <1>4, <1>6, <1>8

LEMMA SameEvaluated ==
  ASSUME NEW s, NEW k, NEW F, F \subseteq DOMAIN k, \A i \in F : k[i] = s[i], Saved(k),
         NEW row, row.name \in Names
  PROVE  Engine!Evaluated(row, k, F) = Engine!Evaluated(row, s, F)
<1>1. CASE F = {}
  BY <1>1 DEF Engine!Evaluated
<1>2. CASE F # {}
  <2>1. PICK M : M = {i \in F : \A j \in F : Engine!Contribution[Engine!Relates(row.name, k[j])]
                                             <= Engine!Contribution[Engine!Relates(row.name, k[i])]}
    OBVIOUS
  <2>2. PICK N : N = {i \in F : \A j \in F : Engine!Contribution[Engine!Relates(row.name, s[j])]
                                             <= Engine!Contribution[Engine!Relates(row.name, s[i])]}
    OBVIOUS
  <2>3. ASSUME NEW i \in F
        PROVE  Engine!Contribution[Engine!Relates(row.name, k[i])]
               = Engine!Contribution[Engine!Relates(row.name, s[i])]
    <3>1. k[i] = s[i]
      OBVIOUS
    <3> QED
      BY <3>1 DEF Engine!Relates
  <2>4. M = N
    BY <2>1, <2>2, <2>3
  <2>5. Engine!Best(row.name, k, F) = Engine!Min(M)
    BY <2>1 DEF Engine!Best
  <2>6. Engine!Best(row.name, s, F) = Engine!Min(N)
    BY <2>2 DEF Engine!Best
  <2>7. PICK b : b = Engine!Best(row.name, k, F)
    OBVIOUS
  <2>8. b = Engine!Best(row.name, s, F) /\ b \in F
    BY <1>2, <2>4, <2>5, <2>6, <2>7, BestIsAFact
  <2>9. PICK fact : fact = s[b] /\ fact = k[b]
    BY <2>8
  <2> QED
    BY <1>2, <2>7, <2>8, <2>9 DEF Engine!Evaluated
<1> QED
  BY <1>1, <1>2

LEMMA SameEvidence ==
  ASSUME NEW s, Saved(s), NEW k, k = Engine!KnownOf(s), NEW row \in DemandShape
  PROVE  Engine!Evidence(row, k) = Engine!Evidence(row, s)
<1>1. PICK F : F = Engine!Facts(s, Engine!DimensionFor(row.category))
  OBVIOUS
<1>2. F = Engine!Facts(k, Engine!DimensionFor(row.category)) /\ F \subseteq DOMAIN k
  BY <1>1, SameFacts
<1>3. Saved(k) /\ \A i \in DOMAIN k : k[i] = s[i]
  BY KnownIs
<1>4. row.name \in Names
  BY DEF DemandShape
<1>5. Engine!Evaluated(row, k, F) = Engine!Evaluated(row, s, F)
  BY <1>2, <1>3, <1>4, SameEvaluated
<1>6. PICK found : found = Engine!Evaluated(row, s, F) /\ found = Engine!Evaluated(row, k, F)
  BY <1>5
<1> QED
  BY <1>1, <1>2, <1>6 DEF Engine!Evidence

LEMMA EvidenceIs ==
  ASSUME NEW s, Saved(s), NEW row \in DemandShape, NEW e, e = Engine!Evidence(row, s),
         NEW F, F = Engine!Facts(s, Engine!DimensionFor(row.category))
  PROVE  /\ e.counts <=> row.status = "confirmed"
         /\ e.contribution \in Nat /\ e.contribution <= 10000
         /\ e.hard # "none" <=> row.status = "confirmed" /\ Engine!IsHard(row)
         /\ e.hard = "failed" => F # {}
         /\ e.hard = "passed" => \E i \in F : Engine!Passes(row, s[i])
<1>1. CASE row.status # "confirmed"
  BY <1>1 DEF Engine!Evidence
<1>2. CASE row.status = "confirmed"
  <2>1. PICK found : found = Engine!Evaluated(row, s, F)
    OBVIOUS
  <2>2. F \subseteq DOMAIN s
    BY DEF Engine!Facts
  <2>3. /\ found.contribution \in Nat /\ found.contribution <= 10000
        /\ found.relation \in {"exact", "synonym"} =>
             \E k \in F : Engine!Relates(row.name, s[k]) = found.relation /\ found.years = s[k].years
    BY <2>1, <2>2, EvaluatedIs
  <2>4. PICK result : result = Engine!HardResult(row, found, F)
    OBVIOUS
  <2>5. e.counts = TRUE /\ e.contribution = found.contribution
    BY <1>2, <2>1 DEF Engine!Evidence
  <2>6. CASE ~Engine!IsHard(row)
    <3>1. e.hard = "none"
      BY <1>2, <2>6 DEF Engine!Evidence
    <3> QED
      BY <1>2, <2>3, <2>5, <2>6, <3>1
  <2>7. CASE Engine!IsHard(row)
    <3>1. e.hard = result
      BY <1>2, <2>1, <2>4, <2>7 DEF Engine!Evidence
    <3>2. CASE found.relation \in {"exact", "synonym"}
      <4>1. PICK k \in F : Engine!Relates(row.name, s[k]) = found.relation /\ found.years = s[k].years
        BY <2>3, <3>2
      <4>2. result \in {"passed", "unknown", "failed"}
        BY <2>4, <3>2 DEF Engine!HardResult
      <4>3. result = "passed" =>
              (row.minimum # NoYears => found.years # NoYears /\ found.years >= row.minimum)
        BY <2>4, <3>2 DEF Engine!HardResult
      <4>4. result = "passed" => Engine!Passes(row, s[k])
        BY <3>2, <4>1, <4>3 DEF Engine!Passes
      <4> QED
        BY <1>2, <2>3, <2>5, <2>7, <3>1, <4>1, <4>2, <4>4
    <3>3. CASE found.relation \notin {"exact", "synonym"}
      <4>1. result \in {"warning", "failed", "unknown"} /\ (result = "failed" => F # {})
        BY <2>4, <3>3 DEF Engine!HardResult
      <4> QED
        BY <1>2, <2>3, <2>5, <2>7, <3>1, <4>1
    <3> QED
      BY <3>2, <3>3
  <2> QED
    BY <2>6, <2>7
<1> QED
  BY <1>1, <1>2

\* The rows a dimension scores, and what they are worth
Counting(E, d) == {i \in DOMAIN E : E[i].counts /\ E[i].dimension = d}
Worth(E, d) == [i \in Counting(E, d) |-> E[i].contribution]

LEMMA RawScoreIs ==
  \A E, d : Engine!RawScore(E, d) =
              IF Counting(E, d) = {} THEN 5000
              ELSE Engine!SumFunction(Worth(E, d)) \div Cardinality(Counting(E, d))
BY DEF Engine!RawScore, Engine!Cardinality, Cardinality, Counting, Worth

Weighed(E, weights) == [d \in Engine!DIMENSIONS |-> Engine!RawScore(E, d) * weights[d]]

LEMMA OverallIs ==
  \A E, weights :
    Engine!Overall(E, weights) = Engine!SumFunction(Weighed(E, weights)) \div 100
BY DEF Engine!Overall, Weighed

\* Rows that do not count and have no hard filter change no score.
LEMMA SameScore ==
  ASSUME NEW E, NEW A, A \subseteq DOMAIN E, NEW G, DOMAIN G = A, \A i \in A : G[i] = E[i],
         \A i \in DOMAIN E : i \notin A => ~E[i].counts /\ E[i].hard = "none",
         NEW weights
  PROVE  /\ Engine!Overall(G, weights) = Engine!Overall(E, weights)
         /\ Engine!HardFilter(G) = Engine!HardFilter(E)
<1>1. ASSUME NEW d
      PROVE  Engine!RawScore(G, d) = Engine!RawScore(E, d)
  <2>1. Counting(G, d) = Counting(E, d) /\ Counting(E, d) \subseteq A
    BY DEF Counting
  <2>2. Worth(G, d) = Worth(E, d)
    BY <2>1 DEF Worth
  <2> QED
    BY <2>1, <2>2, RawScoreIs
<1>2. Engine!Overall(G, weights) = Engine!Overall(E, weights)
  <2>1. Weighed(G, weights) = Weighed(E, weights)
    BY <1>1 DEF Weighed
  <2> QED
    BY <2>1, OverallIs
<1>3. Engine!HardFilter(G) = Engine!HardFilter(E)
  <2>1. PICK R : R = {E[i].hard : i \in DOMAIN E} \ {"none"}
    OBVIOUS
  <2>2. PICK T : T = {G[i].hard : i \in DOMAIN G} \ {"none"}
    OBVIOUS
  <2>3. R = T
    BY <2>1, <2>2
  <2> QED
    BY <2>1, <2>2, <2>3 DEF Engine!HardFilter
<1> QED
  BY <1>2, <1>3

\* A score is in hundredths of a point.
IsScore(n) == n \in 0 .. 10000

\* A mean of contributions is one, and weights that total 100 keep the total among them.
LEMMA ScoresAreBounded ==
  ASSUME NEW E, IsFiniteSet(DOMAIN E),
         \A i \in DOMAIN E : E[i].contribution \in Nat /\ E[i].contribution <= 10000,
         NEW weights \in [Engine!DIMENSIONS -> Nat], Engine!SumFunction(weights) = 100
  PROVE  IsScore(Engine!Overall(E, weights)) /\ Engine!Overall(E, weights) \in Int
<1>1. ASSUME NEW d
      PROVE  Engine!RawScore(E, d) \in Nat /\ Engine!RawScore(E, d) <= 10000
  <2>1. PICK R : R = Counting(E, d)
    OBVIOUS
  <2>2. PICK c : c = Worth(E, d)
    OBVIOUS
  <2>3. Engine!RawScore(E, d) = IF R = {} THEN 5000 ELSE Engine!SumFunction(c) \div Cardinality(R)
    BY <2>1, <2>2, RawScoreIs
  <2>4. CASE R = {}
    BY <2>3, <2>4
  <2>5. CASE R # {}
    <3>1. R \subseteq DOMAIN E /\ c = [i \in R |-> E[i].contribution]
      BY <2>1, <2>2 DEF Counting, Worth
    <3>2. IsFiniteSet(R) /\ c \in [R -> Nat] /\ \A i \in R : c[i] <= 10000
      BY <3>1, FS_Subset
    <3>3. PICK total : total = Engine!SumFunction(c)
      OBVIOUS
    <3>4. PICK n : n = Cardinality(R)
      OBVIOUS
    <3>5. total \in Nat /\ total <= 10000 * n
      BY <3>2, <3>3, <3>4, SumOfMany
    <3>6. n \in Nat /\ n # 0
      BY <2>5, <3>2, <3>4, FS_EmptySet, FS_CardinalityType
    <3>7. total \div n \in Nat /\ total \div n <= 10000
      <4>1. PICK q : q = total \div n
        OBVIOUS
      <4>2. q \in Nat /\ n * q <= total
        BY <3>5, <3>6, <4>1
      <4>3. ASSUME q >= 10001
            PROVE  FALSE
        <5>1. n * q >= n * 10001
          BY <3>6, <4>2, <4>3
        <5>2. n * 10001 = 10000 * n + n
          BY <3>6
        <5> QED
          BY <3>5, <3>6, <4>2, <5>1, <5>2
      <4> QED
        BY <4>1, <4>2, <4>3
    <3> QED
      BY <2>3, <2>5, <3>3, <3>4, <3>7
  <2> QED
    BY <2>4, <2>5
<1>2. PICK c : c = Weighed(E, weights)
  OBVIOUS
<1>3. ASSUME NEW x \in Nat, x <= 10000, NEW y \in Nat
      PROVE  x * y \in Nat /\ x * y <= 10000 * y
  BY <1>3
<1>4. \A d \in Engine!DIMENSIONS : c[d] \in Nat /\ c[d] <= 10000 * weights[d]
  BY <1>1, <1>2, <1>3 DEF Weighed
<1>5. c \in [Engine!DIMENSIONS -> Nat]
  BY <1>2, <1>4 DEF Weighed
<1>6. Engine!SumFunction(c) \in Nat /\ Engine!SumFunction(c) <= 10000 * 100
  BY <1>4, <1>5, SumBounded, DimensionsAreFew
<1>7. PICK total : total = Engine!SumFunction(c)
  OBVIOUS
<1>8. total \in Nat /\ total <= 1000000
  BY <1>6, <1>7
<1>9. PICK mean : mean = total \div 100
  OBVIOUS
<1>10. mean \in Nat /\ mean <= 10000
  BY <1>8, <1>9
<1>11. IsScore(mean) /\ mean \in Int
  BY <1>10 DEF IsScore
<1>12. Engine!Overall(E, weights) = mean
  BY <1>2, <1>7, <1>9, OverallIs
<1> QED
  BY <1>11, <1>12

\* Requirements kept with an Analysis
Asked(rows) ==
  DOMAIN rows \subseteq Nat /\ IsFiniteSet(DOMAIN rows) /\ \A i \in DOMAIN rows : rows[i] \in DemandShape

Weighs(weights) ==
  weights \in [Engine!DIMENSIONS -> Nat] /\ Engine!SumFunction(weights) = 100

LEMMA ScoreMatchIsGrounded ==
  ASSUME NEW s, Saved(s), NEW rows, Asked(rows), NEW weights, Weighs(weights),
         NEW result, result = Engine!ScoreMatch(s, rows, weights)
  PROVE  /\ Engine!Grounded(result, Engine!KnownOf(s), Engine!AskedOf(rows), weights)
         /\ result.overall \in Int
<1>1. PICK k : k = Engine!KnownOf(s)
  OBVIOUS
<1>2. PICK asked : asked = Engine!AskedOf(rows)
  OBVIOUS
<1>3. PICK C : C = {i \in DOMAIN rows : rows[i].status # "rejected"}
  OBVIOUS
<1>4. PICK A : A = {i \in DOMAIN rows : rows[i].status = "confirmed"}
  OBVIOUS
<1>5. A \subseteq C /\ DOMAIN asked = A /\ (\A i \in A : asked[i] = rows[i]) /\ C \subseteq DOMAIN rows
  BY <1>2, <1>3, <1>4 DEF Engine!AskedOf, Engine!Restrict
<1>6. PICK E : E = [i \in C |-> Engine!Evidence(rows[i], s)]
  OBVIOUS
<1>7. PICK G : G = [i \in A |-> Engine!Evidence(asked[i], k)]
  OBVIOUS
<1>8. /\ result.overall = Engine!Overall(E, weights) /\ result.hard = Engine!HardFilter(E)
      /\ result.recommendation = Engine!Recommendation(Engine!Overall(E, weights), Engine!HardFilter(E))
  BY <1>3, <1>6 DEF Engine!ScoreMatch
<1>9. PICK bare : bare = Engine!ScoreMatch(k, asked, weights)
  OBVIOUS
<1>10. bare.overall = Engine!Overall(G, weights) /\ bare.hard = Engine!HardFilter(G)
  <2>1. PICK B : B = {i \in DOMAIN asked : asked[i].status # "rejected"}
    OBVIOUS
  <2>2. B = A
    BY <1>4, <1>5, <2>1
  <2>3. G = [i \in B |-> Engine!Evidence(asked[i], k)]
    BY <1>7, <2>2
  <2> QED
    BY <1>9, <2>1, <2>3 DEF Engine!ScoreMatch
<1>11. ASSUME NEW i \in C
       PROVE  /\ E[i] = Engine!Evidence(rows[i], s) /\ rows[i] \in DemandShape
              /\ E[i].counts <=> rows[i].status = "confirmed"
              /\ E[i].contribution \in Nat /\ E[i].contribution <= 10000
              /\ E[i].hard # "none" <=> rows[i].status = "confirmed" /\ Engine!IsHard(rows[i])
              /\ E[i].hard = "failed" =>
                   Engine!Facts(s, Engine!DimensionFor(rows[i].category)) # {}
              /\ E[i].hard = "passed" =>
                   \E j \in Engine!Facts(s, Engine!DimensionFor(rows[i].category)) :
                     Engine!Passes(rows[i], s[j])
  <2>1. E[i] = Engine!Evidence(rows[i], s) /\ rows[i] \in DemandShape
    BY <1>5, <1>6 DEF Asked
  <2> QED
    BY <2>1, EvidenceIs
<1>12. Engine!Overall(G, weights) = Engine!Overall(E, weights)
       /\ Engine!HardFilter(G) = Engine!HardFilter(E)
  <2>1. ASSUME NEW i \in A
        PROVE  G[i] = E[i]
    <3>1. i \in C /\ asked[i] = rows[i]
      BY <1>5
    <3>2. E[i] = Engine!Evidence(rows[i], s) /\ rows[i] \in DemandShape
      BY <1>11, <3>1
    <3> QED
      BY <1>1, <1>7, <3>1, <3>2, SameEvidence
  <2>2. ASSUME NEW i \in DOMAIN E, i \notin A
        PROVE  ~E[i].counts /\ E[i].hard = "none"
    <3>1. i \in C /\ rows[i].status # "confirmed"
      BY <1>4, <1>5, <1>6, <2>2
    <3> QED
      BY <1>11, <3>1
  <2>3. A \subseteq DOMAIN E /\ DOMAIN G = A
    BY <1>5, <1>6, <1>7
  <2>4. \A i \in A : G[i] = E[i]
    BY <2>1
  <2>5. \A i \in DOMAIN E : i \notin A => ~E[i].counts /\ E[i].hard = "none"
    BY <2>2
  <2> QED
    BY <2>3, <2>4, <2>5, SameScore
<1>13. IsScore(result.overall) /\ result.overall \in Int
  <2>1. IsFiniteSet(DOMAIN E)
    BY <1>5, <1>6, FS_Subset DEF Asked
  <2>2. \A i \in DOMAIN E : E[i].contribution \in Nat /\ E[i].contribution <= 10000
    BY <1>6, <1>11
  <2> QED
    BY <1>8, <2>1, <2>2, ScoresAreBounded DEF Weighs
<1>14. PICK hard : hard = Engine!HardRows(asked)
  OBVIOUS
<1>15. PICK results : results = {E[i].hard : i \in DOMAIN E} \ {"none"}
  OBVIOUS
<1>16. result.hard = "failed" =>
         Engine!FailsOn(k, asked) /\ result.recommendation = "not_recommended"
  <2> SUFFICES ASSUME result.hard = "failed"
               PROVE  Engine!FailsOn(k, asked) /\ result.recommendation = "not_recommended"
    OBVIOUS
  <2>1. "failed" \in results
    BY <1>8, <1>15 DEF Engine!HardFilter
  <2>2. PICK i \in C : E[i].hard = "failed"
    BY <1>6, <1>15, <2>1
  <2>3. /\ rows[i].status = "confirmed" /\ Engine!IsHard(rows[i])
        /\ Engine!Facts(s, Engine!DimensionFor(rows[i].category)) # {}
    BY <1>11, <2>2
  <2>4. i \in A /\ asked[i] = rows[i]
    BY <1>4, <1>5, <2>3
  <2>5. rows[i] \in hard
    BY <1>5, <1>14, <2>3, <2>4 DEF Engine!HardRows
  <2>6. Engine!Facts(k, Engine!DimensionFor(rows[i].category)) # {}
    BY <1>1, <2>3, SameFacts
  <2>7. ASSUME NEW o
        PROVE  Engine!Recommendation(o, "failed") = "not_recommended"
    BY DEF Engine!Recommendation
  <2>8. result.recommendation = "not_recommended"
    BY <1>8, <2>7
  <2> QED
    BY <1>14, <2>5, <2>6, <2>8 DEF Engine!FailsOn
<1>17. result.hard = "passed" => Engine!PassesOn(k, asked)
  <2> SUFFICES ASSUME result.hard = "passed"
               PROVE  Engine!PassesOn(k, asked)
    OBVIOUS
  <2>1. results = {"passed"}
    BY <1>8, <1>15 DEF Engine!HardFilter
  <2>2. PICK i \in C : E[i].hard = "passed"
    BY <1>6, <1>15, <2>1
  <2>3. hard # {}
    <3>1. rows[i].status = "confirmed" /\ Engine!IsHard(rows[i])
      BY <1>11, <2>2
    <3>2. i \in A /\ asked[i] = rows[i]
      BY <1>4, <1>5, <3>1
    <3> QED
      BY <1>5, <1>14, <3>1, <3>2 DEF Engine!HardRows
  <2>4. ASSUME NEW row \in hard
        PROVE  \E j \in Engine!Facts(k, Engine!DimensionFor(row.category)) : Engine!Passes(row, k[j])
    <3>1. PICK l \in A : row = asked[l] /\ Engine!IsHard(row)
      BY <1>5, <1>14 DEF Engine!HardRows
    <3>2. l \in C /\ row = rows[l] /\ row.status = "confirmed"
      BY <1>4, <1>5, <3>1
    <3>3. E[l].hard # "none"
      BY <1>11, <3>1, <3>2
    <3>4. E[l].hard = "passed"
      BY <1>6, <1>15, <2>1, <3>2, <3>3
    <3>5. PICK j \in Engine!Facts(s, Engine!DimensionFor(row.category)) : Engine!Passes(row, s[j])
      BY <1>11, <3>2, <3>4
    <3>6. j \in Engine!Facts(k, Engine!DimensionFor(row.category)) /\ j \in DOMAIN k
      BY <1>1, <3>5, SameFacts
    <3>7. k[j] = s[j]
      BY <1>1, <3>6, KnownIs, ZenonT(60)
    <3>8. Engine!Passes(row, k[j])
      BY <3>5, <3>7 DEF Engine!Passes
    <3> QED
      BY <3>6, <3>8
  <2> QED
    BY <1>14, <2>3, <2>4 DEF Engine!PassesOn
<1>18. result.overall = bare.overall /\ result.hard = bare.hard
  BY <1>8, <1>10, <1>12
<1>19. /\ result.overall = Engine!ScoreMatch(Engine!KnownOf(s), Engine!AskedOf(rows), weights).overall
       /\ result.hard = Engine!ScoreMatch(Engine!KnownOf(s), Engine!AskedOf(rows), weights).hard
  BY <1>1, <1>2, <1>9, <1>18
<1>20. result.hard = "failed" =>
         Engine!FailsOn(Engine!KnownOf(s), Engine!AskedOf(rows)) /\ result.recommendation = "not_recommended"
  BY <1>1, <1>2, <1>16
<1>21. result.hard = "passed" => Engine!PassesOn(Engine!KnownOf(s), Engine!AskedOf(rows))
  BY <1>1, <1>2, <1>17
<1> QED
  BY <1>13, <1>19, <1>20, <1>21, PTL DEF Engine!Grounded, IsScore

\* A sequence of whatever it holds
Listed(s) == \E S : s \in Seq(S)

LEMMA ListedIs ==
  ASSUME NEW s, Listed(s)
  PROVE  Len(s) \in Nat /\ DOMAIN s = 1 .. Len(s)
BY DEF Listed

Longer(t, s, x) == t = Append(s, x)

LEMMA ListedAppends ==
  ASSUME NEW s, Listed(s), NEW x, NEW t, Longer(t, s, x)
  PROVE  /\ Listed(t) /\ Len(t) = Len(s) + 1
         /\ \A i \in DOMAIN t : (i \in DOMAIN s /\ t[i] = s[i]) \/ t[i] = x
         /\ \A i \in DOMAIN s : i \in DOMAIN t /\ t[i] = s[i]
<1>1. PICK S : s \in Seq(S)
  BY DEF Listed
<1>2. PICK T : T = S \cup {x}
  OBVIOUS
<1>3. S \subseteq T /\ x \in T
  BY <1>2
<1>4. s \in Seq(T)
  BY <1>1, <1>3
<1>5. /\ t \in Seq(T) /\ Len(t) = Len(s) + 1 /\ t[Len(s) + 1] = x
      /\ \A i \in 1 .. Len(s) : t[i] = s[i]
  BY <1>3, <1>4, AppendProperties DEF Longer
<1>6. Len(s) \in Nat /\ DOMAIN s = 1 .. Len(s) /\ DOMAIN t = 1 .. (Len(s) + 1)
  BY <1>4, <1>5
<1> QED
  BY <1>5, <1>6 DEF Listed

\* An Analysis is the score of the snapshot and of the Requirements kept with it.
Made(a, revisions) ==
  /\ a.revision \in DOMAIN revisions /\ Weighs(a.weights) /\ Asked(a.rows)
  /\ a.result = Engine!ScoreMatch(revisions[a.revision], a.rows, a.weights)

MatchingInv ==
  /\ demand \in Seq(DemandShape)
  /\ revision \in Seq(Snapshots) /\ revision # << >>
  /\ Listed(analysis) /\ \A i \in DOMAIN analysis : Made(analysis[i], revision)
  /\ Engine!Places(ranking)

LEMMA MatchingStarts == Engine!Init => MatchingInv
<1> SUFFICES ASSUME Engine!Init
             PROVE  MatchingInv
  OBVIOUS
<1>1. PICK s \in Snapshots : revision = <<s>>
  BY DEF Engine!Init
<1>2. demand = << >> /\ analysis = << >> /\ ranking = {}
  BY DEF Engine!Init
<1>3. revision \in Seq(Snapshots) /\ revision # << >>
  BY <1>1
<1>4. Listed(analysis) /\ \A i \in DOMAIN analysis : Made(analysis[i], revision)
  <2>1. analysis \in Seq({}) /\ DOMAIN analysis = {}
    BY <1>2
  <2> QED
    BY <2>1 DEF Listed
<1>5. demand \in Seq(DemandShape) /\ Engine!Places(ranking)
  BY <1>2 DEF Engine!Places
<1> QED
  BY <1>3, <1>4, <1>5 DEF MatchingInv

\* What was kept with an Analysis stays what it was, whatever changes later.
LEMMA MatchingIsGrounded == MatchingInv => Engine!AnalysesAreGrounded
<1> SUFFICES ASSUME MatchingInv
             PROVE  Engine!AnalysesAreGrounded
  OBVIOUS
<1>1. ASSUME NEW i \in DOMAIN analysis
      PROVE  Engine!Grounded(analysis[i].result, Engine!KnownOf(revision[analysis[i].revision]),
                             Engine!AskedOf(analysis[i].rows), analysis[i].weights)
  <2>1. Made(analysis[i], revision)
    BY DEF MatchingInv
  <2>2. PICK s : s = revision[analysis[i].revision]
    OBVIOUS
  <2>3. s \in Snapshots
    <3>1. revision \in Seq(Snapshots) /\ analysis[i].revision \in DOMAIN revision
      BY <2>1 DEF MatchingInv, Made
    <3> QED
      BY <2>2, <3>1
  <2>4. Saved(s)
    BY <2>3, SnapshotsAreSaved
  <2> QED
    BY <2>1, <2>2, <2>4, ScoreMatchIsGrounded DEF Made
<1>2. Engine!Places(ranking)
  BY DEF MatchingInv
<1> QED
  BY <1>1, <1>2 DEF Engine!AnalysesAreGrounded

LEMMA DemandStepKeepsMatching ==
  ASSUME MatchingInv,
         \/ \E demanded \in Demands, status \in {"needs_review", "confirmed"} :
              Engine!AddDemand(demanded, status)
         \/ \E i \in 1 .. MaxRequirements, status \in Engine!Status : Engine!ReviewDemand(i, status)
  PROVE  MatchingInv'
<1>1. demand \in Seq(DemandShape)
  BY DEF MatchingInv
<1>2. UNCHANGED <<revision, analysis, ranking>>
  BY DEF Engine!AddDemand, Engine!ReviewDemand
<1>3. demand' \in Seq(DemandShape)
  <2>1. CASE \E demanded \in Demands, status \in {"needs_review", "confirmed"} :
               Engine!AddDemand(demanded, status)
    <3>1. PICK demanded \in Demands, status \in {"needs_review", "confirmed"} :
            Engine!AddDemand(demanded, status)
      BY <2>1
    <3>2. PICK row : row = [job |-> demanded.job, status |-> status, name |-> demanded.name,
                            category |-> demanded.category, type |-> demanded.type,
                            minimum |-> demanded.minimum]
      OBVIOUS
    <3>3. demand' = Append(demand, row)
      BY <3>1, <3>2 DEF Engine!AddDemand
    <3>4. row \in DemandShape
      BY <3>2, MatchingAssumption DEF DemandShape, Engine!Status
    <3> QED
      BY <1>1, <3>3, <3>4, AppendProperties
  <2>2. CASE \E i \in 1 .. MaxRequirements, status \in Engine!Status :
               Engine!ReviewDemand(i, status)
    <3>1. PICK i \in 1 .. MaxRequirements, status \in Engine!Status : Engine!ReviewDemand(i, status)
      BY <2>2
    <3>2. PICK row : row = [demand[i] EXCEPT !.status = status]
      OBVIOUS
    <3>3. i \in DOMAIN demand /\ demand' = [demand EXCEPT ![i] = row]
      BY <3>1, <3>2 DEF Engine!ReviewDemand
    <3>4. demand[i] \in DemandShape
      BY <1>1, <3>3
    <3>5. row \in DemandShape
      BY <3>2, <3>4 DEF DemandShape
    <3> QED
      BY <1>1, <3>3, <3>5, ExceptSeq
  <2> QED
    BY <2>1, <2>2
<1> QED
  BY <1>2, <1>3 DEF MatchingInv

LEMMA ProfileStepKeepsMatching ==
  ASSUME MatchingInv, NEW s \in Snapshots, Engine!SaveProfile(s)
  PROVE  MatchingInv'
<1>1. revision' = Append(revision, s) /\ UNCHANGED <<demand, analysis, ranking>>
  BY DEF Engine!SaveProfile
<1>2. revision \in Seq(Snapshots)
  BY DEF MatchingInv
<1>3. /\ revision' \in Seq(Snapshots) /\ revision' # << >>
      /\ \A i \in DOMAIN revision : i \in DOMAIN revision' /\ revision'[i] = revision[i]
  <2>1. /\ revision' \in Seq(Snapshots) /\ Len(revision') = Len(revision) + 1
        /\ \A i \in 1 .. Len(revision) : revision'[i] = revision[i]
    BY <1>1, <1>2, AppendProperties
  <2>2. Len(revision) \in Nat /\ DOMAIN revision = 1 .. Len(revision)
        /\ DOMAIN revision' = 1 .. (Len(revision) + 1)
    BY <1>2, <2>1
  <2>3. revision' # << >>
    BY <2>1, <2>2
  <2> QED
    BY <2>1, <2>2, <2>3
<1>4. ASSUME NEW i \in DOMAIN analysis
      PROVE  Made(analysis[i], revision')
  <2>1. Made(analysis[i], revision)
    BY DEF MatchingInv
  <2>2. analysis[i].revision \in DOMAIN revision'
        /\ revision'[analysis[i].revision] = revision[analysis[i].revision]
    BY <1>3, <2>1 DEF Made
  <2> QED
    BY <2>1, <2>2 DEF Made
<1> QED
  BY <1>1, <1>3, <1>4 DEF MatchingInv

LEMMA RequirementsAreAsked ==
  ASSUME MatchingInv, NEW j, NEW rows, rows = Engine!RequirementsOf(j)
  PROVE  Asked(rows)
<1>1. demand \in Seq(DemandShape)
  BY DEF MatchingInv
<1>2. PICK D : D = {i \in DOMAIN demand : demand[i].job = j}
  OBVIOUS
<1>3. rows = [i \in D |-> demand[i]]
  BY <1>2 DEF Engine!RequirementsOf, Engine!Restrict
<1>4. Len(demand) \in Nat /\ DOMAIN demand = 1 .. Len(demand)
  BY <1>1
<1>5. PICK n : n = Len(demand)
  OBVIOUS
<1>6. n \in Nat /\ D \subseteq 1 .. n
  BY <1>2, <1>4, <1>5
<1>7. IsFiniteSet(1 .. n)
  <2>1. PICK a, b : a = 1 /\ b = n
    OBVIOUS
  <2>2. a \in Int /\ b \in Int
    BY <1>6, <2>1
  <2>3. IsFiniteSet(a .. b)
    BY <2>2, FS_Interval
  <2> QED
    BY <2>1, <2>3
<1>8. IsFiniteSet(D)
  BY <1>6, <1>7, FS_Subset
<1>9. \A i \in D : rows[i] \in DemandShape
  BY <1>1, <1>2, <1>3
<1> QED
  BY <1>3, <1>6, <1>8, <1>9 DEF Asked

LEMMA AnalyseIsMade ==
  ASSUME MatchingInv, NEW j, NEW n \in DOMAIN revision, NEW weights, Weighs(weights),
         NEW a, a = Engine!Analyse(j, n, weights)
  PROVE  Made(a, revision) /\ a.job = j /\ a.revision = n /\ a.weights = weights
<1>1. PICK rows : rows = Engine!RequirementsOf(j)
  OBVIOUS
<1>2. a = [job |-> j, revision |-> n, weights |-> weights, rows |-> rows,
           result |-> Engine!ScoreMatch(revision[n], rows, weights)]
  BY <1>1 DEF Engine!Analyse
<1>3. Asked(rows)
  BY <1>1, RequirementsAreAsked
<1> QED
  BY <1>2, <1>3 DEF Made

LEMMA MatchStepKeepsMatching ==
  ASSUME MatchingInv, NEW j, NEW n, NEW weights \in WeightConfigs, NEW force,
         Engine!Match(j, n, weights, force)
  PROVE  MatchingInv'
<1>1. PICK a : a = Engine!Analyse(j, n, weights)
  OBVIOUS
<1>2. n \in DOMAIN revision /\ analysis' = Append(analysis, a)
      /\ UNCHANGED <<demand, revision, ranking>>
  BY <1>1 DEF Engine!Match
<1>3. Weighs(weights)
  BY MatchingAssumption DEF Weighs
<1>4. Made(a, revision)
  BY <1>1, <1>2, <1>3, AnalyseIsMade
<1>5. Listed(analysis) /\ \A i \in DOMAIN analysis : Made(analysis[i], revision)
  BY DEF MatchingInv
<1>6. PICK all : all = analysis'
  OBVIOUS
<1>7. Listed(all) /\ \A i \in DOMAIN all : (i \in DOMAIN analysis /\ all[i] = analysis[i]) \/ all[i] = a
  <2>1. PICK old : old = analysis
    OBVIOUS
  <2>2. Listed(old) /\ Longer(all, old, a)
    BY <1>2, <1>5, <1>6, <2>1 DEF Longer
  <2>3. Listed(all) /\ \A i \in DOMAIN all : (i \in DOMAIN old /\ all[i] = old[i]) \/ all[i] = a
    BY <2>2, ListedAppends
  <2> QED
    BY <2>1, <2>3
<1>8. \A i \in DOMAIN all : Made(all[i], revision)
  BY <1>4, <1>5, <1>7
<1> QED
  BY <1>2, <1>6, <1>7, <1>8 DEF MatchingInv

LEMMA EngineCounts == \A S : Engine!Cardinality(S) = Cardinality(S)
BY DEF Engine!Cardinality, Cardinality

LEMMA GreatestIs ==
  ASSUME NEW n \in Nat, NEW S, S \subseteq 1 .. n, S # {}
  PROVE  Engine!Max(S) \in S
<1>1. PICK T : T = {n - x : x \in S}
  OBVIOUS
<1>2. T \subseteq Nat /\ T # {}
  <2>1. ASSUME NEW x \in S
        PROVE  n - x \in Nat
    <3>1. x \in 1 .. n
      OBVIOUS
    <3> QED
      BY <3>1
  <2>2. PICK x : x \in S
    OBVIOUS
  <2> QED
    BY <1>1, <2>1, <2>2
<1>3. PICK least \in T : \A y \in T : least <= y
  BY <1>2, LeastIs
<1>4. PICK x \in S : least = n - x
  BY <1>1, <1>3
<1>5. ASSUME NEW y \in S
      PROVE  x >= y
  <2>1. least <= n - y
    BY <1>1, <1>3
  <2> QED
    BY <1>4, <2>1
<1> QED
  BY <1>5 DEF Engine!Max

\* Items of one Job each, with scores that are numbers
Item == [job : Nat, analysis : Nat, hard : {"failed", "warning", "passed", "unknown"}, score : Int]

Before(items, x) == {other \in items : Engine!Precedes(other, x)}

LEMMA PrecedesIsAnOrder ==
  /\ \A x \in Item : ~Engine!Precedes(x, x)
  /\ \A x, y \in Item : x.job # y.job => Engine!Precedes(x, y) \/ Engine!Precedes(y, x)
  /\ \A x, y, z \in Item :
       Engine!Precedes(x, y) /\ Engine!Precedes(y, z) => Engine!Precedes(x, z)
  /\ \A x, y \in Item : x.hard = "failed" /\ y.hard # "failed" => Engine!Precedes(y, x)
<1>1. \A x \in Item : ~Engine!Precedes(x, x)
  BY DEF Item, Engine!Precedes
<1>2. \A x, y \in Item : x.job # y.job => Engine!Precedes(x, y) \/ Engine!Precedes(y, x)
  BY DEF Item, Engine!Precedes
<1>3. \A x, y, z \in Item :
        Engine!Precedes(x, y) /\ Engine!Precedes(y, z) => Engine!Precedes(x, z)
  BY DEF Item, Engine!Precedes
<1>4. \A x, y \in Item : x.hard = "failed" /\ y.hard # "failed" => Engine!Precedes(y, x)
  BY DEF Item, Engine!Precedes
<1> QED
  BY <1>1, <1>2, <1>3, <1>4

LEMMA PrecedingHasFewer ==
  ASSUME NEW items, items \subseteq Item, IsFiniteSet(items), NEW x \in items, NEW y \in items,
         Engine!Precedes(x, y)
  PROVE  /\ Cardinality(Before(items, x)) \in Nat /\ Cardinality(Before(items, y)) \in Nat
         /\ Cardinality(Before(items, x)) < Cardinality(Before(items, y))
<1>1. PICK a, b : a = Before(items, x) /\ b = Before(items, y)
  OBVIOUS
<1>2. a \subseteq items /\ b \subseteq items
  BY <1>1 DEF Before
<1>3. IsFiniteSet(a) /\ IsFiniteSet(b) /\ Cardinality(a) \in Nat /\ Cardinality(b) \in Nat
  BY <1>2, FS_Subset, FS_CardinalityType
<1>4. a \subseteq b
  BY <1>1, PrecedesIsAnOrder DEF Before
<1>5. x \in b /\ x \notin a
  BY <1>1, PrecedesIsAnOrder DEF Before
<1>6. Cardinality(a) < Cardinality(b)
  BY <1>3, <1>4, <1>5, FS_Subset
<1> QED
  BY <1>1, <1>3, <1>6

LEMMA RankedArePlaces ==
  ASSUME NEW items, items \subseteq Item, IsFiniteSet(items),
         \A x, y \in items : x.job = y.job => x = y
  PROVE  Engine!Places(Engine!Ranked(items))
<1>1. ASSUME NEW p \in Engine!Ranked(items)
      PROVE  \E x \in items : /\ p = [job |-> x.job, analysis |-> x.analysis, hard |-> x.hard,
                                      score |-> x.score,
                                      position |-> Cardinality(Before(items, x)) + 1]
                              /\ p.hard = x.hard
                              /\ p.position = Cardinality(Before(items, x)) + 1
  <2>1. PICK x \in items :
          p = [job |-> x.job, analysis |-> x.analysis, hard |-> x.hard, score |-> x.score,
               position |-> Engine!Cardinality({other \in items : Engine!Precedes(other, x)}) + 1]
    BY <1>1 DEF Engine!Ranked
  <2>2. Engine!Cardinality({other \in items : Engine!Precedes(other, x)})
        = Cardinality(Before(items, x))
    BY EngineCounts DEF Before
  <2> QED
    BY <2>1, <2>2
<1>2. ASSUME NEW p \in Engine!Ranked(items), NEW q \in Engine!Ranked(items)
      PROVE  /\ p.hard = "failed" /\ q.hard # "failed" => q.position < p.position
             /\ p # q => p.position # q.position
  <2>1. PICK x \in items :
          /\ p = [job |-> x.job, analysis |-> x.analysis, hard |-> x.hard, score |-> x.score,
                  position |-> Cardinality(Before(items, x)) + 1]
          /\ p.hard = x.hard /\ p.position = Cardinality(Before(items, x)) + 1
    BY <1>1
  <2>2. PICK y \in items :
          /\ q = [job |-> y.job, analysis |-> y.analysis, hard |-> y.hard, score |-> y.score,
                  position |-> Cardinality(Before(items, y)) + 1]
          /\ q.hard = y.hard /\ q.position = Cardinality(Before(items, y)) + 1
    BY <1>1
  <2>3. x \in Item /\ y \in Item
    OBVIOUS
  <2>4. ASSUME p.hard = "failed", q.hard # "failed"
        PROVE  q.position < p.position
    <3>1. Engine!Precedes(y, x)
      BY <2>1, <2>2, <2>3, <2>4, PrecedesIsAnOrder
    <3> QED
      BY <2>1, <2>2, <3>1, PrecedingHasFewer
  <2>5. ASSUME p # q
        PROVE  p.position # q.position
    <3>1. x # y
      BY <2>1, <2>2, <2>5
    <3>2. x.job # y.job
      BY <3>1
    <3>3. CASE Engine!Precedes(x, y)
      BY <2>1, <2>2, <3>3, PrecedingHasFewer
    <3>4. CASE Engine!Precedes(y, x)
      BY <2>1, <2>2, <3>4, PrecedingHasFewer
    <3> QED
      BY <2>3, <3>2, <3>3, <3>4, PrecedesIsAnOrder
  <2> QED
    BY <2>4, <2>5
<1> QED
  BY <1>2 DEF Engine!Places

\* The row of a Job in a run, by its newest Analysis in all
ItemOf(all, j, n, factors) ==
  LET used == Engine!Max(Engine!Reusable(all, j, n, Engine!DEFAULT_WEIGHTS))
  IN [job |-> j, analysis |-> used, hard |-> all[used].result.hard,
      score |-> Engine!RankScore(all[used].result, factors[j])]

ItemsOf(all, n, factors) == {ItemOf(all, j, n, factors) : j \in MatchedJobs}

Unmatched(all, n) == {j \in MatchedJobs : Engine!Reusable(all, j, n, Engine!DEFAULT_WEIGHTS) = {}}

AddedFor(made, n) == [i \in DOMAIN made |-> Engine!Analyse(made[i], n, Engine!DEFAULT_WEIGHTS)]

LEMMA RankIs ==
  ASSUME NEW factors, Engine!Rank(factors)
  PROVE  /\ UNCHANGED <<demand, revision>>
         /\ \E made \in Engine!Bijection(1 .. Engine!Cardinality(Unmatched(analysis, Len(revision))),
                                         Unmatched(analysis, Len(revision))) :
              /\ analysis' = analysis \o AddedFor(made, Len(revision))
              /\ ranking' = Engine!Ranked(ItemsOf(analysis \o AddedFor(made, Len(revision)),
                                                  Len(revision), factors))
BY DEF Engine!Rank, ItemOf, ItemsOf, Unmatched, AddedFor

LEMMA ResultIs ==
  ASSUME NEW s \in Snapshots, NEW rows, NEW weights, Weighs(weights), Asked(rows),
         NEW result, result = Engine!ScoreMatch(s, rows, weights)
  PROVE  /\ result.overall \in Int
         /\ result.hard \in {"failed", "warning", "passed", "unknown"}
<1>1. Saved(s)
  BY SnapshotsAreSaved
<1>2. result.overall \in Int
  BY <1>1, ScoreMatchIsGrounded
<1>3. ASSUME NEW E
      PROVE  Engine!HardFilter(E) \in {"failed", "warning", "passed", "unknown"}
  BY DEF Engine!HardFilter
<1>4. PICK E : result.hard = Engine!HardFilter(E)
  BY DEF Engine!ScoreMatch
<1> QED
  BY <1>2, <1>3, <1>4

Penalty == [failed |-> -2500, warning |-> -500, passed |-> 0, unknown |-> 0]

LEMMA RankScoreIs ==
  ASSUME NEW result, NEW factor \in Int, result.overall \in Int,
         result.hard \in {"failed", "warning", "passed", "unknown"}
  PROVE  Engine!RankScore(result, factor) \in Int
<1>1. ASSUME NEW a \in Int, NEW b \in Int
      PROVE  Engine!Min({a, b}) \in Int /\ Engine!Max({a, b}) \in Int
  <2>1. \E y \in {a, b} : \A z \in {a, b} : y <= z
    <3>1. CASE a <= b
      BY <3>1
    <3>2. CASE ~(a <= b)
      BY <3>2
    <3> QED
      BY <3>1, <3>2
  <2>2. \E y \in {a, b} : \A z \in {a, b} : y >= z
    <3>1. CASE a >= b
      BY <3>1
    <3>2. CASE ~(a >= b)
      BY <3>2
    <3> QED
      BY <3>1, <3>2
  <2>3. Engine!Min({a, b}) \in {a, b}
    BY <2>1 DEF Engine!Min
  <2>4. Engine!Max({a, b}) \in {a, b}
    BY <2>2 DEF Engine!Max
  <2> QED
    BY <2>3, <2>4
<1>2. PICK penalty : penalty = Penalty[result.hard]
  OBVIOUS
<1>3. penalty \in Int
  BY <1>2 DEF Penalty
<1>4. PICK total : total = result.overall + factor + penalty
  OBVIOUS
<1>5. total \in Int
  BY <1>3, <1>4
<1>6. Engine!RankScore(result, factor) = Engine!Max({0, Engine!Min({10000, total})})
  BY <1>2, <1>4 DEF Engine!RankScore, Penalty
<1>7. PICK most : most = 10000
  OBVIOUS
<1>8. PICK low : low = Engine!Min({most, total})
  OBVIOUS
<1>9. low \in Int
  BY <1>1, <1>5, <1>7, <1>8
<1>10. PICK zero \in Int : zero = 0
  OBVIOUS
<1>11. Engine!Max({zero, low}) \in Int
  BY <1>1, <1>9
<1> QED
  BY <1>6, <1>7, <1>8, <1>10, <1>11

LEMMA ItemIsOne ==
  ASSUME NEW all, Listed(all), revision \in Seq(Snapshots),
         \A i \in DOMAIN all : Made(all[i], revision),
         NEW n, NEW j \in MatchedJobs, NEW factors \in Factors,
         Engine!Reusable(all, j, n, Engine!DEFAULT_WEIGHTS) # {},
         NEW x, x = ItemOf(all, j, n, factors)
  PROVE  x \in Item /\ x.job = j
<1>1. PICK R : R = Engine!Reusable(all, j, n, Engine!DEFAULT_WEIGHTS)
  OBVIOUS
<1>2. PICK m : m = Len(all)
  OBVIOUS
<1>3. m \in Nat /\ DOMAIN all = 1 .. m
  BY <1>2, ListedIs
<1>4. R \subseteq 1 .. m /\ R # {}
  BY <1>1, <1>3 DEF Engine!Reusable
<1>5. PICK used : used = Engine!Max(R)
  OBVIOUS
<1>6. used \in 1 .. m
  BY <1>3, <1>4, <1>5, GreatestIs
<1>7. Made(all[used], revision)
  BY <1>3, <1>6
<1>8. revision[all[used].revision] \in Snapshots
  BY <1>7 DEF Made
<1>9. PICK result : result = all[used].result
  OBVIOUS
<1>10. result.overall \in Int /\ result.hard \in {"failed", "warning", "passed", "unknown"}
  BY <1>7, <1>8, <1>9, ResultIs DEF Made
<1>11. factors[j] \in Int /\ j \in Nat
  BY MatchingAssumption
<1>12. PICK score : score = Engine!RankScore(result, factors[j])
  OBVIOUS
<1>13. score \in Int
  BY <1>10, <1>11, <1>12, RankScoreIs
<1>14. x = [job |-> j, analysis |-> used, hard |-> result.hard, score |-> score]
  BY <1>1, <1>5, <1>9, <1>12 DEF ItemOf
<1> QED
  BY <1>3, <1>6, <1>10, <1>11, <1>13, <1>14 DEF Item

LEMMA UnmatchedAreFew ==
  ASSUME NEW all, NEW n
  PROVE  /\ IsFiniteSet(Unmatched(all, n)) /\ Unmatched(all, n) \subseteq MatchedJobs
         /\ Engine!Cardinality(Unmatched(all, n)) \in Nat
<1>1. Unmatched(all, n) \subseteq MatchedJobs
  BY DEF Unmatched
<1>2. IsFiniteSet(Unmatched(all, n))
  BY <1>1, FS_Subset, MatchingAssumption
<1> QED
  BY <1>1, <1>2, FS_CardinalityType, EngineCounts

\* Every Job has an Analysis of the last revision once those missing are added.
LEMMA AddedAnalyses ==
  ASSUME MatchingInv, NEW n, n = Len(revision), NEW missing, missing = Unmatched(analysis, n),
         NEW m \in Nat, NEW made \in Engine!Bijection(1 .. m, missing),
         NEW old, old = analysis, NEW all, all = old \o AddedFor(made, n)
  PROVE  /\ Listed(all) /\ \A i \in DOMAIN all : Made(all[i], revision)
         /\ \A j \in MatchedJobs : Engine!Reusable(all, j, n, Engine!DEFAULT_WEIGHTS) # {}
<1>1. PICK w : w = Engine!DEFAULT_WEIGHTS
  OBVIOUS
<1>2. PICK f : f = AddedFor(made, n)
  OBVIOUS
<1>3. made \in [1 .. m -> missing] /\ \A j \in missing : \E i \in 1 .. m : made[i] = j
  BY DEF Engine!Bijection, Engine!Surjection, Engine!Injection
<1>4. DOMAIN f = 1 .. m /\ \A i \in 1 .. m : f[i] = Engine!Analyse(made[i], n, w)
  BY <1>1, <1>2, <1>3 DEF AddedFor
<1>5. n \in DOMAIN revision
  BY DEF MatchingInv
<1>6. Weighs(w)
  BY <1>1, DefaultWeights DEF Weighs
<1>7. ASSUME NEW i \in 1 .. m
      PROVE  /\ Made(f[i], revision)
             /\ f[i].job = made[i] /\ f[i].revision = n /\ f[i].weights = w
  BY <1>4, <1>5, <1>6, AnalyseIsMade
<1>8. Listed(old) /\ \A i \in DOMAIN old : Made(old[i], revision)
  BY DEF MatchingInv
<1>9. PICK S : old \in Seq(S)
  BY <1>8 DEF Listed
<1>10. PICK T : T = S \cup {f[i] : i \in 1 .. m}
  OBVIOUS
<1>11. old \in Seq(T)
  BY <1>9, <1>10
<1>12. f \in [1 .. m -> T]
  <2>1. f = AddedFor(made, n) /\ DOMAIN f = 1 .. m
    BY <1>2, <1>4
  <2>2. f = [i \in 1 .. m |-> f[i]]
    BY <1>3, <2>1 DEF AddedFor
  <2>3. \A i \in 1 .. m : f[i] \in T
    BY <1>10
  <2> QED
    BY <2>2, <2>3
<1>13. /\ all \in Seq(T) /\ DOMAIN all = 1 .. (Len(old) + m) /\ DOMAIN old = 1 .. Len(old)
       /\ \A k \in 1 .. Len(old) : all[k] = old[k]
       /\ \A k \in (Len(old) + 1) .. (Len(old) + m) :
            k - Len(old) \in 1 .. m /\ all[k] = f[k - Len(old)]
  <2>1. f \in Seq(T) /\ Len(f) = m /\ Len(old) \in Nat /\ DOMAIN old = 1 .. Len(old)
    BY <1>11, <1>12
  <2>2. PICK both : both = old \o f
    OBVIOUS
  <2>3. /\ both \in Seq(T) /\ Len(both) = Len(old) + m
        /\ \A k \in 1 .. Len(old) + m :
             both[k] = IF k <= Len(old) THEN old[k] ELSE f[k - Len(old)]
    BY <1>11, <2>1, <2>2, ConcatProperties
  <2>4. all = both
    BY <1>2, <2>2
  <2>5. DOMAIN all = 1 .. (Len(old) + m)
    BY <2>3, <2>4
  <2> QED
    BY <2>1, <2>3, <2>4, <2>5
<1>14. Len(old) \in Nat
  BY <1>9
<1>15. ASSUME NEW k \in DOMAIN all
       PROVE  Made(all[k], revision)
  <2>1. CASE k \in 1 .. Len(old)
    BY <1>8, <1>13, <2>1
  <2>2. CASE k \notin 1 .. Len(old)
    <3>1. k \in (Len(old) + 1) .. (Len(old) + m)
      BY <1>13, <1>14, <2>2
    <3>2. k - Len(old) \in 1 .. m /\ all[k] = f[k - Len(old)]
      BY <1>13, <3>1
    <3> QED
      BY <1>7, <3>2
  <2> QED
    BY <2>1, <2>2
<1>16. ASSUME NEW j \in MatchedJobs
       PROVE  Engine!Reusable(all, j, n, w) # {}
  <2>1. CASE j \in missing
    <3>1. PICK i \in 1 .. m : made[i] = j
      BY <1>3, <2>1
    <3>2. PICK k : k = Len(old) + i
      OBVIOUS
    <3>3. k \in (Len(old) + 1) .. (Len(old) + m) /\ k - Len(old) = i /\ k \in 1 .. (Len(old) + m)
      BY <1>14, <3>2
    <3>4. all[k] = f[i] /\ k \in DOMAIN all
      BY <1>13, <3>3
    <3>5. all[k].job = j /\ all[k].revision = n /\ all[k].weights = w
      BY <1>7, <3>1, <3>4
    <3> QED
      BY <3>4, <3>5 DEF Engine!Reusable
  <2>2. CASE j \notin missing
    <3>1. Engine!Reusable(old, j, n, w) # {}
      BY <1>1, <2>2 DEF Unmatched
    <3>2. PICK k \in DOMAIN old : old[k].job = j /\ old[k].revision = n /\ old[k].weights = w
      BY <3>1 DEF Engine!Reusable
    <3>3. k \in DOMAIN all /\ all[k] = old[k]
      BY <1>13, <1>14
    <3> QED
      BY <3>2, <3>3 DEF Engine!Reusable
  <2> QED
    BY <2>1, <2>2
<1>17. Listed(all)
  BY <1>13 DEF Listed
<1> QED
  BY <1>1, <1>15, <1>16, <1>17

LEMMA RankStepKeepsMatching ==
  ASSUME MatchingInv, NEW factors \in Factors, Engine!Rank(factors)
  PROVE  MatchingInv'
<1>1. PICK n : n = Len(revision)
  OBVIOUS
<1>2. PICK missing : missing = Unmatched(analysis, n)
  OBVIOUS
<1>3. PICK m : m = Engine!Cardinality(missing)
  OBVIOUS
<1>4. m \in Nat
  BY <1>2, <1>3, UnmatchedAreFew
<1>5. /\ UNCHANGED <<demand, revision>>
      /\ \E made \in Engine!Bijection(1 .. m, missing) :
           /\ analysis' = analysis \o AddedFor(made, n)
           /\ ranking' = Engine!Ranked(ItemsOf(analysis \o AddedFor(made, n), n, factors))
  BY <1>1, <1>2, <1>3, RankIs
<1>6. PICK made \in Engine!Bijection(1 .. m, missing) :
        /\ analysis' = analysis \o AddedFor(made, n)
        /\ ranking' = Engine!Ranked(ItemsOf(analysis \o AddedFor(made, n), n, factors))
  BY <1>5
<1>7. PICK all : all = analysis \o AddedFor(made, n)
  OBVIOUS
<1>8. /\ Listed(all) /\ \A i \in DOMAIN all : Made(all[i], revision)
      /\ \A j \in MatchedJobs : Engine!Reusable(all, j, n, Engine!DEFAULT_WEIGHTS) # {}
  BY <1>1, <1>2, <1>4, <1>7, AddedAnalyses
<1>9. PICK items : items = ItemsOf(all, n, factors)
  OBVIOUS
<1>10. revision \in Seq(Snapshots)
  BY DEF MatchingInv
<1>11. ASSUME NEW j \in MatchedJobs
       PROVE  ItemOf(all, j, n, factors) \in Item /\ ItemOf(all, j, n, factors).job = j
  BY <1>8, <1>10, ItemIsOne
<1>12. items \subseteq Item /\ \A x, y \in items : x.job = y.job => x = y
  BY <1>9, <1>11 DEF ItemsOf
<1>13. IsFiniteSet(items)
  <2>1. PICK f : f = [j \in MatchedJobs |-> ItemOf(all, j, n, factors)]
    OBVIOUS
  <2>2. f \in [MatchedJobs -> items] /\ \A x \in items : \E j \in MatchedJobs : f[j] = x
    BY <1>9, <2>1 DEF ItemsOf
  <2>3. f \in Surjection(MatchedJobs, items)
    BY <2>2 DEF Surjection
  <2> QED
    BY <2>3, FS_Surjection, MatchingAssumption
<1>14. Engine!Places(Engine!Ranked(items))
  BY <1>12, <1>13, RankedArePlaces
<1>15. analysis' = all /\ ranking' = Engine!Ranked(items)
  BY <1>6, <1>7, <1>9
<1>16. Engine!Places(ranking')
  BY <1>14, <1>15
<1> QED
  BY <1>5, <1>8, <1>15, <1>16 DEF MatchingInv

LEMMA MatchingKeepsInv ==
  MatchingInv /\ [Engine!Next]_matchVars => MatchingInv'
<1>1. ASSUME MatchingInv, UNCHANGED matchVars
      PROVE  MatchingInv'
  BY <1>1 DEF matchVars, MatchingInv
<1>2. ASSUME MatchingInv, Engine!Next
      PROVE  MatchingInv'
  <2>1. CASE \/ \E demanded \in Demands, status \in {"needs_review", "confirmed"} :
                  Engine!AddDemand(demanded, status)
             \/ \E i \in 1 .. MaxRequirements, status \in Engine!Status :
                  Engine!ReviewDemand(i, status)
    BY <1>2, <2>1, DemandStepKeepsMatching
  <2>2. CASE \E s \in Snapshots : Engine!SaveProfile(s)
    BY <1>2, <2>2, ProfileStepKeepsMatching
  <2>3. CASE \E j \in MatchedJobs, n \in 1 .. MaxRevisions, weights \in WeightConfigs,
                force \in BOOLEAN : Engine!Match(j, n, weights, force)
    BY <1>2, <2>3, MatchStepKeepsMatching
  <2>4. CASE \E factors \in Factors : Engine!Rank(factors)
    BY <1>2, <2>4, RankStepKeepsMatching
  <2> QED
    BY <1>2, <2>1, <2>2, <2>3, <2>4 DEF Engine!Next
<1> QED
  BY <1>1, <1>2

LEMMA MatchingStandsAlone ==
  ASSUME [RecordsNext]_recordsVars
  PROVE  part' = part /\ [part = "matching" /\ Engine!Next]_matchVars
BY DEF recordsVars, RecordsNext, MaterialsStep, LibraryStep, TrackingStep, ResumesStep,
   CareerStep, MatchingStep, OnlyOf

\* Whatever Requirements are added and reviewed, whichever revision of the profile is
\* matched and in whatever order a run takes the Jobs: an Analysis is what confirmed facts
\* and confirmed Requirements alone make it, its score is one without being cut, a failed
\* hard filter is never recommended, and the ranks of a run are an order in which no Job
\* with a failed hard filter comes before one without.
THEOREM AnalysesRestOnFacts == RecordsSpec => []AnalysesAreGrounded
<1>1. RecordsInit => MatchingInv
  BY MatchingStarts DEF RecordsInit
<1>2. MatchingInv /\ [RecordsNext]_recordsVars => MatchingInv'
  BY MatchingStandsAlone, MatchingKeepsInv
<1>3. MatchingInv => AnalysesAreGrounded
  BY MatchingIsGrounded DEF AnalysesAreGrounded
<1> QED
  BY <1>1, <1>2, <1>3, PTL DEF RecordsSpec, recordsVars
=============================================================================
