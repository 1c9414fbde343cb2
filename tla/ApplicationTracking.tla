------------------------- MODULE ApplicationTracking --------------------------
(***************************************************************************)
(* The stages of an Application, its history, Notes and Tasks              *)
(* (app/applications/service.py).  A user changes what a page showed       *)
(* earlier: every request carries the revision the page was loaded with,   *)
(* the row is locked and read again, and a request with a stale revision   *)
(* is refused.  A request is therefore one step, and what can go stale is  *)
(* the page.                                                               *)
(***************************************************************************)
EXTENDS Naturals, Sequences, SequencesExt

CONSTANTS
  Pages,        \* pages open at once
  MaxRevision,  \* bound: revisions of the Application, its Note and its Task in all
  None          \* no outcome

VARIABLES
  stageRow,  \* the row of applications
  history,   \* rows of application_stage_history, in the order of their ids
  note,      \* a row of application_notes
  todo,      \* a row of application_tasks
  page       \* what a page has loaded

trackingVars == <<stageRow, history, note, todo, page>>

-----------------------------------------------------------------------------
TRANSITIONS ==
  [saved           |-> {"shortlisted", "preparing", "closed"},
   shortlisted     |-> {"preparing", "rejected", "closed"},
   preparing       |-> {"ready_to_apply", "withdrawn", "closed"},
   ready_to_apply  |-> {"applied", "withdrawn", "closed"},
   applied         |-> {"assessment", "interview", "rejected", "withdrawn", "closed"},
   assessment      |-> {"interview", "rejected", "withdrawn"},
   interview       |-> {"final_interview", "offer", "rejected", "withdrawn"},
   final_interview |-> {"offer", "rejected", "withdrawn"},
   offer           |-> {"accepted", "rejected", "withdrawn"},
   accepted |-> {}, rejected |-> {}, withdrawn |-> {}, closed |-> {}]

Stages == DOMAIN TRANSITIONS
TERMINAL_STAGES == {"accepted", "rejected", "withdrawn", "closed"}

\* Application
StageRow == [stage : Stages, outcome : TERMINAL_STAGES \cup {None}, applied : BOOLEAN,
             revision : 0..MaxRevision, archived : BOOLEAN, resume : BOOLEAN]

\* ApplicationStageHistory, with the stage the page showed
HistoryRow == [from : Stages, to : Stages, before : 0..MaxRevision, after : 1..MaxRevision,
               shown : Stages]

\* ApplicationNote
NoteRow == [revision : 0..MaxRevision, deleted : BOOLEAN]

\* ApplicationTask
TodoRow == [revision : 0..MaxRevision, archived : BOOLEAN, completedAt : BOOLEAN,
            status : {"pending", "in_progress", "completed", "cancelled"}]

Page == [stage : Stages, revision : 0..MaxRevision, note : 0..MaxRevision, todo : 0..MaxRevision]

Absent == [stage |-> "saved", outcome |-> None, applied |-> FALSE, revision |-> 0,
           archived |-> FALSE, resume |-> FALSE]

FreshPage == [stage |-> "saved", revision |-> 0, note |-> 0, todo |-> 0]

TypeOK ==
  /\ stageRow \in StageRow
  /\ history \in Seq(HistoryRow)
  /\ note \in NoteRow /\ todo \in TodoRow
  /\ page \in [Pages -> Page]

Init ==
  /\ stageRow = Absent
  /\ history = << >>
  /\ note = [revision |-> 0, deleted |-> FALSE]
  /\ todo = [revision |-> 0, archived |-> FALSE, completedAt |-> FALSE, status |-> "pending"]
  /\ page = [p \in Pages |-> FreshPage]

Revised == stageRow.revision + note.revision + todo.revision < MaxRevision

-----------------------------------------------------------------------------
\* ApplicationService.create, with its history row, and create_submitted, whose
\* Application is applied from the start and has no history.
Create ==
  /\ stageRow = Absent
  /\ \E resume \in BOOLEAN :
       stageRow' = [Absent EXCEPT !.revision = 1, !.resume = resume]
  /\ history' = <<[from |-> "saved", to |-> "saved", before |-> 0, after |-> 1,
                   shown |-> "saved"]>>
  /\ UNCHANGED <<note, todo, page>>

CreateSubmitted ==
  /\ stageRow = Absent
  /\ \E resume \in BOOLEAN :
       stageRow' = [Absent EXCEPT !.revision = 1, !.stage = "applied", !.applied = TRUE,
                                  !.resume = resume]
  /\ UNCHANGED <<history, note, todo, page>>

\* get, list, notes
Load(p) ==
  /\ stageRow.revision > 0
  /\ page' = [page EXCEPT ![p] = [stage |-> stageRow.stage, revision |-> stageRow.revision,
                                  note |-> note.revision, todo |-> todo.revision]]
  /\ UNCHANGED <<stageRow, history, note, todo>>

\* Mutant: the revision of the page is not compared.
ExpectedAnything(p) == stageRow.revision > 0 /\ ~stageRow.archived

\* _application with for_update, then _expect.
Expected(p) ==
  /\ stageRow.revision > 0 /\ ~stageRow.archived
  /\ page[p].revision = stageRow.revision

\* update, link_resume: another revision, the stage stays.
Update(p) ==
  /\ Expected(p) /\ Revised
  /\ stageRow' = [stageRow EXCEPT !.revision = @ + 1]
  /\ UNCHANGED <<history, note, todo, page>>

LinkResume(p) ==
  /\ Expected(p) /\ Revised
  /\ stageRow' = [stageRow EXCEPT !.revision = @ + 1, !.resume = TRUE]
  /\ UNCHANGED <<history, note, todo, page>>

Archive(p) ==
  /\ Expected(p) /\ Revised
  /\ stageRow' = [stageRow EXCEPT !.revision = @ + 1, !.archived = TRUE]
  /\ UNCHANGED <<history, note, todo, page>>

Restore(p) ==
  /\ stageRow.archived /\ page[p].revision = stageRow.revision /\ Revised
  /\ stageRow' = [stageRow EXCEPT !.revision = @ + 1, !.archived = FALSE]
  /\ UNCHANGED <<history, note, todo, page>>

HistoryEntry(p, to) ==
  [from |-> stageRow.stage, to |-> to, before |-> stageRow.revision,
   after |-> stageRow.revision + 1, shown |-> page[p].stage]

Transition(p, to) ==
  /\ Expected(p) /\ Revised
  /\ to \in TRANSITIONS[stageRow.stage]
  /\ stageRow' = [stageRow EXCEPT
       !.stage = to, !.revision = @ + 1,
       !.applied = @ \/ to = "applied",
       !.outcome = IF to \in TERMINAL_STAGES THEN to ELSE @]
  /\ history' = Append(history, HistoryEntry(p, to))
  /\ UNCHANGED <<note, todo, page>>

Reopen(p) ==
  /\ Expected(p) /\ Revised
  /\ stageRow.stage \in TERMINAL_STAGES
  /\ stageRow' = [stageRow EXCEPT !.stage = "saved", !.outcome = None, !.revision = @ + 1]
  /\ history' = Append(history, HistoryEntry(p, "saved"))
  /\ UNCHANGED <<note, todo, page>>

-----------------------------------------------------------------------------
(* Notes and Tasks have revisions of their own. *)

Attached == stageRow.revision > 0 /\ ~stageRow.archived

AddNote ==
  /\ Attached /\ note.revision = 0 /\ Revised
  /\ note' = [note EXCEPT !.revision = 1]
  /\ UNCHANGED <<stageRow, history, todo, page>>

\* update_note, delete_note
ChangeNote(p, deleted) ==
  /\ Attached /\ note.revision > 0 /\ ~note.deleted
  /\ page[p].note = note.revision /\ Revised
  /\ note' = [revision |-> note.revision + 1, deleted |-> deleted]
  /\ UNCHANGED <<stageRow, history, todo, page>>

AddTask(status) ==
  /\ Attached /\ todo.revision = 0 /\ Revised
  /\ todo' = [todo EXCEPT !.revision = 1, !.status = status,
                          !.completedAt = status = "completed"]
  /\ UNCHANGED <<stageRow, history, note, page>>

\* TaskService.update, complete, reopen: one of them sets every status.
SetTask(p, status) ==
  /\ todo.revision > 0 /\ ~todo.archived
  /\ page[p].todo = todo.revision /\ Revised
  /\ todo' = [todo EXCEPT !.revision = @ + 1, !.status = status,
                          !.completedAt = status = "completed"]
  /\ UNCHANGED <<stageRow, history, note, page>>

ArchiveTask(p) ==
  /\ todo.revision > 0 /\ ~todo.archived
  /\ page[p].todo = todo.revision /\ Revised
  /\ todo' = [todo EXCEPT !.revision = @ + 1, !.archived = TRUE]
  /\ UNCHANGED <<stageRow, history, note, page>>

-----------------------------------------------------------------------------
TaskStatus == {"pending", "in_progress", "completed", "cancelled"}

PageStep(p) ==
  \/ Load(p) \/ Update(p) \/ LinkResume(p) \/ Archive(p) \/ Restore(p) \/ Reopen(p)
  \/ \E to \in Stages : Transition(p, to)
  \/ \E deleted \in BOOLEAN : ChangeNote(p, deleted)
  \/ \E status \in TaskStatus : SetTask(p, status)
  \/ ArchiveTask(p)

Next ==
  \/ Create \/ CreateSubmitted \/ AddNote
  \/ \E status \in TaskStatus : AddTask(status)
  \/ \E p \in Pages : PageStep(p)

Spec == Init /\ [][Next]_trackingVars

-----------------------------------------------------------------------------
\* With two pages open on one Application, the history is a path: it starts
\* where the Application started, every row begins in the stage and at a
\* revision not before the one the last row ended with, follows TRANSITIONS or
\* reopens a terminal stage, was decided by a user who saw that stage, and ends
\* in the stage and the outcome of the Application.
HistoryIsAPath ==
  LET begun == IF history # << >> /\ history[1].before = 0 THEN "saved" ELSE "applied"
      ends(i) == IF i = 0 THEN begun ELSE history[i].to
      since(i) == IF i = 0 THEN 0 ELSE history[i].after
  IN stageRow.revision > 0 =>
     /\ \A i \in DOMAIN history :
          /\ history[i].from = ends(i - 1) /\ history[i].shown = history[i].from
          /\ history[i].before >= since(i - 1)
          /\ \/ history[i].to \in TRANSITIONS[history[i].from]
             \/ history[i].to = "saved" /\ history[i].from \in TERMINAL_STAGES
             \/ i = 1 /\ history[i].before = 0
     /\ stageRow.stage = ends(Len(history))
     /\ stageRow.outcome = IF stageRow.stage \in TERMINAL_STAGES THEN stageRow.stage ELSE None
     /\ "applied" \in {history[i].to : i \in DOMAIN history} => stageRow.applied
=============================================================================
