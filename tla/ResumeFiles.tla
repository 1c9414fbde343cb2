----------------------------- MODULE ResumeFiles ------------------------------
(***************************************************************************)
(* The Resume library of one owner (app/resumes/service.py): Resumes, one  *)
(* of them primary, their Versions, and the uploaded files, which are kept *)
(* outside the database (app/storage/local.py).                            *)
(*                                                                         *)
(* A request is a transaction under READ COMMITTED.  Its file is written   *)
(* before its rows are committed, and the rows of other requests it read   *)
(* may have changed when it commits, except the ones it locked.            *)
(***************************************************************************)
EXTENDS Naturals, Sequences, FiniteSets

CONSTANTS
  Clients,      \* requests under way at once
  Datas,        \* the contents of uploaded files
  Unstructured, \* the ones whose text ResumeContent refuses: a section too long, or
  Unencodable,  \* text that has no UTF-8, which JobService.create refuses as well
  MaxResumes,   \* bound: Resumes in all
  MaxVersions,  \* bound: Versions of a Resume
  MaxFiles,     \* bound: files ever written
  MaxServed     \* bound: requests

VARIABLES
  resume,  \* rows of resumes with their resume_versions, the id is the index
  asset,   \* rows of file_assets, the id is the index
  disk,    \* the files under FILE_STORAGE_ROOT, the storage key is the index
  upload,  \* what the transaction of a client has read or written
  served   \* how many requests have begun

resumeVars == <<resume, asset, disk, upload, served>>

\* ResumeVersion: the asset it was imported from, 0 for one written by hand
VersionRow == [final : BOOLEAN, asset : 0..MaxFiles]
\* Resume: its active Version is a number, 0 for none
ResumeRow == [primary : BOOLEAN, archived : BOOLEAN, active : 0..MaxVersions,
              versions : Seq(VersionRow)]
\* FileAsset
AssetRow == [data : Datas, key : 1..MaxFiles, deleted : BOOLEAN]

FileState == {"temporary", "whole", "removed"}

Idle == [op |-> "idle"]

TypeOK ==
  /\ resume \in Seq(ResumeRow) /\ Len(resume) <= MaxResumes
  /\ asset \in Seq(AssetRow)
  /\ disk \in Seq(FileState) /\ Len(disk) <= MaxFiles
  /\ DOMAIN upload = Clients /\ served \in 0..MaxServed

Init ==
  /\ resume = << >> /\ asset = << >> /\ disk = << >>
  /\ upload = [c \in Clients |-> Idle]
  /\ served = 0

-----------------------------------------------------------------------------
(* What a transaction sees and locks. *)

\* ResumeRepository.active_for_update, at the time the rows are selected
ActiveResumes == {r \in DOMAIN resume : ~resume[r].archived}

\* ResumeRepository.primary
Primary == {r \in ActiveResumes : resume[r].primary}

\* ResumeRepository.duplicate_file
Duplicates(data) == {a \in DOMAIN asset : asset[a].data = data /\ ~asset[a].deleted}

\* ResumeRepository.file_is_referenced
Referenced(a) ==
  \E r \in DOMAIN resume : \E v \in DOMAIN resume[r].versions : resume[r].versions[v].asset = a

\* The row an archive request holds FOR UPDATE until it commits.
Free(c, rows) ==
  \A d \in Clients \ {c} : upload[d].op \in {"archive", "archive_all"} => upload[d].resume \notin rows

\* uq_resumes_user_primary_active, seen by a writer that clears `cleared`
PrimaryFree(cleared) == Primary \subseteq cleared

Goto(c, state) == upload' = [upload EXCEPT ![c] = state] /\ UNCHANGED served

Serve == served < MaxServed /\ served' = served + 1
Begin(c, state) == upload[c] = Idle /\ upload' = [upload EXCEPT ![c] = state] /\ Serve

\* _make_primary clears the rows selected that are still active.
Cleared(rows) ==
  [r \in DOMAIN resume |->
     IF r \in rows /\ ~resume[r].archived THEN [resume[r] EXCEPT !.primary = FALSE] ELSE resume[r]]

NewResume(primary, versions) ==
  [primary |-> primary, archived |-> FALSE, active |-> Len(versions), versions |-> versions]

-----------------------------------------------------------------------------
(* Files. *)

\* upload_file for /api/files/resume and for an import, up to the duplicate
\* check, and JobImportService.file, which does not look for a duplicate.
UploadDuplicate(c, data, goal) ==
  /\ goal \in {"keep", "import"}
  /\ \E a \in Duplicates(data) :
       Begin(c, [op |-> "filed", goal |-> goal, data |-> data, key |-> 0, asset |-> a])
  /\ UNCHANGED <<resume, asset, disk>>

\* LocalStorageProvider.write opens the temporary file ...
WriteBegin(c, data, goal) ==
  /\ Len(disk) < MaxFiles
  /\ goal # "job" => Duplicates(data) = {}
  /\ disk' = Append(disk, "temporary")
  /\ Begin(c, [op |-> "writing", goal |-> goal, data |-> data, key |-> Len(disk) + 1, asset |-> 0])
  /\ UNCHANGED <<resume, asset>>

\* ... and moves it over its key when every byte is on the disk,
WriteEnd(c) ==
  /\ upload[c].op = "writing"
  /\ disk' = [disk EXCEPT ![upload[c].key] = "whole"]
  /\ Goto(c, [upload[c] EXCEPT !.op = "filed"])
  /\ UNCHANGED <<resume, asset>>

\* or removes it.
WriteFails(c) ==
  /\ upload[c].op = "writing"
  /\ disk' = [disk EXCEPT ![upload[c].key] = "removed"]
  /\ Goto(c, Idle)
  /\ UNCHANGED <<resume, asset>>

\* The asset of the transaction, and the rows with it.
AssetOf(c) == IF upload[c].asset = 0 THEN Len(asset) + 1 ELSE upload[c].asset
WithAsset(c) ==
  IF upload[c].asset # 0 THEN asset
  ELSE Append(asset, [data |-> upload[c].data, key |-> upload[c].key, deleted |-> FALSE])

\* upload_file and JobImportService.file commit the row of the file.
FileCommit(c) ==
  /\ upload[c].op = "filed" /\ upload[c].goal \in {"keep", "job"}
  /\ upload[c].goal = "job" => upload[c].data \notin Unencodable
  /\ asset' = WithAsset(c)
  /\ Goto(c, Idle)
  /\ UNCHANGED <<resume, disk>>

\* Mutant: whatever fails is answered with a status the middleware commits.
JobFileRefusedAlways(c) ==
  /\ upload[c].op = "filed" /\ upload[c].goal = "job"
  /\ disk' = [disk EXCEPT ![upload[c].key] = "removed"]
  /\ asset' = WithAsset(c)
  /\ Goto(c, Idle)
  /\ UNCHANGED resume

\* JobImportService.file removes the file when its Job cannot be stored.  The row of the
\* file is flushed by then: an error of the database rolls it back,
JobFileFails(c) ==
  /\ upload[c].op = "filed" /\ upload[c].goal = "job"
  /\ disk' = [disk EXCEPT ![upload[c].key] = "removed"]
  /\ Goto(c, Idle)
  /\ UNCHANGED <<resume, asset>>

\* but a text that cannot be encoded is a ValueError (description_hash), which is answered
\* with 400, and the middleware commits the row without its file.
JobFileRefused(c) ==
  /\ upload[c].op = "filed" /\ upload[c].goal = "job"
  /\ upload[c].data \in Unencodable
  /\ disk' = [disk EXCEPT ![upload[c].key] = "removed"]
  /\ asset' = WithAsset(c)
  /\ Goto(c, Idle)
  /\ UNCHANGED resume

\* delete_file looks for a Version that needs the file; the file itself stays.
DeleteRead(c, a) ==
  /\ a \in DOMAIN asset /\ ~asset[a].deleted /\ ~Referenced(a)
  /\ Begin(c, [op |-> "delete", asset |-> a])
  /\ UNCHANGED <<resume, asset, disk>>

DeleteCommit(c) ==
  /\ upload[c].op = "delete"
  /\ asset' = [asset EXCEPT ![upload[c].asset].deleted = TRUE]
  /\ Goto(c, Idle)
  /\ UNCHANGED <<resume, disk>>

-----------------------------------------------------------------------------
(* Resumes. *)

\* import_resume: the rows are inserted and the active Resumes selected.  A text
\* ResumeContent refuses ends the request with 400, which the middleware
\* commits: the asset and an empty Resume stay.
ImportLock(c) ==
  /\ upload[c].op = "filed" /\ upload[c].goal = "import"
  /\ upload[c].data \notin Unstructured
  /\ Goto(c, [op |-> "import", goal |-> "import", data |-> upload[c].data, key |-> upload[c].key,
              asset |-> upload[c].asset, seen |-> ActiveResumes])
  /\ UNCHANGED <<resume, asset, disk>>

ImportRefused(c) ==
  /\ upload[c].op = "filed" /\ upload[c].goal = "import"
  /\ upload[c].data \in Unstructured /\ Len(resume) < MaxResumes
  /\ asset' = WithAsset(c)
  /\ resume' = Append(resume, NewResume(FALSE, << >>))
  /\ Goto(c, Idle)
  /\ UNCHANGED disk

ImportCommit(c) ==
  /\ upload[c].op = "import" /\ Len(resume) < MaxResumes
  /\ Free(c, upload[c].seen) /\ PrimaryFree(upload[c].seen)
  /\ asset' = WithAsset(c)
  /\ resume' = Append(Cleared(upload[c].seen),
                      NewResume(TRUE, <<[final |-> FALSE, asset |-> AssetOf(c)]>>))
  /\ Goto(c, Idle)
  /\ UNCHANGED disk

\* create looks for a primary Resume without a lock, and becomes it if there is none.
CreateRead(c) ==
  /\ Begin(c, [op |-> IF Primary = {} THEN "create_all" ELSE "create"])
  /\ UNCHANGED <<resume, asset, disk>>

CreateLock(c) ==
  /\ upload[c].op = "create_all"
  /\ Goto(c, [op |-> "create_primary", seen |-> ActiveResumes])
  /\ UNCHANGED <<resume, asset, disk>>

CreateCommit(c) ==
  /\ Len(resume) < MaxResumes
  /\ \/ /\ upload[c].op = "create"
        /\ resume' = Append(resume, NewResume(FALSE, << >>))
     \/ /\ upload[c].op = "create_primary"
        /\ Free(c, upload[c].seen) /\ PrimaryFree(upload[c].seen)
        /\ resume' = Append(Cleared(upload[c].seen), NewResume(TRUE, << >>))
  /\ Goto(c, Idle)
  /\ UNCHANGED <<asset, disk>>

\* archive locks its Resume, then, if it is the primary one, all active ones,
\* and makes one of the others primary.
ArchiveLock(c, r) ==
  /\ r \in ActiveResumes /\ Free(c, {r})
  /\ Begin(c, [op |-> "archive", resume |-> r, primary |-> resume[r].primary])
  /\ UNCHANGED <<resume, asset, disk>>

ArchiveAll(c) ==
  /\ upload[c].op = "archive" /\ upload[c].primary
  /\ Goto(c, [op |-> "archive_all", resume |-> upload[c].resume,
              seen |-> ActiveResumes \ {upload[c].resume}])
  /\ UNCHANGED <<resume, asset, disk>>

Archived(r) == [resume[r] EXCEPT !.primary = FALSE, !.archived = TRUE]

ArchiveCommit(c) ==
  /\ \/ /\ upload[c].op = "archive" /\ ~upload[c].primary
        /\ resume' = [resume EXCEPT ![upload[c].resume] = Archived(upload[c].resume)]
     \/ /\ upload[c].op = "archive_all"
        /\ Free(c, upload[c].seen)
        /\ LET r == upload[c].resume
               remaining == upload[c].seen \cap ActiveResumes
               without == [Cleared(remaining) EXCEPT ![r] = Archived(r)]
           IN \/ remaining = {} /\ resume' = without
              \/ \E next \in remaining :
                   /\ PrimaryFree(remaining \cup {r})
                   /\ resume' = [without EXCEPT ![next].primary = TRUE]
  /\ Goto(c, Idle)
  /\ UNCHANGED <<asset, disk>>

\* create_version, finalize and set_active work on the Resume they locked.
CreateVersion(r) ==
  /\ r \in ActiveResumes /\ \A c \in Clients : Free(c, {r})
  /\ Len(resume[r].versions) < MaxVersions
  /\ resume' = [resume EXCEPT
       ![r].versions = Append(@, [final |-> FALSE, asset |-> 0]),
       ![r].active = IF @ = 0 THEN Len(resume[r].versions) + 1 ELSE @]
  /\ Serve /\ UNCHANGED <<asset, disk, upload>>

Finalize(r, v) ==
  /\ r \in ActiveResumes /\ \A c \in Clients : Free(c, {r})
  /\ v \in DOMAIN resume[r].versions /\ ~resume[r].versions[v].final
  /\ resume' = [resume EXCEPT ![r].versions[v].final = TRUE, ![r].active = v]
  /\ Serve /\ UNCHANGED <<asset, disk, upload>>

SetActive(r, v) ==
  /\ r \in ActiveResumes /\ \A c \in Clients : Free(c, {r})
  /\ v \in DOMAIN resume[r].versions
  /\ resume' = [resume EXCEPT ![r].active = v]
  /\ Serve /\ UNCHANGED <<asset, disk, upload>>

\* The database fails, or the process dies: files stay as they are.
Abort(c) ==
  /\ upload[c] # Idle
  /\ Goto(c, Idle)
  /\ UNCHANGED <<resume, asset, disk>>

-----------------------------------------------------------------------------
FileStep(c) ==
  \/ \E data \in Datas, goal \in {"keep", "import", "job"} :
       UploadDuplicate(c, data, goal) \/ WriteBegin(c, data, goal)
  \/ WriteEnd(c) \/ WriteFails(c) \/ FileCommit(c)
  \/ JobFileFails(c) \/ JobFileRefused(c)
  \/ \E a \in 1..MaxFiles : DeleteRead(c, a)
  \/ DeleteCommit(c)

ResumeStep(c) ==
  \/ ImportLock(c) \/ ImportRefused(c) \/ ImportCommit(c)
  \/ CreateRead(c) \/ CreateLock(c) \/ CreateCommit(c)
  \/ \E r \in 1..MaxResumes : ArchiveLock(c, r)
  \/ ArchiveAll(c) \/ ArchiveCommit(c) \/ Abort(c)

Next ==
  \/ \E c \in Clients : FileStep(c) \/ ResumeStep(c)
  \/ \E r \in 1..MaxResumes : CreateVersion(r)
  \/ \E r \in 1..MaxResumes, v \in 1..MaxVersions : Finalize(r, v) \/ SetActive(r, v)

Spec == Init /\ [][Next]_resumeVars

-----------------------------------------------------------------------------
\* Whatever fails, and whenever the process dies: no two rows of file_assets share a
\* file, every row has its whole file on the disk, or is of a Job import that was refused
\* for its text, and an imported Version has the row it was imported from, with its whole
\* file: not even a row a refused import left, which a later upload takes for the
\* duplicate of the same file, is the source of a Version.  (Files without a row remain.)
RowsHaveFiles ==
  /\ \A a, b \in DOMAIN asset : asset[a].key = asset[b].key => a = b
  /\ \A a \in DOMAIN asset :
       /\ asset[a].key \in DOMAIN disk
       /\ \/ disk[asset[a].key] = "whole"
          \/ disk[asset[a].key] = "removed" /\ asset[a].data \in Unencodable
  /\ \A r \in DOMAIN resume : \A v \in DOMAIN resume[r].versions :
       LET a == resume[r].versions[v].asset
       IN  a # 0 => a \in DOMAIN asset /\ disk[asset[a].key] = "whole"

\* docs/V2_JOB_IMPORT_SECURITY.md, of the files of Job imports: "Parse failure rolls back
\* the database operation and removes the newly written file."
FailureRollsBack == \A a \in DOMAIN asset : disk[asset[a].key] # "removed"
=============================================================================
