---------------------------- MODULE BackupRestore -----------------------------
(***************************************************************************)
(* scripts/v2_backup_restore.py: a backup of the database, the uploaded    *)
(* files and the Project Knowledge, taken while the application writes,    *)
(* and its restore into an empty target.                                   *)
(*                                                                         *)
(* The rows are those of file_assets, one for each uploaded file, named    *)
(* after it; the sequence stands for those of the tables with a serial     *)
(* key.  The database and the files have no transaction in common.         *)
(***************************************************************************)
EXTENDS Naturals, Sequences, FiniteSets

CONSTANTS
  Files,        \* the uploads
  Targets,      \* what a restore may find: the identity, role and contents of a target
  Policies,     \* the options a restore is started with
  NoRows,       \* the contents of a database without tables
  MaxSequence,  \* bound: serial keys drawn
  MaxBackups,   \* bound: backups begun
  MaxRestores   \* bound: restores begun

VARIABLES
  row,       \* the committed rows
  file,      \* under FILE_STORAGE_ROOT, each upload by its name
  sequence,  \* last_value, which no snapshot covers
  backup,    \* the backup directories
  target,    \* the database and the directories a restore writes
  restore    \* the restore under way, or how the last one ended

sourceVars == <<row, file, sequence>>
backupVars == <<row, file, sequence, backup, target, restore>>

Roles == {"app", "restorer", "pg_database_owner"}
Nothing == [rows |-> NoRows, sequence |-> 0]
Parts == {"postgres.dump", "files.tar.gz", "PROJECT_KNOWLEDGE.md", "manifest.json"}

\* What somebody else may have in a target: in public a table or a sequence, a function, a
\* domain or an enumeration; a view or a foreign table; a composite type; or a schema.
ForeignKinds == {"relation", "function", "view", "type", "schema"}

\* What _database_inventory does not read
Unlisted == {"view", "type", "schema"}

TypeOK ==
  /\ row \subseteq Files
  /\ file \in [Files -> {"none", "temporary", "whole"}]
  /\ sequence \in 0..MaxSequence
  /\ Len(backup) <= MaxBackups
  /\ \A b \in DOMAIN backup :
       /\ backup[b].present \subseteq Parts /\ backup[b].damaged \subseteq Parts
       /\ backup[b].tar \subseteq Files
       /\ backup[b].stage = "complete" => backup[b].present \cup backup[b].damaged = Parts
  /\ target.owner \in Roles /\ target.schemaOwner \in Roles
  /\ target.foreign \in ForeignKinds \cup {"none"}
  /\ restore.attempts \in 0..MaxRestores

Init ==
  /\ row = {} /\ file = [f \in Files |-> "none"] /\ sequence = 0
  /\ backup = << >>
  /\ target \in Targets
  /\ restore = [stage |-> "idle", backup |-> 0, attempts |-> 0]

-----------------------------------------------------------------------------
(* The application, which does not stop for a backup. *)

\* LocalStorageProvider.write opens a temporary file; so does the readiness probe.
WriteBegin(f) ==
  /\ file[f] = "none"
  /\ file' = [file EXCEPT ![f] = "temporary"]
  /\ UNCHANGED <<row, sequence>>

WriteEnd(f) ==
  /\ file[f] = "temporary"
  /\ file' = [file EXCEPT ![f] = "whole"]
  /\ UNCHANGED <<row, sequence>>

\* The upload fails, or JobImportService.file cannot store its Job.
WriteUndone(f) ==
  /\ file[f] # "none" /\ f \notin row
  /\ file' = [file EXCEPT ![f] = "none"]
  /\ UNCHANGED <<row, sequence>>

\* upload_file commits the row of the file.
RowCommit(f) ==
  /\ file[f] = "whole" /\ f \notin row
  /\ row' = row \cup {f}
  /\ UNCHANGED <<file, sequence>>

\* A row of a table with a serial key is inserted, whether or not it is committed.
DrawKey ==
  /\ sequence < MaxSequence
  /\ sequence' = sequence + 1
  /\ UNCHANGED <<row, file>>

Application ==
  /\ \/ \E f \in Files : WriteBegin(f) \/ WriteEnd(f) \/ WriteUndone(f) \/ RowCommit(f)
     \/ DrawKey
  /\ UNCHANGED <<backup, target, restore>>

-----------------------------------------------------------------------------
(* create_backup *)

At(b, stage) == b \in DOMAIN backup /\ backup[b].stage = stage
Underway(b) == backup[b].stage \notin {"complete", "incomplete", "removed"}
Becomes(b, directory) == backup' = [backup EXCEPT ![b] = directory]

\* postgres_preflight and the disk have been checked; the directory is hidden.
BackupBegin ==
  /\ Len(backup) < MaxBackups
  /\ backup' = Append(backup,
       [stage |-> "begun", snapshot |-> {}, inventory |-> Nothing, dump |-> Nothing,
        named |-> TRUE, listed |-> {}, tar |-> {}, present |-> {}, damaged |-> {}])

\* SET TRANSACTION ISOLATION LEVEL REPEATABLE READ, pg_export_snapshot
Snapshot(b) ==
  /\ At(b, "begun")
  /\ Becomes(b, [backup[b] EXCEPT !.stage = "snapshot", !.snapshot = row])

\* _database_inventory: the rows of the snapshot, the sequences as they stand;
\* a table, an index or a validated key that is missing ends it (BackupFails).
InventoryRows(b) == backup[b].snapshot
InventorySequences == sequence

DatabaseInventory(b) ==
  /\ At(b, "snapshot")
  /\ Becomes(b, [backup[b] EXCEPT !.stage = "inventory",
                   !.inventory = [rows |-> InventoryRows(b), sequence |-> InventorySequences]])

\* Mutant: pg_dump without --snapshot.
PgDumpUnsynchronized(b) ==
  /\ At(b, "inventory")
  /\ \E named \in BOOLEAN :
       Becomes(b, [backup[b] EXCEPT !.stage = "dumped", !.named = named,
                     !.dump = [rows |-> row, sequence |-> sequence],
                     !.present = {"postgres.dump"}])

\* pg_dump --snapshot reads the sequences later; its archive may name the schema.
PgDump(b) ==
  /\ At(b, "inventory")
  /\ \E named \in BOOLEAN :
       Becomes(b, [backup[b] EXCEPT !.stage = "dumped", !.named = named,
                     !.dump = [rows |-> backup[b].snapshot, sequence |-> sequence],
                     !.present = {"postgres.dump"}])

\* safe_files: the path of a temporary file is another one than that of the whole.
Listing == {<<f, file[f]>> : f \in {g \in Files : file[g] # "none"}}

SafeFiles(b) ==
  /\ At(b, "dumped")
  /\ Becomes(b, [backup[b] EXCEPT !.stage = "listed", !.listed = Listing])

\* tarfile.add of one path, which must still be there.
AddFile(b, path) ==
  /\ At(b, "listed") /\ path \in backup[b].listed
  /\ file[path[1]] = path[2]
  /\ Becomes(b, [backup[b] EXCEPT !.listed = @ \ {path},
                   !.tar = IF path[2] = "whole" THEN @ \cup {path[1]} ELSE @])

\* The knowledge is copied and the manifest written, then the directory renamed.
Manifest(b) ==
  /\ At(b, "listed") /\ backup[b].listed = {}
  /\ Becomes(b, [backup[b] EXCEPT !.stage = "manifest", !.present = Parts])

\* Mutant: the directory is renamed before its manifest is written.
PublishUnwritten(b) ==
  /\ At(b, "listed")
  /\ Becomes(b, [backup[b] EXCEPT !.stage = "complete"])

Publish(b) ==
  /\ At(b, "manifest")
  /\ Becomes(b, [backup[b] EXCEPT !.stage = "complete"])

\* Any exception, a listed path that is gone among them, removes the directory.
BackupFails(b) ==
  /\ b \in DOMAIN backup /\ Underway(b)
  /\ Becomes(b, [backup[b] EXCEPT !.stage = "removed", !.present = {}])

\* The process dies, and leaves what it wrote.
BackupDies(b) ==
  /\ b \in DOMAIN backup /\ Underway(b)
  /\ Becomes(b, [backup[b] EXCEPT !.stage = "incomplete"])

\* A part of a directory is lost or changes; not while a restore relies on it
\* after the check of its digest.
Damage(b, part) ==
  /\ At(b, "complete") /\ part \in backup[b].present
  /\ part # "postgres.dump" => restore.backup # b
  /\ Becomes(b, [backup[b] EXCEPT !.present = @ \ {part}, !.damaged = @ \cup {part}])

Backup ==
  /\ \/ BackupBegin
     \/ \E b \in 1..MaxBackups :
          \/ Snapshot(b) \/ DatabaseInventory(b) \/ PgDump(b) \/ SafeFiles(b)
          \/ \E path \in Files \X {"temporary", "whole"} : AddFile(b, path)
          \/ Manifest(b) \/ Publish(b) \/ BackupFails(b) \/ BackupDies(b)
          \/ \E part \in Parts : Damage(b, part)
  /\ UNCHANGED <<sourceVars, target, restore>>

-----------------------------------------------------------------------------
(* restore_backup *)

Chosen == backup[restore.backup]
Policy == restore.policy
Stage(from, to) == restore.stage = from /\ restore' = [restore EXCEPT !.stage = to]
Fails == restore' = [restore EXCEPT !.stage = "failed", !.backup = 0]

\* _validate_manifest: complete, consistent with itself, and under its own digest
ManifestValid(b) == "manifest.json" \in backup[b].present

\* verify_backup: the exact file set, a valid manifest, every digest.  A
\* directory that was never renamed passes if it is whole.
Verifiable(b) == ManifestValid(b) /\ backup[b].present = Parts

RestoreBegin(b, policy) ==
  /\ restore.stage \in {"idle", "failed"} /\ restore.attempts < MaxRestores
  /\ b \in DOMAIN backup /\ ~Underway(b) /\ Verifiable(b)
  /\ policy.initialize => policy.disposable
  /\ restore' = [stage |-> "verified", backup |-> b, attempts |-> restore.attempts + 1,
                 policy |-> policy]
  /\ UNCHANGED target

\* database_is_empty looks at the relations of public only.
DatabaseIsEmpty == target.rows = NoRows /\ target.foreign \notin {"relation", "view"}

CheckTarget ==
  /\ Stage("verified", "checked")
  /\ DatabaseIsEmpty /\ target.files = {} /\ ~target.knowledge
  /\ UNCHANGED target

\* _restore_target_structure: objects of every kind, and schemas
ObjectsRemain == target.rows # NoRows \/ target.foreign # "none"
PublicHolds == target.rows # NoRows \/ target.foreign \notin {"none", "schema"}

\* validate_disposable_target_identity: project, database and volume of one run
Disposable == target.identity = "right"

\* target_public_schema_drop_required
Collision == target.public /\ Chosen.named

\* prepare_restore_target: what is there stops it, unless it is an empty
\* schema in a target that is named as disposable.
Prepare ==
  /\ restore.stage = "checked"
  /\ Policy.disposable => target.identity # "none"
  /\ ~ObjectsRemain
  /\ Collision => Policy.disposable /\ Disposable
  /\ restore' = [restore EXCEPT !.stage = IF Collision THEN "dropping" ELSE "prepared"]
  /\ UNCHANGED target

\* Mutant: DROP SCHEMA public CASCADE.
DropPublicCascade ==
  /\ Stage("dropping", "prepared")
  /\ target' = [target EXCEPT !.public = FALSE, !.rows = NoRows, !.foreign = "none"]

\* DROP SCHEMA public RESTRICT, after which nothing may be left
DropPublic ==
  /\ restore.stage = "dropping" /\ ~PublicHolds
  /\ target' = [target EXCEPT !.public = FALSE]
  /\ IF ObjectsRemain THEN Fails ELSE Stage("dropping", "prepared")

\* initialize_disposable_public_schema
Initialize ==
  /\ Stage("prepared", "initialized")
  /\ Policy.initialize
  /\ "pg_database_owner" \notin DOMAIN Policy.mapping /\ Chosen.named
  /\ Disposable /\ ~target.public /\ ~ObjectsRemain
  /\ target' = [target EXCEPT !.public = TRUE, !.schemaOwner = "pg_database_owner"]

\* pg_restore --single-transaction --no-owner: nothing or all of the archive,
\* the objects owned by the role that restores.  The archive may have changed
\* since its digest was checked.
PgRestore ==
  /\ restore.stage \in {"prepared", "initialized"}
  /\ Policy.initialize <=> restore.stage = "initialized"
  /\ target.rows = NoRows
  /\ IF Policy.initialize \/ ~Chosen.named THEN target.public ELSE ~target.public
  /\ restore' = [restore EXCEPT !.stage = "restored"]
  /\ \E rows \in IF "postgres.dump" \in Chosen.damaged THEN SUBSET Files ELSE {Chosen.dump.rows} :
       target' = [target EXCEPT
         !.rows = rows, !.sequence = Chosen.dump.sequence, !.public = TRUE,
         !.owner = target.login,
         !.schemaOwner = IF target.public THEN @ ELSE target.login]

Mapped(role) == IF role \in DOMAIN Policy.mapping THEN Policy.mapping[role] ELSE role

\* compare_database_inventories: nothing missing, nothing extra that is listed, no value
\* but the ones a policy explains
InventoryMatches(inventory) ==
  /\ target.rows = inventory.rows /\ target.sequence = inventory.sequence
  /\ target.foreign \in Unlisted \cup {"none"}
  /\ target.owner = Mapped("app") /\ target.schemaOwner = Mapped("pg_database_owner")
  /\ target.renamed => Policy.renamed

\* A mismatch is an error, and the restored database stays.
Compare ==
  /\ Stage("restored", "compared")
  /\ InventoryMatches(Chosen.inventory)
  /\ UNCHANGED target

\* The files are extracted one after another, the knowledge last.
Extract(f) ==
  /\ restore.stage = "compared" /\ f \in Chosen.tar \ target.files
  /\ target' = [target EXCEPT !.files = @ \cup {f}]
  /\ UNCHANGED restore

RestoreKnowledge ==
  /\ Stage("compared", "done")
  /\ Chosen.tar \subseteq target.files
  /\ target' = [target EXCEPT !.knowledge = TRUE]

\* A check fails, a tool ends with an error or the process dies.
RestoreFails ==
  /\ restore.stage \notin {"idle", "failed", "done"}
  /\ Fails
  /\ UNCHANGED target

Restore ==
  /\ \/ \E b \in 1..MaxBackups, policy \in Policies : RestoreBegin(b, policy)
     \/ CheckTarget \/ Prepare \/ DropPublic \/ Initialize \/ PgRestore \/ Compare
     \/ \E f \in Files : Extract(f)
     \/ RestoreKnowledge \/ RestoreFails
  /\ UNCHANGED <<sourceVars, backup>>

\* Another client of the target creates an object until its rows are compared.
Intrude(kind) ==
  /\ target.public \/ kind = "schema"
  /\ target.foreign = "none" /\ restore.stage \notin {"compared", "done"}
  /\ target' = [target EXCEPT !.foreign = kind]
  /\ UNCHANGED <<sourceVars, backup, restore>>

Next == Application \/ Backup \/ Restore \/ \E kind \in ForeignKinds : Intrude(kind)

Spec == Init /\ [][Next]_backupVars

-----------------------------------------------------------------------------
\* Whatever the application writes meanwhile, a complete backup can be restored
\* without a gap: the archive and the manifest hold the rows of one moment, and
\* the file of every one of these rows is in the archive of the files.
BackupHasItsFiles ==
  \A b \in DOMAIN backup :
    backup[b].stage = "complete" =>
      /\ backup[b].dump.rows = backup[b].inventory.rows
      /\ backup[b].dump.rows \subseteq backup[b].tar

\* A restore that ends without an error has restored the rows and sequences of
\* the manifest and the file of every row, even if the archive changed after the
\* check of its digest, and found no table, sequence, index, function, domain or
\* enumeration of somebody else's among them.  A view, a foreign table, a
\* composite type or a schema that appears after the checks is not looked for,
\* and nothing is that appears after the comparison, where Intrude stops.
RestoredWhole ==
  restore.stage = "done" =>
    /\ target.rows = Chosen.inventory.rows /\ target.sequence = Chosen.inventory.sequence
    /\ target.rows \subseteq target.files /\ target.knowledge
    /\ target.foreign \in Unlisted \cup {"none"}

\* Neither a backup nor a restore that ended well is half.
BackupsAreWhole == BackupHasItsFiles /\ RestoredWhole

\* A restore never destroys what it did not create: an object that appears in
\* the target after the checks stays, and restored rows are not restored over.
TargetKept ==
  [][/\ target.foreign # "none" => target'.foreign = target.foreign
     /\ target.rows # NoRows => target'.rows = target.rows]_backupVars

\* docs/V2_BACKUP_AND_RESTORE.md: "the archive, row counts, and aggregate
\* checksums describe the same database state".
ArchiveMatchesManifest ==
  \A b \in DOMAIN backup : backup[b].stage = "complete" => backup[b].dump = backup[b].inventory
=============================================================================
