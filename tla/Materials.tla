------------------------------ MODULE Materials ------------------------------
(***************************************************************************)
(* Application Packages and their Materials (app/materials/service.py): a  *)
(* Package collects Materials, a Material has numbered Versions of which   *)
(* one is active, a Version is validated claim by claim, reviewed and      *)
(* finalized, and a Package with an accepted Resume and Cover Letter is    *)
(* approved.                                                               *)
(*                                                                         *)
(* A request is a transaction under READ COMMITTED.  An operation that     *)
(* reads a row before it locks it, or never locks it, has a read step that *)
(* keeps what it saw in tx[c] and a commit step that uses it; the ORM      *)
(* writes a column only when its value differs from the one it loaded.  An *)
(* operation that works on rows it locked first is one step.  The content  *)
(* of a Version is one claim and how it is supported.                      *)
(***************************************************************************)
EXTENDS Naturals, Sequences, FiniteSets, FiniteSetsExt

CONSTANTS
  Clients,        \* requests and Agent workers under way at once
  Packages,       \* the Packages of one Application
  Required,       \* the types of Material an approved Package must have
  MaxMaterials,   \* bound: Materials in all
  MaxVersions,    \* bound: Versions in all
  MaxRevision,    \* bound: revisions of a Package
  MaxRequests     \* bound: transactions that read before they write

ASSUME MaterialsAssumption ==
  /\ "application_answer" \notin Required
  /\ MaxMaterials \in Nat /\ MaxVersions \in Nat /\ MaxRequests \in Nat
  /\ MaxRevision \in Nat \ {0}

VARIABLES
  package,    \* rows of application_packages
  material,   \* rows of application_materials, the id is the index
  version,    \* rows of application_material_versions, the id is the index
  approvals,  \* rows of material_reviews that approve, by the Version they name
  tx,         \* what the transaction of a client has read or inserted
  requests    \* how many such transactions have begun

vars == <<package, material, version, approvals, tx, requests>>

Types == Required \cup {"application_answer"}

\* ApplicationPackage
PackageRow == [status : {"absent", "draft", "approved", "archived"},
               revision : 0..MaxRevision]

\* ApplicationMaterial
MaterialRow == [package : Packages, type : Types,
                status : {"draft", "in_review", "approved"},
                active : 0..MaxVersions]

\* ApplicationMaterialVersion
VersionRow == [material : 1..MaxMaterials, number : 1..MaxVersions,
               validation : {"valid", "invalid", "needs_user_input"},
               claim : {"supported", "unsupported", "user_confirmed"},
               finalized : BOOLEAN]

Idle == [op |-> "idle"]

TypeOK ==
  /\ package \in [Packages -> PackageRow]
  /\ material \in Seq(MaterialRow) /\ Len(material) <= MaxMaterials
  /\ version \in Seq(VersionRow) /\ Len(version) <= MaxVersions
  /\ approvals \subseteq DOMAIN version
  /\ DOMAIN tx = Clients
  /\ requests \in 0..MaxRequests

Init ==
  /\ package = [p \in Packages |-> [status |-> "absent", revision |-> 0]]
  /\ material = << >>
  /\ version = << >>
  /\ approvals = {}
  /\ tx = [c \in Clients |-> Idle]
  /\ requests = 0

-----------------------------------------------------------------------------
(* Reading the tables. *)

VersionsOf(m) == {v \in DOMAIN version : version[v].material = m}

\* next_version
NextVersion(m) == Max({0} \cup {version[v].number : v \in VersionsOf(m)}) + 1

\* reusable_material: the newest Material of the type; none is ever archived
Newest(p, type) ==
  LET same == {m \in DOMAIN material : material[m].package = p /\ material[m].type = type}
  IN IF same = {} THEN 0 ELSE CHOOSE m \in same : \A n \in same : n <= m

\* validation_summary over the one claim of a Version
Summary(claim) == IF claim = "unsupported" THEN "invalid" ELSE "valid"

\* validate_claims never finds a claim user_confirmed: it starts from the text
\* and the evidence sources, of which the Job's row may have been edited.
Validated == {"supported", "unsupported"}

\* A row lock on a Package is held from the read to the commit of an approval.
PackageFree(p) == \A c \in Clients : tx[c].op = "approve" => tx[c].package # p

\* An inserted Version holds a share lock on its Material (the foreign key), so
\* FOR UPDATE of the Material waits for the inserting transaction.
MaterialFree(m) == \A c \in Clients : tx[c].op = "inserted" => tx[c].material # m

\* Mutant: the unique key does not exist.
NumberNeverTaken(m, n) == FALSE

\* The unique key (material_id, version_number).
NumberTaken(m, n) == \E v \in VersionsOf(m) : version[v].number = n

\* The column of an ORM object: written only when it changed since it was read.
Write(current, seen, new) == IF new = seen THEN current ELSE new

\* Client c begins a transaction and keeps what it read.
Begin(c, seen) ==
  /\ tx[c] = Idle /\ requests < MaxRequests
  /\ tx' = [tx EXCEPT ![c] = seen]
  /\ requests' = requests + 1
  /\ UNCHANGED <<package, material, version, approvals>>

Bounded == Len(material) < MaxMaterials /\ Len(version) < MaxVersions

-----------------------------------------------------------------------------
(* Packages. *)

CreatePackage(p) ==
  /\ package[p].status = "absent"
  /\ package' = [package EXCEPT ![p] = [status |-> "draft", revision |-> 1]]
  /\ UNCHANGED <<material, version, approvals, tx, requests>>

\* update_package with the current revision; a stale one changes nothing.
UpdatePackage(p) ==
  /\ package[p].status = "draft" /\ PackageFree(p)
  /\ package[p].revision < MaxRevision
  /\ package' = [package EXCEPT ![p].revision = @ + 1]
  /\ UNCHANGED <<material, version, approvals, tx, requests>>

ArchivePackage(p) ==
  /\ package[p].status # "absent" /\ PackageFree(p)
  /\ package[p].revision < MaxRevision
  /\ package' = [package EXCEPT ![p].status = "archived", ![p].revision = @ + 1]
  /\ UNCHANGED <<material, version, approvals, tx, requests>>

\* approve_package locks the Package, not its Materials; whether the Package is
\* archived or approved already is not asked.
ApproveRead(c, p) ==
  /\ package[p].status # "absent" /\ PackageFree(p)
  /\ package[p].revision < MaxRevision
  /\ Begin(c,
       [op |-> "approve", package |-> p,
        listed |-> {material[m].active : m \in
                      {n \in DOMAIN material :
                         /\ material[n].package = p /\ material[n].type \in Required
                         /\ material[n].status = "approved"}}])

\* Mutant: a valid Version is enough.
ValidIsEnough(v) == version[v].validation = "valid"

\* An active Version that approve_package accepts for the type of its Material.
Acceptable(v) == version[v].finalized /\ version[v].validation = "valid"

\* uq_application_packages_approved
AnotherApproved(p) == \E q \in Packages \ {p} : package[q].status = "approved"

ApproveCommit(c) ==
  /\ tx[c].op = "approve"
  /\ LET p == tx[c].package
         accepted == {material[version[v].material].type :
                        v \in {w \in tx[c].listed : Acceptable(w)}}
     IN IF accepted = Required /\ ~AnotherApproved(p)
        THEN package' = [package EXCEPT ![p].status = "approved", ![p].revision = @ + 1]
        ELSE UNCHANGED package
  /\ tx' = [tx EXCEPT ![c] = Idle]
  /\ UNCHANGED <<material, version, approvals, requests>>

-----------------------------------------------------------------------------
(* Versions: generation, edit, validation, confirmation. *)

\* generate_resume, generate_cover_letter up to _material_for_generation: the
\* Material to extend, or 0 for a new one; an approved one is refused.
GenerateRead(c, p, type) ==
  /\ package[p].status # "absent"
  /\ \E m \in {0, Newest(p, type)} :
       /\ m # 0 => material[m].status # "approved"
       /\ Begin(c,
            [op |-> "generate", package |-> p, type |-> type, material |-> m,
             status |-> IF m = 0 THEN "draft" ELSE material[m].status])

\* _create_version numbers and inserts the Version; others do not see it yet.
GenerateInsert(c) ==
  /\ tx[c].op = "generate"
  /\ tx' = [tx EXCEPT ![c] =
       [op |-> "inserted", package |-> tx[c].package, type |-> tx[c].type,
        material |-> tx[c].material, status |-> tx[c].status,
        number |-> IF tx[c].material = 0 THEN 1 ELSE NextVersion(tx[c].material)]]
  /\ UNCHANGED <<package, material, version, approvals, requests>>

\* The row _create_version and _validate_version leave.
NewVersion(m, n, claim) ==
  [material |-> m, number |-> n, validation |-> Summary(claim), claim |-> claim,
   finalized |-> FALSE]

Extend(m, n, claim, status) ==
  /\ version' = Append(version, NewVersion(m, n, claim))
  /\ material' = [material EXCEPT ![m].active = Len(version) + 1, ![m].status = status]

\* The commit fails when the number was taken meanwhile.
GenerateCommit(c) ==
  /\ tx[c].op = "inserted" /\ Len(version) < MaxVersions
  /\ LET m == tx[c].material IN
       \E claim \in Validated :
         \/ /\ m = 0 /\ Len(material) < MaxMaterials
            /\ version' = Append(version, NewVersion(Len(material) + 1, 1, claim))
            /\ material' = Append(material, [package |-> tx[c].package, type |-> tx[c].type,
                                             status |-> "draft", active |-> Len(version) + 1])
         \/ /\ m # 0 /\ ~NumberTaken(m, tx[c].number)
            /\ Extend(m, tx[c].number, claim, Write(material[m].status, tx[c].status, "draft"))
  /\ tx' = [tx EXCEPT ![c] = Idle]
  /\ UNCHANGED <<package, approvals, requests>>

\* A conflict, a failed generation, a broken constraint: the transaction is
\* rolled back, or commits nothing because nothing was written yet.
GiveUp(c) ==
  /\ tx[c].op \in {"generate", "inserted"}
  /\ tx' = [tx EXCEPT ![c] = Idle]
  /\ UNCHANGED <<package, material, version, approvals, requests>>

\* generate_answers: a Material of its own for every question.
GenerateAnswer(p) ==
  /\ package[p].status # "absent" /\ Bounded
  /\ \E claim \in Validated, asks \in BOOLEAN :
       version' = Append(version,
         [NewVersion(Len(material) + 1, 1, claim) EXCEPT
            !.validation = IF asks THEN "needs_user_input" ELSE @])
  /\ material' = Append(material, [package |-> p, type |-> "application_answer",
                                   status |-> "draft", active |-> Len(version) + 1])
  /\ UNCHANGED <<package, approvals, tx, requests>>

\* edit locks the Material and compares its active Version.
Edit(m) ==
  /\ material[m].active # 0 /\ MaterialFree(m) /\ Len(version) < MaxVersions
  /\ \E claim \in Validated : Extend(m, NextVersion(m), claim, "draft")
  /\ UNCHANGED <<package, approvals, tx, requests>>

\* validate, the user's or the workflow's: any Version, no lock.
ValidateRead(c, v) ==
  Begin(c, [op |-> "validate", version |-> v, seen |-> version[v].validation])

\* The links are deleted and made anew: a confirmation under way, which names
\* one of the old links, finds it no more.
ValidateCommit(c) ==
  /\ tx[c].op = "validate"
  /\ LET v == tx[c].version IN
       /\ \E claim \in Validated :
            version' = [version EXCEPT ![v].claim = claim,
                          ![v].validation = Write(@, tx[c].seen, Summary(claim))]
       /\ tx' = [d \in Clients |->
            IF d = c \/ (tx[d].op = "confirm" /\ tx[d].version = v) THEN Idle ELSE tx[d]]
  /\ UNCHANGED <<package, material, approvals, requests>>

\* confirm_evidence: only an unresolved claim of a Version not yet finalized.
ConfirmRead(c, v) ==
  /\ ~version[v].finalized /\ version[v].claim = "unsupported"
  /\ Begin(c, [op |-> "confirm", version |-> v, seen |-> version[v].validation])

ConfirmCommit(c) ==
  /\ tx[c].op = "confirm"
  /\ LET v == tx[c].version IN
       version' = [version EXCEPT ![v].claim = "user_confirmed",
                     ![v].validation = Write(@, tx[c].seen, Summary("user_confirmed"))]
  /\ tx' = [tx EXCEPT ![c] = Idle]
  /\ UNCHANGED <<package, material, approvals, requests>>

-----------------------------------------------------------------------------
(* Review and finalization. *)

\* Both read the Version first and lock the Material then; a Version that was
\* not valid when it was read is refused, and nothing is written.
JudgeRead(c, v, op) ==
  /\ version[v].validation = "valid"
  /\ Begin(c, [op |-> op, version |-> v])

\* review with "approve": any Version of the Material may be named, the status
\* that changes is the Material's.
ReviewRead(c, v) == JudgeRead(c, v, "review")

ReviewCommit(c) ==
  /\ tx[c].op = "review"
  /\ LET v == tx[c].version
         m == version[v].material
     IN /\ MaterialFree(m)
        /\ material' = [material EXCEPT ![m].status = "approved"]
        /\ approvals' = approvals \cup {v}
  /\ tx' = [tx EXCEPT ![c] = Idle]
  /\ UNCHANGED <<package, version, requests>>

\* review with "request_changes" or "reject".
SendBack(m) ==
  /\ MaterialFree(m)
  /\ \E status \in {"in_review", "draft"} :
       material' = [material EXCEPT ![m].status = status]
  /\ UNCHANGED <<package, version, approvals, tx, requests>>

FinalizeRead(c, v) == JudgeRead(c, v, "finalize")

FinalizeCommit(c) ==
  /\ tx[c].op = "finalize"
  /\ LET v == tx[c].version
         m == version[v].material
     IN /\ MaterialFree(m)
        /\ version' = IF material[m].active = v /\ material[m].status = "approved"
                      THEN [version EXCEPT ![v].finalized = TRUE] ELSE version
  /\ tx' = [tx EXCEPT ![c] = Idle]
  /\ UNCHANGED <<package, material, approvals, requests>>

\* _apply_approval_side_effects of a resume_draft or cover_letter_draft: the
\* newest Material and its active Version, read before review() locks the row.
DecideRead(c, p, type) ==
  LET m == Newest(p, type)
      v == material[m].active
  IN /\ m # 0 /\ v # 0
     /\ version[v].validation = "valid"
     /\ Begin(c, [op |-> "decide", version |-> v, status |-> material[m].status])

\* review() and finalize() on the objects already loaded: the lock does not
\* read them again, so the Version that was active is finalized.
DecideCommit(c) ==
  /\ tx[c].op = "decide"
  /\ LET v == tx[c].version
         m == version[v].material
     IN /\ MaterialFree(m)
        /\ material' = [material EXCEPT ![m].status = Write(@, tx[c].status, "approved")]
        /\ version' = [version EXCEPT ![v].finalized = TRUE]
        /\ approvals' = approvals \cup {v}
  /\ tx' = [tx EXCEPT ![c] = Idle]
  /\ UNCHANGED <<package, requests>>

-----------------------------------------------------------------------------
PackageStep == \E p \in Packages :
  \/ CreatePackage(p) \/ UpdatePackage(p) \/ ArchivePackage(p) \/ GenerateAnswer(p)

StartStep == \E c \in Clients :
  \/ \E p \in Packages : ApproveRead(c, p)
  \/ \E p \in Packages, type \in Required : GenerateRead(c, p, type)
  \/ \E p \in Packages, type \in Required : DecideRead(c, p, type)
  \/ \E v \in DOMAIN version : ValidateRead(c, v)
  \/ \E v \in DOMAIN version : ConfirmRead(c, v)
  \/ \E v \in DOMAIN version : ReviewRead(c, v)
  \/ \E v \in DOMAIN version : FinalizeRead(c, v)

CommitStep == \E c \in Clients :
  \/ ApproveCommit(c) \/ GenerateInsert(c) \/ GenerateCommit(c) \/ GiveUp(c)
  \/ ValidateCommit(c) \/ ConfirmCommit(c)
  \/ ReviewCommit(c) \/ FinalizeCommit(c) \/ DecideCommit(c)

MaterialStep == \E m \in DOMAIN material : Edit(m) \/ SendBack(m)

Next == PackageStep \/ StartStep \/ CommitStep \/ MaterialStep

Spec == Init /\ [][Next]_vars

-----------------------------------------------------------------------------
(* Whatever requests and workers interleave, the Versions of a Material are *)
(* numbered 1, 2, 3, ... and the active one is the last: two generations    *)
(* that read the same maximum, or an edit between the read and the commit   *)
(* of a generation, never leave an older Version active or a number twice.  *)
ActiveIsLatest ==
  \A m \in DOMAIN material :
    /\ {version[v].number : v \in VersionsOf(m)} = 1..Cardinality(VersionsOf(m))
    /\ material[m].active \in VersionsOf(m)
    /\ version[material[m].active].number = Cardinality(VersionsOf(m))

\* What approval stands on, for good: a finalized Version belongs to a Material
\* that a review approved, and an approved Package has a finalized Version of
\* every required type, however its Materials were edited or validated again
\* since, and whatever was committed between the checks and the approval.
ApprovalHasBasis ==
  /\ \A v \in DOMAIN version : version[v].finalized =>
       \E r \in approvals : version[r].material = version[v].material
  /\ \A p \in Packages : package[p].status = "approved" =>
       \A type \in Required : \E v \in DOMAIN version :
         /\ version[v].finalized
         /\ material[version[v].material].type = type
         /\ material[version[v].material].package = p

\* docs/V2_FACT_GROUNDING.md requires an explicit review approval of what is
\* finalized.  It does not hold: review() takes any Version of the Material and
\* sets the Material's status, finalize() asks for that status and the active
\* Version, so a Version nobody reviewed is finalized after an older one was.
FinalizedWasReviewed ==
  \A v \in DOMAIN version : version[v].finalized => v \in approvals
=============================================================================
