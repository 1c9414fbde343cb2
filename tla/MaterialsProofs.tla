---------------------------- MODULE MaterialsProofs ----------------------------
(***************************************************************************)
(* The theorems about Materials: whatever transactions interleave, the     *)
(* active Version of a Material is its last one, and what was finalized or *)
(* approved has the reviews and Versions it stands on.                     *)
(*                                                                         *)
(* Neither is inductive.  The number of a Version that is inserted and not *)
(* committed is at most one above the last, so the unique key lets it in   *)
(* only behind the last; a Material is approved by a review of one of its  *)
(* Versions; and what an approval listed under the lock of its Package     *)
(* belongs to that Package.  Finalized Versions and reviews never go, so   *)
(* what was seen before a commit still holds at it.                        *)
(***************************************************************************)
EXTENDS Materials, FiniteSetTheorems, WellFoundedInduction, SequenceTheorems, TLAPS

Statuses == {"draft", "in_review", "approved"}
Validations == {"valid", "invalid", "needs_user_input"}

\* The number of the active Version
Top(m) == version[material[m].active].number

Owned == \A v \in DOMAIN version : version[v].material \in DOMAIN material

\* ActiveIsLatest without counting
Latest ==
  \A m \in DOMAIN material :
    /\ material[m].active \in VersionsOf(m)
    /\ \A v \in VersionsOf(m) : version[v].number \in 1 .. Top(m)
    /\ \A n \in 1 .. Top(m) : \E v \in VersionsOf(m) : version[v].number = n
    /\ \A v, w \in VersionsOf(m) : version[v].number = version[w].number => v = w

Reviewed ==
  \A m \in DOMAIN material : material[m].status = "approved" =>
    \E r \in approvals : version[r].material = m

Finals ==
  \A v \in DOMAIN version : version[v].finalized =>
    \E r \in approvals : version[r].material = version[v].material

Shelves ==
  /\ material \in Seq(MaterialRow) /\ Len(material) <= MaxMaterials
  /\ version \in Seq(VersionRow) /\ Len(version) <= MaxVersions
  /\ approvals \subseteq DOMAIN version
  /\ Owned /\ Latest /\ Reviewed /\ Finals

\* What a transaction under way has read or inserted, t, is of rows that exist.
Seen(t) ==
  /\ t.op \in {"generate", "inserted"} =>
       /\ t.package \in Packages /\ t.type \in Required
       /\ t.material \in 0 .. Len(material) /\ t.status \in Statuses
  /\ t.op = "inserted" =>
       IF t.material = 0 THEN t.number = 1 ELSE t.number \in 1 .. (Top(t.material) + 1)
  /\ t.op \in {"validate", "confirm", "review", "finalize", "decide"} =>
       t.version \in DOMAIN version
  /\ t.op \in {"validate", "confirm"} => t.seen \in Validations
  /\ t.op = "decide" => t.status \in Statuses
  /\ t.op = "approve" =>
       /\ t.package \in Packages
       /\ \A v \in t.listed : /\ v \in DOMAIN version
                              /\ material[version[v].material].package = t.package

\* The Package an approval has locked is as it was read.
Held(t) ==
  t.op = "approve" => /\ package[t.package].status # "absent"
                      /\ package[t.package].revision < MaxRevision

Underway == \A c \in Clients : Seen(tx[c]) /\ Held(tx[c])

\* An approval holds the lock of its Package.
Locks ==
  \A c, d \in Clients :
    tx[c].op = "approve" /\ tx[d].op = "approve" /\ tx[c].package = tx[d].package => c = d

Basis ==
  \A p \in Packages : package[p].status = "approved" =>
    \A type \in Required : \E v \in DOMAIN version :
      /\ version[v].finalized
      /\ material[version[v].material].type = type
      /\ material[version[v].material].package = p

MaterialsInv ==
  /\ package \in [Packages -> PackageRow] /\ DOMAIN tx = Clients
  /\ requests \in 0 .. MaxRequests
  /\ Shelves /\ Underway /\ Locks /\ Basis

-----------------------------------------------------------------------------
(* Numbers *)

\* A row of a sequence is of the type of its rows.
LEMMA Rows ==
  ASSUME Shelves
  PROVE  /\ DOMAIN version = 1 .. Len(version) /\ DOMAIN material = 1 .. Len(material)
         /\ Len(version) \in Nat /\ Len(material) \in Nat
         /\ \A v \in DOMAIN version : version[v] \in VersionRow
         /\ \A m \in DOMAIN material : material[m] \in MaterialRow
BY DEF Shelves

LEMMA TopIsNumber ==
  ASSUME Shelves, NEW m \in DOMAIN material
  PROVE  /\ Top(m) \in Nat /\ Top(m) >= 1
         /\ material[m].active \in DOMAIN version
<1>1. material[m].active \in VersionsOf(m)
  BY DEF Shelves, Latest
<1>2. material[m].active \in DOMAIN version
  BY <1>1 DEF VersionsOf
<1>3. version[material[m].active].number \in 1 .. MaxVersions
  BY <1>2, Rows DEF VersionRow
<1> QED
  BY <1>2, <1>3, MaterialsAssumption DEF Top

\* next_version is one above the last number.
LEMMA NextIsAboveTop ==
  ASSUME Shelves, NEW m \in DOMAIN material
  PROVE  NextVersion(m) = Top(m) + 1
<1> DEFINE all == {0} \cup {version[v].number : v \in VersionsOf(m)}
<1>1. Top(m) \in all
  BY DEF Shelves, Latest, Top
<1>2. \A n \in all : n \in Nat /\ n <= Top(m)
  BY TopIsNumber DEF Shelves, Latest
<1>3. Top(m) \in Nat
  BY TopIsNumber
<1>4. Max(all) = Top(m)
  <2> HIDE DEF all
  <2> QED
    BY <1>1, <1>2, <1>3 DEF Max
<1> QED
  BY <1>4 DEF NextVersion

\* The Versions of a Material are as many as their last number says.
LEMMA TopCounts ==
  ASSUME Shelves, NEW m \in DOMAIN material
  PROVE  Cardinality(VersionsOf(m)) = Top(m) /\ Top(m) <= Len(version)
<1> DEFINE S == VersionsOf(m)
           T == 1 .. Top(m)
           f == [v \in S |-> version[v].number]
<1>1. f \in Bijection(S, T)
  <2>1. f \in [S -> T]
    BY DEF Shelves, Latest
  <2>2. IsInjective(f)
    BY DEF Shelves, Latest, IsInjective
  <2>3. \A n \in T : \E v \in S : f[v] = n
    BY DEF Shelves, Latest
  <2> QED
    BY <2>1, <2>2, <2>3 DEF Bijection, Injection, Surjection
<1>2. IsFiniteSet(1 .. Len(version)) /\ Cardinality(1 .. Len(version)) = Len(version)
  <2>1. Len(version) \in Int /\ Len(version) >= 0
    BY Rows
  <2>2. /\ IsFiniteSet(1 .. Len(version))
        /\ Cardinality(1 .. Len(version))
             = IF 1 > Len(version) THEN 0 ELSE Len(version) - 1 + 1
    BY <2>1, FS_Interval
  <2> QED
    BY <2>1, <2>2
<1>3. S \subseteq 1 .. Len(version)
  BY Rows DEF VersionsOf
<1>4. IsFiniteSet(S) /\ Cardinality(S) <= Len(version)
  BY <1>2, <1>3, FS_Subset
<1>5. Cardinality(T) = Cardinality(S)
  BY <1>1, <1>4, FS_Bijection DEF ExistsBijection
<1>6. Cardinality(T) = Top(m)
  BY TopIsNumber, FS_Interval
<1> QED
  BY <1>4, <1>5, <1>6

\* The invariant says what it was made for.
LEMMA LatestCounted == Shelves => ActiveIsLatest
<1> SUFFICES ASSUME Shelves, NEW m \in DOMAIN material
             PROVE  /\ {version[v].number : v \in VersionsOf(m)}
                         = 1 .. Cardinality(VersionsOf(m))
                    /\ material[m].active \in VersionsOf(m)
                    /\ version[material[m].active].number = Cardinality(VersionsOf(m))
  BY DEF ActiveIsLatest
<1>1. Cardinality(VersionsOf(m)) = Top(m)
  BY TopCounts
<1>2. {version[v].number : v \in VersionsOf(m)} = 1 .. Top(m)
  BY DEF Shelves, Latest
<1> QED
  BY <1>1, <1>2 DEF Shelves, Latest, Top

-----------------------------------------------------------------------------
(* What transactions do to Materials, Versions and reviews *)

Untouched == UNCHANGED <<material, version, approvals>>

\* A new Version behind the last of Material m, which becomes the active one
Extends(m) ==
  \E row \in VersionRow, status \in Statuses :
    /\ row.material = m /\ row.number = Top(m) + 1 /\ ~row.finalized
    /\ version' = Append(version, row) /\ Len(version) < MaxVersions
    /\ status = "approved" => material[m].status = "approved"
    /\ material' = [material EXCEPT ![m] = [ package |-> material[m].package,
                      type |-> material[m].type, status |-> status,
                      active |-> Len(version) + 1 ]]
    /\ approvals' = approvals

\* A new Material with its first Version
Founds ==
  \E row \in VersionRow, shelf \in MaterialRow :
    /\ row.material = Len(material) + 1 /\ row.number = 1 /\ ~row.finalized
    /\ version' = Append(version, row) /\ Len(version) < MaxVersions
    /\ shelf.active = Len(version) + 1 /\ shelf.status # "approved"
    /\ material' = Append(material, shelf) /\ Len(material) < MaxMaterials
    /\ approvals' = approvals

\* Versions are validated, reviewed or finalized: what is finalized or approved now has a
\* review, and no row goes.
Judges ==
  /\ version' \in Seq(VersionRow) /\ Len(version') = Len(version)
  /\ material' \in Seq(MaterialRow) /\ Len(material') = Len(material)
  /\ approvals \subseteq approvals' /\ approvals' \subseteq DOMAIN version
  /\ \A v \in DOMAIN version :
       /\ version'[v].material = version[v].material /\ version'[v].number = version[v].number
       /\ version[v].finalized => version'[v].finalized
       /\ version'[v].finalized => version[v].finalized \/
            \E r \in approvals' : version[r].material = version[v].material
  /\ \A m \in DOMAIN material :
       /\ material'[m].package = material[m].package /\ material'[m].type = material[m].type
       /\ material'[m].active = material[m].active
       /\ material'[m].status = "approved" => material[m].status = "approved" \/
            \E r \in approvals' : version[r].material = m

\* What was seen before a step still holds after it.
Keeps ==
  /\ DOMAIN version \subseteq DOMAIN version' /\ DOMAIN material \subseteq DOMAIN material'
  /\ Len(material) <= Len(material')
  /\ \A v \in DOMAIN version :
       /\ version'[v].material = version[v].material
       /\ version[v].finalized => version'[v].finalized
  /\ \A m \in DOMAIN material :
       /\ material'[m].package = material[m].package /\ material'[m].type = material[m].type
       /\ Top(m) <= Top(m)'

LEMMA UntouchedKeeps ==
  ASSUME Shelves, Untouched
  PROVE  Shelves' /\ Keeps
<1>1. version' = version /\ material' = material /\ approvals' = approvals
  BY DEF Untouched
<1>2. \A m : Top(m)' = Top(m) /\ VersionsOf(m)' = VersionsOf(m)
  BY <1>1 DEF Top, VersionsOf
<1>3. Keeps
  BY <1>1, <1>2, Rows, TopIsNumber DEF Keeps
<1>4. Owned' /\ Reviewed' /\ Finals'
  BY <1>1 DEF Shelves, Owned, Reviewed, Finals
<1>5. Latest'
  BY <1>1, <1>2 DEF Shelves, Latest
<1> QED
  BY <1>1, <1>3, <1>4, <1>5 DEF Shelves

LEMMA JudgesKeeps ==
  ASSUME Shelves, Judges
  PROVE  Shelves' /\ Keeps
<1>1. DOMAIN version' = DOMAIN version /\ DOMAIN material' = DOMAIN material
  BY Rows DEF Judges
<1>2. \A m : VersionsOf(m)' = VersionsOf(m)
  BY <1>1 DEF Judges, VersionsOf
<1>3. \A m \in DOMAIN material : Top(m)' = Top(m)
  BY <1>1, TopIsNumber DEF Judges, Top
<1>4. Keeps
  BY <1>1, <1>3, Rows, TopIsNumber DEF Judges, Keeps
<1>5. Owned'
  BY <1>1 DEF Judges, Shelves, Owned
<1>6. Latest'
  <2>1. \A m \in DOMAIN material : \A v \in VersionsOf(m) :
          v \in DOMAIN version /\ version'[v].number = version[v].number
    BY DEF Judges, VersionsOf
  <2> SUFFICES ASSUME NEW m \in DOMAIN material
               PROVE  /\ material'[m].active \in VersionsOf(m)'
                      /\ \A v \in VersionsOf(m)' : version'[v].number \in 1 .. Top(m)'
                      /\ \A n \in 1 .. Top(m)' : \E v \in VersionsOf(m)' :
                           version'[v].number = n
                      /\ \A v, w \in VersionsOf(m)' :
                           version'[v].number = version'[w].number => v = w
    BY <1>1 DEF Latest
  <2>2. /\ material[m].active \in VersionsOf(m)
        /\ \A v \in VersionsOf(m) : version[v].number \in 1 .. Top(m)
        /\ \A n \in 1 .. Top(m) : \E v \in VersionsOf(m) : version[v].number = n
        /\ \A v, w \in VersionsOf(m) : version[v].number = version[w].number => v = w
    BY DEF Shelves, Latest
  <2>3. material'[m].active = material[m].active
    BY DEF Judges
  <2> QED
    BY <1>2, <1>3, <2>1, <2>2, <2>3
<1>7. Reviewed'
  <2> SUFFICES ASSUME NEW m \in DOMAIN material, material'[m].status = "approved"
               PROVE  \E r \in approvals' : version'[r].material = m
    BY <1>1 DEF Reviewed
  <2>1. \E r \in approvals' : version[r].material = m
    BY DEF Judges, Shelves, Reviewed
  <2> QED
    BY <2>1 DEF Judges
<1>8. Finals'
  <2> SUFFICES ASSUME NEW v \in DOMAIN version, version'[v].finalized
               PROVE  \E r \in approvals' : version'[r].material = version'[v].material
    BY <1>1 DEF Finals
  <2>1. \E r \in approvals' : version[r].material = version[v].material
    BY DEF Judges, Shelves, Finals
  <2> QED
    BY <2>1 DEF Judges
<1> QED
  BY <1>1, <1>4, <1>5, <1>6, <1>7, <1>8 DEF Shelves, Judges

\* A Version that is appended leaves the others as they were.
LEMMA Appended ==
  ASSUME Shelves, NEW row \in VersionRow, version' = Append(version, row),
         Len(version) < MaxVersions
  PROVE  /\ version' \in Seq(VersionRow) /\ Len(version') = Len(version) + 1
         /\ Len(version') <= MaxVersions
         /\ DOMAIN version' = DOMAIN version \cup {Len(version) + 1}
         /\ Len(version) + 1 \notin DOMAIN version
         /\ \A v \in DOMAIN version : version'[v] = version[v]
         /\ version'[Len(version) + 1] = row
<1>1. version \in Seq(VersionRow)
  BY DEF Shelves
<1>2. /\ version' \in Seq(VersionRow) /\ Len(version') = Len(version) + 1
      /\ \A v \in 1 .. Len(version) : version'[v] = version[v]
      /\ version'[Len(version) + 1] = row
  BY <1>1, AppendProperties
<1>3. DOMAIN version' = 1 .. (Len(version) + 1) /\ DOMAIN version = 1 .. Len(version)
  BY <1>1, <1>2
<1>4. Len(version) \in Nat /\ Len(version') <= MaxVersions
  BY <1>1, <1>2, MaterialsAssumption
<1> QED
  BY <1>2, <1>3, <1>4

\* So its Material has one Version more and the others have what they had.
LEMMA AppendedOf ==
  ASSUME Shelves, NEW row \in VersionRow, version' = Append(version, row),
         Len(version) < MaxVersions, NEW m
  PROVE  VersionsOf(m)' = VersionsOf(m) \cup (IF row.material = m THEN {Len(version) + 1} ELSE {})
BY Appended DEF VersionsOf

LEMMA ExtendsKeeps ==
  ASSUME Shelves, NEW m \in DOMAIN material, Extends(m)
  PROVE  Shelves' /\ Keeps
<1>1. PICK row \in VersionRow, status \in Statuses :
        /\ row.material = m /\ row.number = Top(m) + 1 /\ ~row.finalized
        /\ version' = Append(version, row) /\ Len(version) < MaxVersions
        /\ status = "approved" => material[m].status = "approved"
        /\ material' = [material EXCEPT ![m] = [ package |-> material[m].package,
                          type |-> material[m].type, status |-> status,
                          active |-> Len(version) + 1 ]]
        /\ approvals' = approvals
  BY DEF Extends
<1> DEFINE new == Len(version) + 1
           shelf == [ package |-> material[m].package, type |-> material[m].type,
                      status |-> status, active |-> new ]
<1>2. /\ version' \in Seq(VersionRow) /\ Len(version') <= MaxVersions
      /\ DOMAIN version' = DOMAIN version \cup {new} /\ new \notin DOMAIN version
      /\ \A v \in DOMAIN version : version'[v] = version[v]
      /\ version'[new] = row
  BY <1>1, Appended
<1>3. shelf \in MaterialRow
  <2>1. material[m] \in MaterialRow /\ new \in 0 .. MaxVersions
    BY <1>1, Rows, MaterialsAssumption
  <2> QED
    BY <2>1 DEF MaterialRow, Statuses
<1>4. /\ material' \in Seq(MaterialRow) /\ Len(material') = Len(material)
      /\ DOMAIN material' = DOMAIN material
      /\ material'[m] = shelf
      /\ \A n \in DOMAIN material : n # m => material'[n] = material[n]
  <2>1. material \in Seq(MaterialRow) /\ m \in 1 .. Len(material)
    BY Rows DEF Shelves
  <2>2. material' = [material EXCEPT ![m] = shelf]
    BY <1>1
  <2> HIDE DEF shelf
  <2>3. material' \in Seq(MaterialRow)
    BY <1>3, <2>1, <2>2, ExceptSeq
  <2> QED
    BY <2>1, <2>2, <2>3
<1>5. /\ VersionsOf(m)' = VersionsOf(m) \cup {new}
      /\ \A n : n # m => VersionsOf(n)' = VersionsOf(n)
  <2>1. \A n : VersionsOf(n)' = VersionsOf(n) \cup (IF row.material = n THEN {new} ELSE {})
    BY <1>1, AppendedOf
  <2> QED
    BY <1>1, <2>1
<1>6. /\ Top(m)' = Top(m) + 1
      /\ \A n \in DOMAIN material : n # m => Top(n)' = Top(n)
  <2>1. Top(m)' = row.number
    BY <1>2, <1>4 DEF Top
  <2>2. \A n \in DOMAIN material : n # m => Top(n)' = Top(n)
    BY <1>2, <1>4, TopIsNumber DEF Top
  <2> QED
    BY <1>1, <2>1, <2>2
<1>7. Keeps
  <2>1. \A n \in DOMAIN material : Top(n) <= Top(n)'
    BY <1>6, TopIsNumber
  <2>2. \A n \in DOMAIN material : /\ material'[n].package = material[n].package
                                   /\ material'[n].type = material[n].type
    BY <1>4
  <2> QED
    BY <1>2, <1>4, <2>1, <2>2, Rows DEF Keeps
<1>8. Owned'
  BY <1>1, <1>2, <1>4 DEF Shelves, Owned
<1>9. Latest'
  <2> SUFFICES ASSUME NEW n \in DOMAIN material
               PROVE  /\ material'[n].active \in VersionsOf(n)'
                      /\ \A v \in VersionsOf(n)' : version'[v].number \in 1 .. Top(n)'
                      /\ \A i \in 1 .. Top(n)' : \E v \in VersionsOf(n)' :
                           version'[v].number = i
                      /\ \A v, w \in VersionsOf(n)' :
                           version'[v].number = version'[w].number => v = w
    BY <1>4 DEF Latest
  <2>1. /\ material[n].active \in VersionsOf(n)
        /\ \A v \in VersionsOf(n) : version[v].number \in 1 .. Top(n)
        /\ \A i \in 1 .. Top(n) : \E v \in VersionsOf(n) : version[v].number = i
        /\ \A v, w \in VersionsOf(n) : version[v].number = version[w].number => v = w
    BY DEF Shelves, Latest
  <2>2. \A v \in VersionsOf(n) : version'[v] = version[v] /\ v # new
    BY <1>2 DEF VersionsOf
  <2>3. Top(n) \in Nat /\ Top(n) >= 1
    BY TopIsNumber
  <2>4. CASE n # m
    <3>1. /\ material'[n] = material[n] /\ VersionsOf(n)' = VersionsOf(n)
          /\ Top(n)' = Top(n)
      BY <1>4, <1>5, <1>6, <2>4
    <3> QED
      BY <2>1, <2>2, <3>1
  <2>5. CASE n = m
    <3>1. /\ VersionsOf(n)' = VersionsOf(n) \cup {new} /\ Top(n)' = Top(n) + 1
          /\ version'[new].number = Top(n) + 1 /\ material'[n].active = new
      BY <1>1, <1>2, <1>4, <1>5, <1>6, <2>5
    <3>2. material'[n].active \in VersionsOf(n)'
      BY <3>1
    <3>3. \A v \in VersionsOf(n)' : version'[v].number \in 1 .. Top(n)'
      BY <2>1, <2>2, <2>3, <3>1
    <3>4. \A i \in 1 .. Top(n)' : \E v \in VersionsOf(n)' : version'[v].number = i
      <4> SUFFICES ASSUME NEW i \in 1 .. (Top(n) + 1)
                   PROVE  \E v \in VersionsOf(n)' : version'[v].number = i
        BY <3>1
      <4>1. CASE i = Top(n) + 1
        BY <3>1, <4>1
      <4>2. CASE i \in 1 .. Top(n)
        <5>1. PICK v \in VersionsOf(n) : version[v].number = i
          BY <2>1, <4>2
        <5> QED
          BY <2>2, <3>1, <5>1
      <4> QED
        BY <2>3, <4>1, <4>2
    <3>5. \A v, w \in VersionsOf(n)' : version'[v].number = version'[w].number => v = w
      BY <2>1, <2>2, <2>3, <3>1
    <3> QED
      BY <3>2, <3>3, <3>4, <3>5
  <2> QED
    BY <2>4, <2>5
<1>10. \A r \in approvals : r \in DOMAIN version /\ version'[r] = version[r]
  BY <1>2 DEF Shelves
<1>11. Reviewed'
  <2> SUFFICES ASSUME NEW n \in DOMAIN material, material'[n].status = "approved"
               PROVE  \E r \in approvals' : version'[r].material = n
    BY <1>4 DEF Reviewed
  <2>1. material[n].status = "approved"
    <3>1. n = m => material'[n].status = status
      BY <1>4
    <3> QED
      BY <1>1, <1>4, <3>1
  <2>2. PICK r \in approvals : version[r].material = n
    BY <2>1 DEF Shelves, Reviewed
  <2> QED
    BY <1>1, <1>10, <2>2
<1>12. Finals'
  <2> SUFFICES ASSUME NEW v \in DOMAIN version', version'[v].finalized
               PROVE  \E r \in approvals' : version'[r].material = version'[v].material
    BY DEF Finals
  <2>1. v \in DOMAIN version /\ version'[v] = version[v]
    BY <1>1, <1>2
  <2>2. PICK r \in approvals : version[r].material = version[v].material
    BY <2>1 DEF Shelves, Finals
  <2> QED
    BY <1>1, <1>10, <2>1, <2>2
<1>13. /\ Len(material') <= MaxMaterials /\ approvals' \subseteq DOMAIN version'
  BY <1>1, <1>2, <1>4 DEF Shelves
<1> QED
  BY <1>2, <1>4, <1>7, <1>8, <1>9, <1>11, <1>12, <1>13 DEF Shelves

LEMMA FoundsKeeps ==
  ASSUME Shelves, Founds
  PROVE  Shelves' /\ Keeps
<1>1. PICK row \in VersionRow, shelf \in MaterialRow :
        /\ row.material = Len(material) + 1 /\ row.number = 1 /\ ~row.finalized
        /\ version' = Append(version, row) /\ Len(version) < MaxVersions
        /\ shelf.active = Len(version) + 1 /\ shelf.status # "approved"
        /\ material' = Append(material, shelf) /\ Len(material) < MaxMaterials
        /\ approvals' = approvals
  BY DEF Founds
<1> DEFINE new == Len(version) + 1
<1>0. PICK m \in Nat : m = Len(material) + 1
  BY Rows
<1>2. /\ version' \in Seq(VersionRow) /\ Len(version') <= MaxVersions
      /\ DOMAIN version' = DOMAIN version \cup {new} /\ new \notin DOMAIN version
      /\ \A v \in DOMAIN version : version'[v] = version[v]
      /\ version'[new] = row
  BY <1>1, Appended
<1>3. /\ material' \in Seq(MaterialRow) /\ Len(material') = m /\ m <= MaxMaterials
      /\ DOMAIN material' = DOMAIN material \cup {m} /\ m \notin DOMAIN material
      /\ \A n \in DOMAIN material : material'[n] = material[n]
      /\ material'[m] = shelf
  <2>1. material \in Seq(MaterialRow)
    BY DEF Shelves
  <2>2. /\ material' \in Seq(MaterialRow) /\ Len(material') = Len(material) + 1
        /\ \A n \in 1 .. Len(material) : material'[n] = material[n]
        /\ material'[Len(material) + 1] = shelf
    BY <1>1, <2>1, AppendProperties
  <2>3. DOMAIN material' = 1 .. (Len(material) + 1) /\ DOMAIN material = 1 .. Len(material)
    BY <2>1, <2>2
  <2>4. Len(material) \in Nat
    BY <2>1
  <2> QED
    BY <1>0, <1>1, <2>2, <2>3, <2>4, MaterialsAssumption
<1>4. VersionsOf(m) = {}
  BY <1>3 DEF Shelves, Owned, VersionsOf
<1>5. /\ VersionsOf(m)' = {new}
      /\ \A n : n # m => VersionsOf(n)' = VersionsOf(n)
  <2>1. \A n : VersionsOf(n)' = VersionsOf(n) \cup (IF row.material = n THEN {new} ELSE {})
    BY <1>1, AppendedOf
  <2> QED
    BY <1>0, <1>1, <1>4, <2>1
<1>6. /\ Top(m)' = 1
      /\ \A n \in DOMAIN material : Top(n)' = Top(n)
  <2>1. Top(m)' = row.number
    BY <1>1, <1>2, <1>3 DEF Top
  <2>2. \A n \in DOMAIN material : Top(n)' = Top(n)
    BY <1>2, <1>3, TopIsNumber DEF Top
  <2> QED
    BY <1>1, <2>1, <2>2
<1>7. Keeps
  <2>1. \A n \in DOMAIN material : Top(n) <= Top(n)'
    BY <1>6, TopIsNumber
  <2>2. Len(material) <= Len(material')
    BY <1>0, <1>3, Rows
  <2> QED
    BY <1>2, <1>3, <2>1, <2>2 DEF Keeps
<1>8. Owned'
  BY <1>0, <1>1, <1>2, <1>3 DEF Shelves, Owned
<1>9. Latest'
  <2> SUFFICES ASSUME NEW n \in DOMAIN material \cup {m}
               PROVE  /\ material'[n].active \in VersionsOf(n)'
                      /\ \A v \in VersionsOf(n)' : version'[v].number \in 1 .. Top(n)'
                      /\ \A i \in 1 .. Top(n)' : \E v \in VersionsOf(n)' :
                           version'[v].number = i
                      /\ \A v, w \in VersionsOf(n)' :
                           version'[v].number = version'[w].number => v = w
    BY <1>3 DEF Latest
  <2>1. CASE n = m
    <3>1. /\ VersionsOf(n)' = {new} /\ Top(n)' = 1 /\ version'[new].number = 1
          /\ material'[n].active = new
      BY <1>1, <1>2, <1>3, <1>5, <1>6, <2>1
    <3> QED
      BY <3>1
  <2>2. CASE n # m
    <3>1. /\ material[n].active \in VersionsOf(n)
          /\ \A v \in VersionsOf(n) : version[v].number \in 1 .. Top(n)
          /\ \A i \in 1 .. Top(n) : \E v \in VersionsOf(n) : version[v].number = i
          /\ \A v, w \in VersionsOf(n) : version[v].number = version[w].number => v = w
      BY <2>2 DEF Shelves, Latest
    <3>2. \A v \in VersionsOf(n) : version'[v] = version[v]
      BY <1>2 DEF VersionsOf
    <3>3. /\ material'[n] = material[n] /\ VersionsOf(n)' = VersionsOf(n)
          /\ Top(n)' = Top(n)
      BY <1>3, <1>5, <1>6, <2>2
    <3> QED
      BY <3>1, <3>2, <3>3
  <2> QED
    BY <2>1, <2>2
<1>10. \A r \in approvals : r \in DOMAIN version /\ version'[r] = version[r]
  BY <1>2 DEF Shelves
<1>11. Reviewed'
  <2> SUFFICES ASSUME NEW n \in DOMAIN material \cup {m}, material'[n].status = "approved"
               PROVE  \E r \in approvals' : version'[r].material = n
    BY <1>3 DEF Reviewed
  <2>1. n \in DOMAIN material /\ material[n].status = "approved"
    BY <1>1, <1>3
  <2>2. PICK r \in approvals : version[r].material = n
    BY <2>1 DEF Shelves, Reviewed
  <2> QED
    BY <1>1, <1>10, <2>2
<1>12. Finals'
  <2> SUFFICES ASSUME NEW v \in DOMAIN version', version'[v].finalized
               PROVE  \E r \in approvals' : version'[r].material = version'[v].material
    BY DEF Finals
  <2>1. v \in DOMAIN version /\ version'[v] = version[v]
    BY <1>1, <1>2
  <2>2. PICK r \in approvals : version[r].material = version[v].material
    BY <2>1 DEF Shelves, Finals
  <2> QED
    BY <1>1, <1>10, <2>1, <2>2
<1>13. approvals' \subseteq DOMAIN version'
  BY <1>1, <1>2 DEF Shelves
<1> QED
  BY <1>2, <1>3, <1>7, <1>8, <1>9, <1>11, <1>12, <1>13 DEF Shelves

-----------------------------------------------------------------------------
(* Which transaction does what *)

LEMMA NewIsRow ==
  ASSUME NEW m \in 1 .. MaxMaterials, NEW n \in 1 .. MaxVersions, NEW claim \in Validated
  PROVE  /\ NewVersion(m, n, claim) \in VersionRow
         /\ NewVersion(m, n, claim).material = m /\ NewVersion(m, n, claim).number = n
         /\ ~NewVersion(m, n, claim).finalized
BY DEF NewVersion, VersionRow, Validated, Summary

\* edit, and a generation for a Material that exists
LEMMA ExtendExtends ==
  ASSUME Shelves, NEW m \in DOMAIN material, NEW claim \in Validated,
         NEW status \in Statuses, Len(version) < MaxVersions,
         status = "approved" => material[m].status = "approved",
         Extend(m, Top(m) + 1, claim, status), approvals' = approvals
  PROVE  Extends(m)
<1> DEFINE row == NewVersion(m, Top(m) + 1, claim)
<1>1. m \in 1 .. MaxMaterials /\ Top(m) + 1 \in 1 .. MaxVersions
  BY Rows, TopIsNumber, TopCounts, MaterialsAssumption DEF Shelves
<1>2. /\ row \in VersionRow /\ row.material = m /\ row.number = Top(m) + 1
      /\ ~row.finalized
  BY <1>1, NewIsRow
<1>3. version' = Append(version, row)
  BY DEF Extend
<1>4. material' = [material EXCEPT ![m] = [ package |-> material[m].package,
                     type |-> material[m].type, status |-> status,
                     active |-> Len(version) + 1 ]]
  <2> DEFINE one == [material EXCEPT ![m].active = Len(version) + 1]
             first == [ package |-> material[m].package, type |-> material[m].type,
                        status |-> material[m].status, active |-> Len(version) + 1 ]
             shelf == [ package |-> material[m].package, type |-> material[m].type,
                        status |-> status, active |-> Len(version) + 1 ]
  <2>1. material[m] \in MaterialRow
    BY Rows
  <2>2. [material[m] EXCEPT !.active = Len(version) + 1] = first
    BY <2>1 DEF MaterialRow
  <2>3. [first EXCEPT !.status = status] = shelf
    OBVIOUS
  <2>4. one = [material EXCEPT ![m] = first]
    <3> HIDE DEF first
    <3> QED
      BY <2>2
  <2>5. material' = [one EXCEPT ![m].status = status]
    BY DEF Extend
  <2> HIDE DEF first, shelf, one
  <2>6. one[m] = first
    BY <2>4
  <2>7. material' = [one EXCEPT ![m] = shelf]
    BY <2>3, <2>5, <2>6
  <2>8. material' = [material EXCEPT ![m] = shelf]
    BY <2>4, <2>7
  <2> QED
    BY <2>8 DEF shelf
<1> HIDE DEF row
<1> QED
  BY <1>2, <1>3, <1>4 DEF Extends

\* Material m is given another status.
LEMMA StatusJudges ==
  ASSUME Shelves, NEW m \in DOMAIN material, NEW status \in Statuses,
         material' = [material EXCEPT ![m].status = status]
  PROVE  /\ material' \in Seq(MaterialRow) /\ Len(material') = Len(material)
         /\ material'[m].status = status
         /\ \A n \in DOMAIN material :
              /\ material'[n].package = material[n].package
              /\ material'[n].type = material[n].type
              /\ material'[n].active = material[n].active
              /\ n # m => material'[n].status = material[n].status
<1> DEFINE shelf == [material[m] EXCEPT !.status = status]
<1>1. /\ material \in Seq(MaterialRow) /\ m \in 1 .. Len(material)
      /\ material[m] \in MaterialRow
  BY Rows DEF Shelves
<1>2. /\ shelf \in MaterialRow /\ shelf.status = status
      /\ shelf.package = material[m].package /\ shelf.type = material[m].type
      /\ shelf.active = material[m].active
  BY <1>1 DEF MaterialRow, Statuses
<1>3. material' = [material EXCEPT ![m] = shelf]
  OBVIOUS
<1> HIDE DEF shelf
<1>4. material' \in Seq(MaterialRow) /\ Len(material') = Len(material)
  BY <1>1, <1>2, <1>3, ExceptSeq
<1> QED
  BY <1>1, <1>2, <1>3, <1>4

\* Version v is judged anew, and keeps its place.
LEMMA RowJudges ==
  ASSUME Shelves, NEW v \in DOMAIN version, NEW row \in VersionRow,
         version' = [version EXCEPT ![v] = row],
         row.material = version[v].material, row.number = version[v].number,
         version[v].finalized => row.finalized
  PROVE  /\ version' \in Seq(VersionRow) /\ Len(version') = Len(version)
         /\ \A w \in DOMAIN version :
              /\ version'[w].material = version[w].material
              /\ version'[w].number = version[w].number
              /\ version[w].finalized => version'[w].finalized
              /\ version'[w].finalized => version[w].finalized \/ (w = v /\ row.finalized)
<1>1. version \in Seq(VersionRow) /\ v \in 1 .. Len(version)
  BY Rows DEF Shelves
<1>2. version' \in Seq(VersionRow) /\ Len(version') = Len(version)
  BY <1>1, ExceptSeq
<1> QED
  BY <1>1, <1>2

\* A claim and its validation are written to Version v.
LEMMA ClaimJudges ==
  ASSUME Shelves, NEW v \in DOMAIN version,
         NEW claim \in {"supported", "unsupported", "user_confirmed"}, NEW val \in Validations,
         version' = [[version EXCEPT ![v].claim = claim] EXCEPT ![v].validation = val],
         UNCHANGED <<material, approvals>>
  PROVE  Judges
<1> DEFINE one == [version EXCEPT ![v].claim = claim]
           first == [version[v] EXCEPT !.claim = claim]
           row == [first EXCEPT !.validation = val]
<1>1. version[v] \in VersionRow
  BY Rows
<1>2. /\ first \in VersionRow /\ first.material = version[v].material
      /\ first.number = version[v].number /\ first.finalized = version[v].finalized
  BY <1>1 DEF VersionRow
<1>3. /\ row \in VersionRow /\ row.material = first.material /\ row.number = first.number
      /\ row.finalized = first.finalized
  <2> HIDE DEF first
  <2> QED
    BY <1>2 DEF VersionRow, Validations
<1>4. version' = [version EXCEPT ![v] = row]
  <2>1. one = [version EXCEPT ![v] = first]
    OBVIOUS
  <2> HIDE DEF first
  <2>2. one[v] = first
    <3> HIDE DEF one
    <3> QED
      BY <2>1
  <2>3. version' = [one EXCEPT ![v].validation = val]
    OBVIOUS
  <2> HIDE DEF one
  <2>4. version' = [one EXCEPT ![v] = row]
    BY <2>2, <2>3
  <2> HIDE DEF row
  <2> QED
    BY <2>1, <2>4
<1> HIDE DEF one, first, row
<1>5. /\ version' \in Seq(VersionRow) /\ Len(version') = Len(version)
      /\ \A w \in DOMAIN version :
           /\ version'[w].material = version[w].material
           /\ version'[w].number = version[w].number
           /\ version[w].finalized => version'[w].finalized
           /\ version'[w].finalized => version[w].finalized \/ (w = v /\ row.finalized)
  BY <1>2, <1>3, <1>4, RowJudges
<1>6. row.finalized => version[v].finalized
  BY <1>2, <1>3
<1> QED
  BY <1>5, <1>6 DEF Judges, Shelves

\* validate and confirm_evidence
LEMMA ValidateJudges ==
  ASSUME MaterialsInv, NEW c \in Clients, ValidateCommit(c) \/ ConfirmCommit(c)
  PROVE  Judges
<1>1. PICK claim \in {"supported", "unsupported", "user_confirmed"} :
        /\ version' = [version EXCEPT ![tx[c].version].claim = claim,
                         ![tx[c].version].validation =
                            Write(version[tx[c].version].validation, tx[c].seen, Summary(claim))]
        /\ UNCHANGED <<material, approvals>> /\ tx[c].op \in {"validate", "confirm"}
  BY DEF ValidateCommit, ConfirmCommit, Validated
<1>2. tx[c].version \in DOMAIN version /\ tx[c].seen \in Validations /\ Shelves
  BY <1>1 DEF MaterialsInv, Underway, Seen
<1>3. PICK v \in DOMAIN version : v = tx[c].version
  BY <1>2
<1>4. version[v] \in VersionRow
  BY <1>2, Rows
<1>5. PICK val \in Validations :
        val = Write(version[v].validation, tx[c].seen, Summary(claim))
  BY <1>4 DEF VersionRow, Write, Summary, Validations
<1>6. version' = [version EXCEPT ![v].claim = claim, ![v].validation = val]
  BY <1>1, <1>3, <1>5
<1>7. version' = [[version EXCEPT ![v].claim = claim] EXCEPT ![v].validation = val]
  BY <1>6
<1> QED
  BY <1>1, <1>2, <1>7, ClaimJudges

\* review
LEMMA ReviewJudges ==
  ASSUME MaterialsInv, NEW c \in Clients, ReviewCommit(c)
  PROVE  Judges
<1>1. tx[c].version \in DOMAIN version /\ Shelves
  BY DEF MaterialsInv, Underway, Seen, ReviewCommit
<1>2. PICK v \in DOMAIN version : v = tx[c].version
  BY <1>1
<1>3. PICK m \in DOMAIN material : m = version[v].material
  BY <1>1 DEF Shelves, Owned
<1>4. /\ material' = [material EXCEPT ![m].status = "approved"] /\ version' = version
      /\ approvals' = approvals \cup {v}
  BY <1>2, <1>3 DEF ReviewCommit
<1>5. /\ material' \in Seq(MaterialRow) /\ Len(material') = Len(material)
      /\ \A n \in DOMAIN material :
           /\ material'[n].package = material[n].package
           /\ material'[n].type = material[n].type
           /\ material'[n].active = material[n].active
           /\ n # m => material'[n].status = material[n].status
  BY <1>1, <1>4, StatusJudges DEF Statuses
<1>6. v \in approvals' /\ version[v].material = m
  BY <1>3, <1>4
<1> QED
  BY <1>1, <1>4, <1>5, <1>6 DEF Judges, Shelves

\* A review that asks for changes or rejects
LEMMA SendBackJudges ==
  ASSUME MaterialsInv, NEW m \in DOMAIN material, SendBack(m)
  PROVE  Judges
<1>1. PICK status \in {"in_review", "draft"} :
        /\ material' = [material EXCEPT ![m].status = status]
        /\ version' = version /\ approvals' = approvals
  BY DEF SendBack
<1>2. Shelves
  BY DEF MaterialsInv
<1>3. /\ material' \in Seq(MaterialRow) /\ Len(material') = Len(material)
      /\ material'[m].status = status
      /\ \A n \in DOMAIN material :
           /\ material'[n].package = material[n].package
           /\ material'[n].type = material[n].type
           /\ material'[n].active = material[n].active
           /\ n # m => material'[n].status = material[n].status
  BY <1>1, <1>2, StatusJudges DEF Statuses
<1> QED
  BY <1>1, <1>2, <1>3 DEF Judges, Shelves

\* A Version becomes final.
LEMMA FinalRow ==
  ASSUME Shelves, NEW v \in DOMAIN version,
         version' = [version EXCEPT ![v].finalized = TRUE]
  PROVE  /\ version' \in Seq(VersionRow) /\ Len(version') = Len(version)
         /\ \A w \in DOMAIN version :
              /\ version'[w].material = version[w].material
              /\ version'[w].number = version[w].number
              /\ version[w].finalized => version'[w].finalized
              /\ version'[w].finalized => version[w].finalized \/ w = v
<1> DEFINE row == [version[v] EXCEPT !.finalized = TRUE]
<1>1. version[v] \in VersionRow
  BY Rows
<1>2. /\ row \in VersionRow /\ row.material = version[v].material
      /\ row.number = version[v].number /\ row.finalized
  BY <1>1 DEF VersionRow
<1>3. version' = [version EXCEPT ![v] = row]
  OBVIOUS
<1> HIDE DEF row
<1> QED
  BY <1>2, <1>3, RowJudges

LEMMA FinalizeJudges ==
  ASSUME MaterialsInv, NEW c \in Clients, FinalizeCommit(c)
  PROVE  Judges \/ Untouched
<1>1. tx[c].version \in DOMAIN version /\ Shelves
  BY DEF MaterialsInv, Underway, Seen, FinalizeCommit
<1>2. PICK v \in DOMAIN version : v = tx[c].version
  BY <1>1
<1>3. version[v].material \in DOMAIN material
  BY <1>1 DEF Shelves, Owned
<1>4. /\ material' = material /\ approvals' = approvals
      /\ version' = IF /\ material[version[v].material].active = v
                       /\ material[version[v].material].status = "approved"
                    THEN [version EXCEPT ![v].finalized = TRUE] ELSE version
  BY <1>2 DEF FinalizeCommit
<1>5. CASE version' = version
  BY <1>4, <1>5 DEF Untouched
<1>6. CASE version' # version
  <2>1. /\ version' = [version EXCEPT ![v].finalized = TRUE]
        /\ material[version[v].material].status = "approved"
    BY <1>4, <1>6
  <2>2. \E r \in approvals : version[r].material = version[v].material
    BY <1>1, <1>3, <2>1 DEF Shelves, Reviewed
  <2>3. /\ version' \in Seq(VersionRow) /\ Len(version') = Len(version)
        /\ \A w \in DOMAIN version :
             /\ version'[w].material = version[w].material
             /\ version'[w].number = version[w].number
             /\ version[w].finalized => version'[w].finalized
             /\ version'[w].finalized => version[w].finalized \/ w = v
    BY <1>1, <2>1, FinalRow
  <2> QED
    BY <1>1, <1>4, <2>2, <2>3 DEF Judges, Shelves
<1> QED
  BY <1>5, <1>6

\* The decision on a draft: reviewed and finalized in one transaction
LEMMA DecideJudges ==
  ASSUME MaterialsInv, NEW c \in Clients, DecideCommit(c)
  PROVE  Judges
<1>1. /\ tx[c].version \in DOMAIN version /\ tx[c].status \in Statuses /\ Shelves
  BY DEF MaterialsInv, Underway, Seen, DecideCommit
<1>2. PICK v \in DOMAIN version : v = tx[c].version
  BY <1>1
<1>3. PICK m \in DOMAIN material : m = version[v].material
  BY <1>1 DEF Shelves, Owned
<1>4. material[m] \in MaterialRow
  BY <1>1, Rows
<1>5. PICK status \in Statuses : status = Write(material[m].status, tx[c].status, "approved")
  BY <1>1, <1>4 DEF MaterialRow, Write, Statuses
<1>6. /\ material' = [material EXCEPT ![m].status = status]
      /\ version' = [version EXCEPT ![v].finalized = TRUE]
      /\ approvals' = approvals \cup {v}
  BY <1>2, <1>3, <1>5 DEF DecideCommit
<1>7. /\ material' \in Seq(MaterialRow) /\ Len(material') = Len(material)
      /\ \A n \in DOMAIN material :
           /\ material'[n].package = material[n].package
           /\ material'[n].type = material[n].type
           /\ material'[n].active = material[n].active
           /\ n # m => material'[n].status = material[n].status
  BY <1>1, <1>6, StatusJudges
<1>8. /\ version' \in Seq(VersionRow) /\ Len(version') = Len(version)
      /\ \A w \in DOMAIN version :
           /\ version'[w].material = version[w].material
           /\ version'[w].number = version[w].number
           /\ version[w].finalized => version'[w].finalized
           /\ version'[w].finalized => version[w].finalized \/ w = v
  BY <1>1, <1>6, FinalRow
<1>9. v \in approvals' /\ version[v].material = m
  BY <1>3, <1>6
<1> QED
  BY <1>1, <1>6, <1>7, <1>8, <1>9 DEF Judges, Shelves

LEMMA EditExtends ==
  ASSUME MaterialsInv, NEW m \in DOMAIN material, Edit(m)
  PROVE  Extends(m)
<1>1. Shelves
  BY DEF MaterialsInv
<1>2. PICK claim \in Validated : Extend(m, NextVersion(m), claim, "draft")
  BY DEF Edit
<1>3. Extend(m, Top(m) + 1, claim, "draft")
  BY <1>1, <1>2, NextIsAboveTop
<1>4. Len(version) < MaxVersions /\ approvals' = approvals
  BY DEF Edit
<1>5. "draft" \in Statuses /\ "draft" # "approved"
  BY DEF Statuses
<1> QED
  BY <1>1, <1>3, <1>4, <1>5, ExtendExtends

\* A row that founds a Material, whatever its validation
LEMMA FirstRowFounds ==
  ASSUME Shelves, NEW row \in VersionRow, NEW p \in Packages, NEW type \in Types,
         row.material = Len(material) + 1, row.number = 1, ~row.finalized,
         version' = Append(version, row), Len(version) < MaxVersions,
         material' = Append(material, [package |-> p, type |-> type, status |-> "draft",
                                       active |-> Len(version) + 1]),
         Len(material) < MaxMaterials, approvals' = approvals
  PROVE  Founds
<1> DEFINE shelf == [package |-> p, type |-> type, status |-> "draft",
                     active |-> Len(version) + 1]
<1>1. Len(version) + 1 \in 0 .. MaxVersions
  BY Rows, MaterialsAssumption
<1>2. shelf \in MaterialRow
  BY <1>1 DEF MaterialRow
<1>3. shelf.active = Len(version) + 1 /\ shelf.status # "approved"
  OBVIOUS
<1>4. material' = Append(material, shelf)
  OBVIOUS
<1> HIDE DEF shelf
<1> QED
  BY <1>2, <1>3, <1>4 DEF Founds

\* Where a first Version goes
LEMMA FirstPlace ==
  ASSUME Shelves, Len(material) < MaxMaterials, Len(version) < MaxVersions
  PROVE  Len(material) + 1 \in 1 .. MaxMaterials /\ 1 \in 1 .. MaxVersions
BY Rows, MaterialsAssumption

LEMMA AnswerFounds ==
  ASSUME MaterialsInv, NEW p \in Packages, GenerateAnswer(p)
  PROVE  Founds
<1>1. Shelves /\ Len(material) < MaxMaterials /\ Len(version) < MaxVersions
  BY DEF MaterialsInv, GenerateAnswer, Bounded
<1>2. PICK claim \in Validated, asks \in BOOLEAN :
        version' = Append(version, [NewVersion(Len(material) + 1, 1, claim) EXCEPT
                     !.validation = IF asks THEN "needs_user_input" ELSE @])
  BY DEF GenerateAnswer
<1> DEFINE first == NewVersion(Len(material) + 1, 1, claim)
           row == [first EXCEPT !.validation = IF asks THEN "needs_user_input" ELSE @]
<1>3. /\ first \in VersionRow /\ first.material = Len(material) + 1 /\ first.number = 1
      /\ ~first.finalized
  BY <1>1, FirstPlace, NewIsRow
<1>4. version' = Append(version, row)
  BY <1>2
<1>5. /\ row \in VersionRow /\ row.material = Len(material) + 1 /\ row.number = 1
      /\ ~row.finalized
  <2> HIDE DEF first
  <2>1. first.validation \in {"valid", "invalid", "needs_user_input"}
    BY <1>3 DEF VersionRow
  <2>2. PICK val \in {"valid", "invalid", "needs_user_input"} :
          row = [first EXCEPT !.validation = val]
    BY <2>1
  <2> QED
    BY <1>3, <2>2 DEF VersionRow
<1>6. "application_answer" \in Types
  BY DEF Types
<1>7. /\ material' = Append(material, [package |-> p, type |-> "application_answer",
                                       status |-> "draft", active |-> Len(version) + 1])
      /\ approvals' = approvals
  BY DEF GenerateAnswer
<1> HIDE DEF row, first
<1> QED
  BY <1>1, <1>4, <1>5, <1>6, <1>7, FirstRowFounds

\* A generation: the unique key lets its Version in only behind the last.
LEMMA GenerateGrows ==
  ASSUME MaterialsInv, NEW c \in Clients, GenerateCommit(c)
  PROVE  Founds \/ \E m \in DOMAIN material : Extends(m)
<1>1. /\ Shelves /\ Len(version) < MaxVersions /\ approvals' = approvals
      /\ tx[c].op = "inserted"
  BY DEF MaterialsInv, GenerateCommit
<1>2. /\ tx[c].package \in Packages /\ tx[c].type \in Required
      /\ tx[c].material \in 0 .. Len(material) /\ tx[c].status \in Statuses
      /\ IF tx[c].material = 0 THEN tx[c].number = 1
         ELSE tx[c].number \in 1 .. (Top(tx[c].material) + 1)
  BY <1>1 DEF MaterialsInv, Underway, Seen
<1>3. PICK claim \in Validated :
         \/ /\ tx[c].material = 0 /\ Len(material) < MaxMaterials
            /\ version' = Append(version, NewVersion(Len(material) + 1, 1, claim))
            /\ material' = Append(material, [package |-> tx[c].package, type |-> tx[c].type,
                                             status |-> "draft", active |-> Len(version) + 1])
         \/ /\ tx[c].material # 0 /\ ~NumberTaken(tx[c].material, tx[c].number)
            /\ Extend(tx[c].material, tx[c].number, claim,
                      Write(material[tx[c].material].status, tx[c].status, "draft"))
  BY DEF GenerateCommit
<1>4. CASE tx[c].material = 0
  <2>1. /\ Len(material) < MaxMaterials
        /\ version' = Append(version, NewVersion(Len(material) + 1, 1, claim))
        /\ material' = Append(material, [package |-> tx[c].package, type |-> tx[c].type,
                                         status |-> "draft", active |-> Len(version) + 1])
    BY <1>3, <1>4
  <2>2. PICK row : row = NewVersion(Len(material) + 1, 1, claim)
    OBVIOUS
  <2>3. /\ row \in VersionRow /\ row.material = Len(material) + 1 /\ row.number = 1
        /\ ~row.finalized
    BY <1>1, <2>1, <2>2, FirstPlace, NewIsRow
  <2>4. tx[c].type \in Types
    BY <1>2 DEF Types
  <2> QED
    BY <1>1, <1>2, <2>1, <2>2, <2>3, <2>4, FirstRowFounds
<1>5. CASE tx[c].material # 0
  <2>1. PICK m \in DOMAIN material : m = tx[c].material
    BY <1>1, <1>2, <1>5, Rows
  <2>2. ~NumberTaken(m, tx[c].number) /\ tx[c].number \in 1 .. (Top(m) + 1)
    BY <1>2, <1>3, <1>5, <2>1
  <2>3. tx[c].number = Top(m) + 1
    <3>1. \A n \in 1 .. Top(m) : \E v \in VersionsOf(m) : version[v].number = n
      BY <1>1 DEF Shelves, Latest
    <3>2. tx[c].number \notin 1 .. Top(m)
      BY <2>2, <3>1 DEF NumberTaken
    <3>3. Top(m) \in Nat
      BY <1>1, TopIsNumber
    <3> QED
      BY <2>2, <3>2, <3>3
  <2>4. material[m].status \in Statuses
    BY <1>1, Rows DEF MaterialRow, Statuses
  <2>5. PICK status \in Statuses : status = Write(material[m].status, tx[c].status, "draft")
    BY <2>4 DEF Write, Statuses
  <2>6. status = "approved" => material[m].status = "approved"
    BY <2>5 DEF Write
  <2>7. Extend(m, Top(m) + 1, claim, status)
    BY <1>3, <1>5, <2>1, <2>3, <2>5
  <2> QED
    BY <1>1, <2>6, <2>7, ExtendExtends
<1> QED
  BY <1>4, <1>5

\* Every step is one of these.
LEMMA Effects ==
  ASSUME MaterialsInv, Next
  PROVE  Shelves' /\ Keeps
<1>1. Shelves
  BY DEF MaterialsInv
<1>2. Untouched \/ Founds \/ (\E m \in DOMAIN material : Extends(m)) \/ Judges
  <2>1. CASE PackageStep
    <3>1. PICK p \in Packages :
            CreatePackage(p) \/ UpdatePackage(p) \/ ArchivePackage(p) \/ GenerateAnswer(p)
      BY <2>1 DEF PackageStep
    <3> QED
      BY <3>1, AnswerFounds DEF CreatePackage, UpdatePackage, ArchivePackage, Untouched
  <2>2. CASE StartStep
    BY <2>2 DEF StartStep, ApproveRead, GenerateRead, DecideRead, ValidateRead, ConfirmRead,
       ReviewRead, FinalizeRead, JudgeRead, Begin, Untouched
  <2>3. CASE CommitStep
    <3>1. PICK c \in Clients :
            \/ ApproveCommit(c) \/ GenerateInsert(c) \/ GenerateCommit(c) \/ GiveUp(c)
            \/ ValidateCommit(c) \/ ConfirmCommit(c)
            \/ ReviewCommit(c) \/ FinalizeCommit(c) \/ DecideCommit(c)
      BY <2>3 DEF CommitStep
    <3>2. CASE ApproveCommit(c) \/ GenerateInsert(c) \/ GiveUp(c)
      BY <3>2 DEF ApproveCommit, GenerateInsert, GiveUp, Untouched
    <3> QED
      BY <3>1, <3>2, GenerateGrows, ValidateJudges, ReviewJudges, FinalizeJudges, DecideJudges
  <2>4. CASE MaterialStep
    BY <2>4, EditExtends, SendBackJudges DEF MaterialStep
  <2> QED
    BY <2>1, <2>2, <2>3, <2>4 DEF Next
<1> QED
  BY <1>1, <1>2, UntouchedKeeps, FoundsKeeps, ExtendsKeeps, JudgesKeeps

-----------------------------------------------------------------------------
(* What transactions have seen *)

LEMMA AllTopsAreNumbers == Shelves => \A m \in DOMAIN material : Top(m) \in Nat
BY TopIsNumber

LEMMA NextTopIsNumber ==
  ASSUME Shelves'
  PROVE  \A m \in DOMAIN material' : Top(m)' \in Nat
<1>1. (Shelves => \A m \in DOMAIN material : Top(m) \in Nat)'
  BY AllTopsAreNumbers, PTL
<1> QED
  BY <1>1

\* A step that keeps the rows keeps what was seen of them.
LEMMA SeenKept ==
  ASSUME Shelves, Shelves', Keeps, NEW t, Seen(t)
  PROVE  Seen(t)'
<1>1. /\ Len(material) <= Len(material') /\ Len(material) \in Nat /\ Len(material') \in Nat
      /\ DOMAIN material = 1 .. Len(material)
  <2>1. Len(material') \in Nat
    BY DEF Shelves
  <2> QED
    BY <2>1, Rows DEF Keeps
<1>2. t.op \in {"generate", "inserted"} => t.material \in 0 .. Len(material')
  BY <1>1 DEF Seen
<1>3. ASSUME t.op = "inserted", t.material # 0
      PROVE  t.number \in 1 .. (Top(t.material)' + 1)
  <2>1. PICK m \in DOMAIN material : m = t.material
    BY <1>1, <1>3 DEF Seen
  <2>2. t.number \in 1 .. (Top(m) + 1)
    BY <1>3, <2>1 DEF Seen
  <2>3. m \in DOMAIN material' /\ Top(m) <= Top(m)'
    BY DEF Keeps
  <2>4. Top(m) \in Nat
    BY TopIsNumber
  <2>5. Top(m)' \in Nat
    BY <2>3, NextTopIsNumber
  <2> QED
    BY <2>1, <2>2, <2>3, <2>4, <2>5
<1>4. t.op \in {"validate", "confirm", "review", "finalize", "decide"} =>
        t.version \in DOMAIN version'
  BY DEF Seen, Keeps
<1>5. t.op = "approve" =>
        \A v \in t.listed : /\ v \in DOMAIN version'
                            /\ material'[version'[v].material].package = t.package
  BY DEF Seen, Keeps, Shelves, Owned
<1> QED
  BY <1>2, <1>3, <1>4, <1>5 DEF Seen

\* reusable_material names a Material.
LEMMA NewestIsOne ==
  ASSUME Shelves, NEW p, NEW type
  PROVE  Newest(p, type) = 0 \/ Newest(p, type) \in DOMAIN material
<1> DEFINE same == {m \in DOMAIN material : material[m].package = p /\ material[m].type = type}
           older == {Len(material) - m : m \in same}
<1>1. CASE same = {}
  BY <1>1 DEF Newest
<1>2. CASE same # {}
  <2>1. \A m \in same : m \in 1 .. Len(material) /\ Len(material) \in Nat
    BY Rows
  <2>2. \E m \in same : \A n \in same : n <= m
    <3> HIDE DEF same
    <3>1. older \subseteq Nat /\ older # {}
      BY <1>2, <2>1
    <3>2. \E x \in older : \A y \in older : x <= y
      <4> DEFINE less == OpToRel(<, Nat)
      <4>1. \A x, y \in Nat : ~(<<y, x>> \in less) => x <= y
        BY DEF OpToRel
      <4>2. IsWellFoundedOn(less, Nat)
        BY NatLessThanWellFounded, Zenon
      <4> HIDE DEF older, less
      <4>3. \E x \in older : \A y \in older : ~(<<y, x>> \in less)
        BY <3>1, <4>2, WFMin
      <4> QED
        BY <3>1, <4>1, <4>3
    <3>3. PICK m \in same : \A y \in older : Len(material) - m <= y
      BY <3>2
    <3>4. \A n \in same : Len(material) - m <= Len(material) - n
      BY <3>3
    <3> QED
      BY <2>1, <3>4
  <2>3. Newest(p, type) \in same
    BY <1>2, <2>2 DEF Newest
  <2> QED
    BY <2>3
<1> QED
  BY <1>1, <1>2

\* What a transaction reads when it begins is of rows that exist.
LEMMA ReadsAreSeen ==
  ASSUME MaterialsInv, StartStep
  PROVE  \E c \in Clients : \E t :
           /\ Begin(c, t) /\ Seen(t) /\ Held(t)
           /\ t.op = "approve" => PackageFree(t.package)
<1>1. Shelves /\ package \in [Packages -> PackageRow]
  BY DEF MaterialsInv
<1>2. PICK c \in Clients :
        \/ \E p \in Packages : ApproveRead(c, p)
        \/ \E p \in Packages, type \in Required : GenerateRead(c, p, type)
        \/ \E p \in Packages, type \in Required : DecideRead(c, p, type)
        \/ \E v \in DOMAIN version : ValidateRead(c, v) \/ ConfirmRead(c, v)
        \/ \E v \in DOMAIN version : ReviewRead(c, v) \/ FinalizeRead(c, v)
  BY DEF StartStep
<1>3. SUFFICES \E t : /\ Begin(c, t) /\ Seen(t) /\ Held(t)
                      /\ t.op = "approve" => PackageFree(t.package)
  OBVIOUS
<1>4. CASE \E p \in Packages : ApproveRead(c, p)
  <2>1. PICK p \in Packages : ApproveRead(c, p)
    BY <1>4
  <2> DEFINE drafts == {n \in DOMAIN material :
                          /\ material[n].package = p /\ material[n].type \in Required
                          /\ material[n].status = "approved"}
             t == [op |-> "approve", package |-> p,
                   listed |-> {material[m].active : m \in drafts}]
  <2>2. \A v \in t.listed : /\ v \in DOMAIN version
                            /\ material[version[v].material].package = p
    BY <1>1 DEF Shelves, Latest, VersionsOf
  <2>3. Begin(c, t) /\ PackageFree(p)
    BY <2>1 DEF ApproveRead
  <2>4. package[p].status # "absent" /\ package[p].revision < MaxRevision
    BY <2>1 DEF ApproveRead
  <2>5. t.op = "approve" /\ t.package = p
    OBVIOUS
  <2> HIDE DEF t
  <2> QED
    BY <2>2, <2>3, <2>4, <2>5 DEF Seen, Held
<1>5. CASE \E p \in Packages, type \in Required : GenerateRead(c, p, type)
  <2>1. PICK p \in Packages, type \in Required : GenerateRead(c, p, type)
    BY <1>5
  <2>2. PICK m \in {0, Newest(p, type)} :
          /\ m # 0 => material[m].status # "approved"
          /\ Begin(c, [op |-> "generate", package |-> p, type |-> type, material |-> m,
                       status |-> IF m = 0 THEN "draft" ELSE material[m].status])
    BY <2>1 DEF GenerateRead
  <2>3. m \in 0 .. Len(material) /\ (m # 0 => m \in DOMAIN material)
    BY <1>1, NewestIsOne
  <2>4. PICK status \in Statuses : status = IF m = 0 THEN "draft" ELSE material[m].status
    BY <1>1, <2>3, Rows DEF MaterialRow, Statuses
  <2>5. PICK t : t = [op |-> "generate", package |-> p, type |-> type, material |-> m,
                      status |-> status]
    OBVIOUS
  <2>6. Begin(c, t)
    BY <2>2, <2>4, <2>5
  <2>7. Seen(t) /\ Held(t) /\ t.op # "approve"
    BY <2>3, <2>5 DEF Seen, Held
  <2> QED
    BY <2>6, <2>7
<1>6. CASE \E p \in Packages, type \in Required : DecideRead(c, p, type)
  <2>1. PICK p \in Packages, type \in Required : DecideRead(c, p, type)
    BY <1>6
  <2>2. PICK m : m = Newest(p, type)
    OBVIOUS
  <2>3. /\ m # 0
        /\ Begin(c, [op |-> "decide", version |-> material[m].active,
                     status |-> material[m].status])
    BY <2>1, <2>2 DEF DecideRead
  <2>4. m \in DOMAIN material
    BY <1>1, <2>2, <2>3, NewestIsOne
  <2>5. material[m].active \in DOMAIN version /\ material[m].status \in Statuses
    BY <1>1, <2>4, Rows, TopIsNumber DEF MaterialRow, Statuses
  <2>6. PICK t : t = [op |-> "decide", version |-> material[m].active,
                      status |-> material[m].status]
    OBVIOUS
  <2>7. Begin(c, t)
    BY <2>3, <2>6
  <2>8. Seen(t) /\ Held(t) /\ t.op # "approve"
    BY <2>5, <2>6 DEF Seen, Held
  <2> QED
    BY <2>7, <2>8
<1>7. CASE \E v \in DOMAIN version : ValidateRead(c, v) \/ ConfirmRead(c, v)
  <2>1. PICK v \in DOMAIN version, op \in {"validate", "confirm"} :
          Begin(c, [op |-> op, version |-> v, seen |-> version[v].validation])
    BY <1>7 DEF ValidateRead, ConfirmRead
  <2>2. PICK t : t = [op |-> op, version |-> v, seen |-> version[v].validation]
    OBVIOUS
  <2>3. Begin(c, t)
    BY <2>1, <2>2
  <2>4. version[v].validation \in Validations
    BY <1>1, Rows DEF VersionRow, Validations
  <2>5. Seen(t) /\ Held(t) /\ t.op # "approve"
    BY <2>2, <2>4 DEF Seen, Held
  <2> QED
    BY <2>3, <2>5
<1>8. CASE \E v \in DOMAIN version : ReviewRead(c, v) \/ FinalizeRead(c, v)
  <2>1. PICK v \in DOMAIN version, op \in {"review", "finalize"} :
          Begin(c, [op |-> op, version |-> v])
    BY <1>8 DEF ReviewRead, FinalizeRead, JudgeRead
  <2>2. PICK t : t = [op |-> op, version |-> v]
    OBVIOUS
  <2>3. Seen(t) /\ Held(t) /\ t.op # "approve"
    BY <2>2 DEF Seen, Held
  <2> QED
    BY <2>1, <2>2, <2>3
<1> QED
  BY <1>2, <1>4, <1>5, <1>6, <1>7, <1>8

\* A Version is numbered behind the last one there is.
LEMMA InsertIsSeen ==
  ASSUME MaterialsInv, NEW c \in Clients, GenerateInsert(c)
  PROVE  \E t : tx' = [tx EXCEPT ![c] = t] /\ Seen(t) /\ t.op = "inserted"
<1>1. tx[c].op = "generate" /\ Shelves
  BY DEF MaterialsInv, GenerateInsert
<1>2. /\ tx[c].package \in Packages /\ tx[c].type \in Required
      /\ tx[c].material \in 0 .. Len(material) /\ tx[c].status \in Statuses
  BY <1>1 DEF MaterialsInv, Underway, Seen
<1>3. PICK n : n = IF tx[c].material = 0 THEN 1 ELSE NextVersion(tx[c].material)
  OBVIOUS
<1>4. PICK t : t = [op |-> "inserted", package |-> tx[c].package, type |-> tx[c].type,
                    material |-> tx[c].material, status |-> tx[c].status, number |-> n]
  OBVIOUS
<1>5. tx' = [tx EXCEPT ![c] = t]
  BY <1>3, <1>4 DEF GenerateInsert
<1>6. IF tx[c].material = 0 THEN n = 1 ELSE n \in 1 .. (Top(tx[c].material) + 1)
  <2>1. CASE tx[c].material # 0
    <3>1. PICK m \in DOMAIN material : m = tx[c].material
      BY <1>1, <1>2, <2>1, Rows
    <3>2. n = Top(m) + 1 /\ Top(m) \in Nat
      BY <1>1, <1>3, <2>1, <3>1, NextIsAboveTop, TopIsNumber
    <3>3. n \in 1 .. (Top(m) + 1)
      BY <3>2
    <3> QED
      BY <2>1, <3>1, <3>3
  <2> QED
    BY <1>3, <2>1
<1>7. /\ t.op = "inserted" /\ t.package = tx[c].package /\ t.type = tx[c].type
      /\ t.material = tx[c].material /\ t.status = tx[c].status /\ t.number = n
  BY <1>4
<1>8. Seen(t)
  BY <1>2, <1>6, <1>7 DEF Seen
<1> QED
  BY <1>5, <1>7, <1>8

\* Transactions go on, end, or begin (insert) with what they have seen.
Ends == DOMAIN tx' = Clients /\ \A c \in Clients : tx'[c] = tx[c] \/ tx'[c] = Idle

Goes(c, t) ==
  /\ tx' = [tx EXCEPT ![c] = t] /\ package' = package
  /\ Seen(t) /\ Held(t)
  /\ t.op = "approve" => PackageFree(t.package)

LEMMA TransactionSteps ==
  ASSUME MaterialsInv, Next
  PROVE  Ends \/ \E c \in Clients : \E t : Goes(c, t)
<1>1. DOMAIN tx = Clients
  BY DEF MaterialsInv
<1>2. CASE PackageStep \/ MaterialStep
  BY <1>1, <1>2 DEF PackageStep, MaterialStep, CreatePackage, UpdatePackage, ArchivePackage,
     GenerateAnswer, Edit, SendBack, Ends
<1>3. CASE StartStep
  BY <1>3, ReadsAreSeen DEF Begin, Goes
<1>4. CASE CommitStep
  <2>1. PICK c \in Clients :
          \/ ApproveCommit(c) \/ GenerateInsert(c) \/ GenerateCommit(c) \/ GiveUp(c)
          \/ ValidateCommit(c) \/ ConfirmCommit(c)
          \/ ReviewCommit(c) \/ FinalizeCommit(c) \/ DecideCommit(c)
    BY <1>4 DEF CommitStep
  <2>2. CASE GenerateInsert(c)
    <3>1. PICK t : tx' = [tx EXCEPT ![c] = t] /\ Seen(t) /\ t.op = "inserted"
      BY <2>2, InsertIsSeen
    <3> QED
      BY <2>2, <3>1 DEF GenerateInsert, Goes, Held
  <2>3. CASE ValidateCommit(c)
    BY <2>3 DEF ValidateCommit, Ends
  <2>4. CASE /\ ~GenerateInsert(c) /\ ~ValidateCommit(c)
    <3>1. tx' = [tx EXCEPT ![c] = Idle]
      BY <2>1, <2>4 DEF ApproveCommit, GenerateCommit, GiveUp, ConfirmCommit, ReviewCommit,
         FinalizeCommit, DecideCommit
    <3> QED
      BY <1>1, <3>1 DEF Ends
  <2> QED
    BY <2>2, <2>3, <2>4
<1> QED
  BY <1>2, <1>3, <1>4 DEF Next

-----------------------------------------------------------------------------
(* What happens to Packages *)

\* What an approval accepts: for every required type a finalized Version.
Accepts(c) ==
  LET accepted == {material[version[v].material].type :
                     v \in {w \in tx[c].listed : Acceptable(w)}}
  IN accepted = Required

\* Package p is given a row: one that was approved already, or one that is not approved, or
\* what client c approves.
Gives(p, row) ==
  /\ row \in PackageRow /\ package' = [package EXCEPT ![p] = row]
  /\ row.status = "approved" => package[p].status = "approved" \/
       \E c \in Clients : /\ tx[c].op = "approve" /\ tx[c].package = p
                          /\ Accepts(c) /\ UNCHANGED <<material, version>>
  /\ \A c \in Clients : tx[c].op = "approve" /\ tx[c].package = p => tx'[c] = Idle

\* A Package changes its status and gets the next revision.
LEMMA RowGiven ==
  ASSUME package \in [Packages -> PackageRow], NEW p \in Packages,
         NEW status \in {"draft", "approved", "archived"}, package[p].revision < MaxRevision,
         package' = [package EXCEPT ![p].status = status,
                                    ![p].revision = package[p].revision + 1]
  PROVE  \E row \in PackageRow : row.status = status /\ package' = [package EXCEPT ![p] = row]
<1> DEFINE one == [package EXCEPT ![p].status = status]
           first == [package[p] EXCEPT !.status = status]
           row == [first EXCEPT !.revision = package[p].revision + 1]
<1>1. package[p] \in PackageRow /\ MaxRevision \in Nat
  BY MaterialsAssumption
<1>2. first \in PackageRow /\ first.status = status
  BY <1>1 DEF PackageRow
<1>3. package[p].revision + 1 \in 0 .. MaxRevision
  BY <1>1 DEF PackageRow
<1>4. row \in PackageRow /\ row.status = status
  <2> HIDE DEF first
  <2> QED
    BY <1>2, <1>3 DEF PackageRow
<1>5. one = [package EXCEPT ![p] = first]
  OBVIOUS
<1> HIDE DEF first
<1>6. one[p] = first
  <2> HIDE DEF one
  <2> QED
    BY <1>5
<1>7. package' = [one EXCEPT ![p].revision = package[p].revision + 1]
  OBVIOUS
<1> HIDE DEF one
<1>8. package' = [one EXCEPT ![p] = row]
  BY <1>6, <1>7
<1> HIDE DEF row
<1>9. package' = [package EXCEPT ![p] = row]
  BY <1>5, <1>8
<1> QED
  BY <1>4, <1>9

LEMMA PackageSteps ==
  ASSUME MaterialsInv, Next
  PROVE  package' = package \/ \E p \in Packages, row \in PackageRow : Gives(p, row)
<1>1. /\ package \in [Packages -> PackageRow] /\ MaxRevision \in Nat /\ MaxRevision >= 1
  BY MaterialsAssumption DEF MaterialsInv
<1>2. SUFFICES ASSUME package' # package
               PROVE  \E p \in Packages, row \in PackageRow : Gives(p, row)
  OBVIOUS
<1>3. CASE \E p \in Packages : CreatePackage(p)
  <2>1. PICK p \in Packages : CreatePackage(p)
    BY <1>3
  <2>2. PICK row : row = [status |-> "draft", revision |-> 1]
    OBVIOUS
  <2>3. row \in PackageRow /\ row.status # "approved"
    BY <1>1, <2>2 DEF PackageRow
  <2>4. package' = [package EXCEPT ![p] = row]
    BY <2>1, <2>2 DEF CreatePackage
  <2>5. \A c \in Clients : ~(tx[c].op = "approve" /\ tx[c].package = p)
    BY <2>1 DEF CreatePackage, MaterialsInv, Underway, Held
  <2> QED
    BY <2>3, <2>4, <2>5 DEF Gives
<1>4. CASE \E p \in Packages : UpdatePackage(p)
  <2>1. PICK p \in Packages : UpdatePackage(p)
    BY <1>4
  <2>2. package[p] \in PackageRow /\ package[p].revision < MaxRevision
    BY <1>1, <2>1 DEF UpdatePackage
  <2>3. PICK row : row = [package[p] EXCEPT !.revision = package[p].revision + 1]
    OBVIOUS
  <2>4. row \in PackageRow /\ row.status = "draft"
    BY <1>1, <2>1, <2>2, <2>3 DEF PackageRow, UpdatePackage
  <2>5. package' = [package EXCEPT ![p] = row]
    BY <2>1, <2>3 DEF UpdatePackage
  <2>6. \A c \in Clients : ~(tx[c].op = "approve" /\ tx[c].package = p)
    BY <2>1 DEF UpdatePackage, PackageFree
  <2> QED
    BY <2>4, <2>5, <2>6 DEF Gives
<1>5. CASE \E p \in Packages : ArchivePackage(p)
  <2>1. PICK p \in Packages : ArchivePackage(p)
    BY <1>5
  <2>2. /\ package' = [package EXCEPT ![p].status = "archived",
                                      ![p].revision = package[p].revision + 1]
        /\ package[p].revision < MaxRevision
    BY <2>1 DEF ArchivePackage
  <2>3. PICK row \in PackageRow : /\ row.status = "archived"
                                  /\ package' = [package EXCEPT ![p] = row]
    BY <1>1, <2>2, RowGiven
  <2>4. \A c \in Clients : ~(tx[c].op = "approve" /\ tx[c].package = p)
    BY <2>1 DEF ArchivePackage, PackageFree
  <2> QED
    BY <2>3, <2>4 DEF Gives
<1>6. CASE \E c \in Clients : ApproveCommit(c)
  <2>1. PICK c \in Clients : ApproveCommit(c)
    BY <1>6
  <2>2. tx[c].op = "approve" /\ tx[c].package \in Packages
    BY <2>1 DEF ApproveCommit, MaterialsInv, Underway, Seen
  <2>3. PICK p \in Packages : p = tx[c].package
    BY <2>2
  <2>4. /\ package' = [package EXCEPT ![p].status = "approved",
                                      ![p].revision = package[p].revision + 1]
        /\ Accepts(c) /\ UNCHANGED <<material, version>>
        /\ tx' = [tx EXCEPT ![c] = Idle]
    BY <1>2, <2>1, <2>3 DEF ApproveCommit, Accepts
  <2>5. package[p].revision < MaxRevision
    BY <2>2, <2>3 DEF MaterialsInv, Underway, Held
  <2>6. PICK row \in PackageRow : package' = [package EXCEPT ![p] = row]
    BY <1>1, <2>4, <2>5, RowGiven
  <2>7. \A d \in Clients : tx[d].op = "approve" /\ tx[d].package = p => tx'[d] = Idle
    BY <2>2, <2>3, <2>4 DEF MaterialsInv, Locks
  <2> QED
    BY ZenonT(60), <2>2, <2>3, <2>4, <2>6, <2>7 DEF Gives
<1> QED
  BY <1>2, <1>3, <1>4, <1>5, <1>6 DEF Next, PackageStep, StartStep, CommitStep, MaterialStep,
     GenerateAnswer, ApproveRead, GenerateRead, DecideRead, ValidateRead, ConfirmRead,
     ReviewRead, FinalizeRead, JudgeRead, Begin, GenerateInsert, GenerateCommit, GiveUp,
     ValidateCommit, ConfirmCommit, ReviewCommit, FinalizeCommit, DecideCommit, Edit, SendBack

-----------------------------------------------------------------------------
(* The invariant *)

LEMMA RequestsCounted ==
  ASSUME MaterialsInv, Next
  PROVE  requests' \in 0 .. MaxRequests
<1>1. requests' = requests \/ (requests < MaxRequests /\ requests' = requests + 1)
  BY ZenonT(60) DEF Next, PackageStep, StartStep, CommitStep, MaterialStep, CreatePackage, UpdatePackage,
     ArchivePackage, GenerateAnswer, ApproveRead, GenerateRead, DecideRead, ValidateRead,
     ConfirmRead, ReviewRead, FinalizeRead, JudgeRead, Begin, ApproveCommit, GenerateInsert,
     GenerateCommit, GiveUp, ValidateCommit, ConfirmCommit, ReviewCommit, FinalizeCommit,
     DecideCommit, Edit, SendBack
<1> QED
  BY <1>1, MaterialsAssumption DEF MaterialsInv

LEMMA UnderwayKept ==
  ASSUME MaterialsInv, Next
  PROVE  Underway' /\ Locks' /\ DOMAIN tx' = Clients
<1>1. Shelves /\ Shelves' /\ Keeps /\ DOMAIN tx = Clients
  BY Effects DEF MaterialsInv
<1>2. \A t : Seen(t) => Seen(t)'
  BY <1>1, SeenKept
<1>3. Seen(Idle)' /\ Held(Idle)' /\ Idle.op # "approve"
  BY DEF Seen, Held, Idle
<1>4. CASE Ends
  <2>1. \A c \in Clients : tx'[c].op = "approve" =>
          /\ tx'[c] = tx[c] /\ tx'[c].package \in Packages
          /\ package'[tx[c].package] = package[tx[c].package]
    <3> SUFFICES ASSUME NEW c \in Clients, tx'[c].op = "approve"
                 PROVE  /\ tx'[c] = tx[c] /\ tx'[c].package \in Packages
                        /\ package'[tx[c].package] = package[tx[c].package]
      OBVIOUS
    <3>1. tx'[c] = tx[c]
      BY <1>3, <1>4 DEF Ends
    <3>2. tx[c].op = "approve" /\ tx[c].package \in Packages
      BY <3>1 DEF MaterialsInv, Underway, Seen
    <3>3. CASE \E p \in Packages, row \in PackageRow : Gives(p, row)
      <4>1. PICK p \in Packages, row \in PackageRow : Gives(p, row)
        BY <3>3
      <4>2. tx[c].package # p
        BY <1>3, <3>1, <3>2, <4>1 DEF Gives
      <4> QED
        BY <3>1, <3>2, <4>1, <4>2 DEF Gives
    <3> QED
      BY <3>1, <3>2, <3>3, PackageSteps
  <2>2. ASSUME NEW c \in Clients
        PROVE  (Seen(tx[c]) /\ Held(tx[c]))'
    <3>1. PICK t : t = tx'[c]
      OBVIOUS
    <3>2. t = tx[c] \/ t = Idle
      BY <1>4, <3>1 DEF Ends
    <3>3. Seen(t)'
      BY <1>2, <1>3, <3>2 DEF MaterialsInv, Underway
    <3>4. Held(t)'
      BY <2>1, <3>1, <3>2 DEF MaterialsInv, Underway, Held
    <3> QED
      BY <3>1, <3>3, <3>4 DEF Seen, Held, Top
  <2> QED
    BY <1>4, <2>1, <2>2 DEF Ends, Underway, Locks, MaterialsInv
<1>5. CASE \E c \in Clients : \E t : Goes(c, t)
  <2>1. PICK c \in Clients : \E t : Goes(c, t)
    BY <1>5
  <2>2. PICK t : Goes(c, t)
    BY <2>1
  <2>3. /\ DOMAIN tx' = Clients /\ tx'[c] = t /\ package' = package
        /\ \A d \in Clients \ {c} : tx'[d] = tx[d]
    BY <1>1, <2>2 DEF Goes
  <2>4. ASSUME NEW d \in Clients
        PROVE  (Seen(tx[d]) /\ Held(tx[d]))'
    <3>1. PICK u : u = tx'[d]
      OBVIOUS
    <3>2. Seen(u) /\ Held(u)
      BY <2>2, <2>3, <3>1 DEF Goes, MaterialsInv, Underway
    <3>3. Seen(u)' /\ Held(u)'
      BY <1>2, <2>3, <3>2 DEF Held
    <3> QED
      BY <3>1, <3>3 DEF Seen, Held, Top
  <2>5. Locks'
    BY <2>2, <2>3 DEF Goes, PackageFree, Locks, MaterialsInv
  <2> QED
    BY <2>3, <2>4, <2>5 DEF Underway
<1> QED
  BY <1>4, <1>5, TransactionSteps

LEMMA BasisKept ==
  ASSUME MaterialsInv, Next
  PROVE  package' \in [Packages -> PackageRow] /\ Basis'
<1>1. Shelves /\ Keeps /\ package \in [Packages -> PackageRow] /\ Basis
  BY Effects DEF MaterialsInv
<1> DEFINE Stands(p, type, v) == /\ version[v].finalized
                                 /\ material[version[v].material].type = type
                                 /\ material[version[v].material].package = p
<1>2. ASSUME NEW p, NEW type, NEW v \in DOMAIN version, Stands(p, type, v)
      PROVE  v \in DOMAIN version' /\ Stands(p, type, v)'
  <2>1. version[v].material \in DOMAIN material
    BY <1>1 DEF Shelves, Owned
  <2> QED
    BY <1>1, <1>2, <2>1 DEF Keeps
<1>3. ASSUME NEW p \in Packages, NEW type \in Required, package'[p].status = "approved"
      PROVE  \E v \in DOMAIN version : Stands(p, type, v)
  <2>1. CASE package[p].status = "approved"
    BY <1>1, <2>1 DEF Basis
  <2>2. CASE package[p].status # "approved"
    <3>1. PICK q \in Packages, row \in PackageRow : Gives(q, row)
      BY <1>3, <2>2, PackageSteps
    <3>2. q = p /\ row.status = "approved"
      BY <1>1, <1>3, <2>2, <3>1 DEF Gives
    <3>3. PICK c \in Clients : tx[c].op = "approve" /\ tx[c].package = p /\ Accepts(c)
      BY <2>2, <3>1, <3>2 DEF Gives
    <3>4. PICK v \in tx[c].listed :
            Acceptable(v) /\ material[version[v].material].type = type
      BY <3>3 DEF Accepts
    <3>5. v \in DOMAIN version /\ material[version[v].material].package = p
      BY <3>3, <3>4 DEF MaterialsInv, Underway, Seen
    <3> QED
      BY <3>4, <3>5 DEF Acceptable
  <2> QED
    BY <2>1, <2>2
<1>4. Basis'
  BY <1>2, <1>3 DEF Basis
<1>5. package' \in [Packages -> PackageRow]
  BY <1>1, PackageSteps DEF Gives
<1> QED
  BY <1>4, <1>5

LEMMA MaterialsInvHolds == Spec => []MaterialsInv
<1>1. Init => MaterialsInv
  <2> SUFFICES ASSUME Init
               PROVE  MaterialsInv
    OBVIOUS
  <2>1. package \in [Packages -> PackageRow] /\ Basis
    BY MaterialsAssumption DEF Init, PackageRow, Basis
  <2>2. DOMAIN tx = Clients /\ \A c \in Clients : tx[c] = Idle
    BY DEF Init
  <2>3. \A c \in Clients : tx[c].op = "idle"
    BY <2>2 DEF Idle
  <2>4. Underway /\ Locks
    BY <2>3 DEF Underway, Seen, Held, Locks
  <2>5. /\ material = << >> /\ version = << >> /\ approvals = {}
        /\ material \in Seq(MaterialRow) /\ version \in Seq(VersionRow)
        /\ Len(material) = 0 /\ Len(version) = 0
        /\ DOMAIN material = {} /\ DOMAIN version = {}
    BY EmptySeq DEF Init
  <2>6. Shelves
    BY <2>5, MaterialsAssumption DEF Shelves, Owned, Latest, Reviewed, Finals
  <2>7. requests \in 0 .. MaxRequests
    BY MaterialsAssumption DEF Init
  <2> QED
    BY <2>1, <2>2, <2>4, <2>6, <2>7 DEF MaterialsInv
<1>2. MaterialsInv /\ [Next]_vars => MaterialsInv'
  <2>1. MaterialsInv /\ Next => MaterialsInv'
    BY Effects, RequestsCounted, UnderwayKept, BasisKept DEF MaterialsInv
  <2>2. MaterialsInv /\ UNCHANGED vars => MaterialsInv'
    <3> SUFFICES ASSUME MaterialsInv, UNCHANGED vars
                 PROVE  MaterialsInv'
      OBVIOUS
    <3>1. /\ package' = package /\ material' = material /\ version' = version
          /\ approvals' = approvals /\ tx' = tx /\ requests' = requests
      BY DEF vars
    <3>2. Shelves'
      BY <3>1, UntouchedKeeps DEF MaterialsInv, Untouched
    <3>3. \A m : Top(m)' = Top(m)
      BY <3>1 DEF Top
    <3>4. Underway' /\ Locks' /\ Basis'
      BY <3>1, <3>3 DEF MaterialsInv, Underway, Seen, Held, Locks, Basis
    <3> QED
      BY <3>1, <3>2, <3>4 DEF MaterialsInv
  <2> QED
    BY <2>1, <2>2
<1> QED
  BY <1>1, <1>2, PTL DEF Spec

-----------------------------------------------------------------------------
(* The theorems *)

\* Type correctness: the rows, the reviews and the transactions are what their columns and
\* the operations of app/materials/service.py allow.
THEOREM MaterialsTypeCorrect == Spec => []TypeOK
<1>1. MaterialsInv => TypeOK
  BY DEF MaterialsInv, Shelves, TypeOK
<1> QED
  BY <1>1, MaterialsInvHolds, PTL

\* Whatever generations, edits and reviews interleave, the Versions of a Material are
\* numbered 1, 2, 3, ... and the last is the active one (_create_version, edit,
\* _material_for_generation and the unique key of the numbers).
THEOREM ActiveVersionIsLatest == Spec => []ActiveIsLatest
<1>1. MaterialsInv => ActiveIsLatest
  BY LatestCounted DEF MaterialsInv
<1> QED
  BY <1>1, MaterialsInvHolds, PTL

\* What was finalized has a review of its Material, and an approved Package a finalized
\* Version of every required type, whatever was edited or validated between the read and
\* the commit of finalize and approve_package, or since.
THEOREM ApprovalsHaveBasis == Spec => []ApprovalHasBasis
<1>1. MaterialsInv => ApprovalHasBasis
  BY DEF MaterialsInv, Shelves, Finals, Basis, ApprovalHasBasis
<1> QED
  BY <1>1, MaterialsInvHolds, PTL
==============================================================================
