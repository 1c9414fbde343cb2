---------------------------- MODULE CareerProfile -----------------------------
(***************************************************************************)
(* The career profile of one owner (app/profile/service.py): fields, items *)
(* and a preference, a revision that every change raises, and a snapshot   *)
(* of every revision but the first, to go back to.                         *)
(*                                                                         *)
(* A change locks the profile row before it reads anything, so it is one   *)
(* step; it carries the revision its page was loaded with.  A GET locks    *)
(* nothing, and writes the completeness it computed when it commits.       *)
(***************************************************************************)
EXTENDS Integers, Sequences, FiniteSets, FiniteSetsExt, SequencesExt

CONSTANTS
  Pages,        \* pages open at once
  Values,       \* what a field, an item or a preference may say
  Blank,        \* nothing
  Copies,       \* the confirmed items of a Resume Version, in its order
  MaxItems,     \* bound: items ever created
  MaxRevision   \* bound: revisions

VARIABLES
  profile,   \* the row of career_profiles: its revision (0: no row yet) and score
  content,   \* its fields, the rows of its items and of its preference
  snapshot,  \* rows of profile_revisions
  shown,     \* the revision a page was loaded with
  getting    \* a GET under way

profileVars == <<profile, content, snapshot, shown, getting>>

-----------------------------------------------------------------------------
RESOURCE_MODELS == {"experiences", "projects"}

\* An item without a field of REQUIRED_FIELDS is Blank.
Item == [resource : RESOURCE_MODELS, value : Values \cup {Blank}]
ContentRow == [fields : Values \cup {Blank}, items : UNION {[ids -> Item] : ids \in SUBSET (1..MaxItems)},
               preference : Values \cup {Blank}]

\* CareerProfile
ProfileRow == [revision : 0..MaxRevision, score : 0..3]
\* ProfileRevision: what it was restored from, 0 for any other change
SnapshotRow == [revision : 1..MaxRevision, restored : 0..MaxRevision, content : ContentRow,
                score : 0..3]

Nothing == [fields |-> Blank, items |-> << >>, preference |-> Blank]
NoGet == [op |-> "none"]

TypeOK ==
  /\ profile \in ProfileRow
  /\ content.fields \in Values \cup {Blank} /\ content.preference \in Values \cup {Blank}
  /\ DOMAIN content.items \subseteq 1..MaxItems
  /\ \A i \in DOMAIN content.items : content.items[i] \in Item
  /\ Len(snapshot) < MaxRevision
  /\ shown \in [Pages -> 0..MaxRevision]
  /\ getting.op \in {"none", "row", "items"}

Init ==
  /\ profile = [revision |-> 0, score |-> 0]
  /\ content = Nothing
  /\ snapshot = << >>
  /\ shown = [p \in Pages |-> 0]
  /\ getting = NoGet

-----------------------------------------------------------------------------
\* _completeness, with a section for the fields, one for a resource it counts
\* and one for the preference
Completeness(c) ==
  Cardinality({section \in {"fields", "experiences", "preference"} :
    \/ section = "fields" /\ c.fields # Blank
    \/ section = "experiences" /\ \E i \in DOMAIN c.items : c.items[i].resource = "experiences"
    \/ section = "preference" /\ c.preference # Blank})

\* _record of the contents a request flushed one after the other
Record(contents, from) ==
  LET n == Len(contents)
      row(i) == [revision |-> profile.revision + i, restored |-> from, content |-> contents[i],
                 score |-> Completeness(contents[i])]
  IN /\ profile.revision + n <= MaxRevision
     /\ profile' = [revision |-> profile.revision + n, score |-> Completeness(contents[n])]
     /\ content' = contents[n]
     /\ snapshot' = snapshot \o [i \in 1..n |-> row(i)]
     /\ UNCHANGED <<shown, getting>>

\* get_or_create with for_update, then _expect.
Expected(p) == profile.revision > 0 /\ shown[p] = profile.revision

\* A new uuid: one no row and no snapshot has.
Used == DOMAIN content.items \cup UNION {DOMAIN snapshot[i].content.items : i \in DOMAIN snapshot}
NewId == Cardinality(Used) + 1

\* get_or_create of the first request; a second one at the same time fails on
\* the unique user_id.
FirstGet ==
  /\ profile.revision = 0
  /\ profile' = [profile EXCEPT !.revision = 1]
  /\ UNCHANGED <<content, snapshot, shown, getting>>

Load(p) ==
  /\ profile.revision > 0
  /\ shown' = [shown EXCEPT ![p] = profile.revision]
  /\ UNCHANGED <<profile, content, snapshot, getting>>

UpdateProfile(p, value) ==
  /\ Expected(p)
  /\ Record(<<[content EXCEPT !.fields = value]>>, 0)

With(c, id, item) ==
  [c EXCEPT !.items = [i \in DOMAIN c.items \cup {id} |-> IF i = id THEN item ELSE c.items[i]]]

\* create_item; _item_values refuses an item without its required fields.
CreateItem(p, item) ==
  /\ Expected(p) /\ item.value # Blank /\ NewId <= MaxItems
  /\ Record(<<With(content, NewId, item)>>, 0)

\* update_item asks for no required field.
UpdateItem(p, id, value) ==
  /\ Expected(p) /\ id \in DOMAIN content.items
  /\ Record(<<With(content, id, [content.items[id] EXCEPT !.value = value])>>, 0)

DeleteItem(p, id) ==
  /\ Expected(p) /\ id \in DOMAIN content.items
  /\ Record(<<[content EXCEPT !.items = [i \in DOMAIN @ \ {id} |-> @[i]]]>>, 0)

\* set_preference, delete_preference
SetPreference(p, value) ==
  /\ Expected(p)
  /\ Record(<<[content EXCEPT !.preference = value]>>, 0)

\* Mutant: the preference is not deleted.
RestoreBesides(p, n) ==
  /\ Expected(p)
  /\ \E i \in DOMAIN snapshot :
       /\ snapshot[i].revision = n
       /\ Record(<<[snapshot[i].content EXCEPT !.preference = IF @ = Blank THEN content.preference ELSE @]>>, n)

\* restore: the fields are set, clear_items deletes every item and the
\* preference, and the ones of the snapshot are added again.
Restore(p, n) ==
  /\ Expected(p)
  /\ \E i \in DOMAIN snapshot :
       /\ snapshot[i].revision = n
       /\ Record(<<snapshot[i].content>>, n)

\* confirm_import (routers/resumes.py): one create_item after the other, each
\* with the next revision.  An item without its required fields ends the
\* request with 400, and the middleware commits the ones before it.
ConfirmImport(p, copy) ==
  LET refused == {i \in DOMAIN copy : copy[i].value = Blank}
      n == IF refused = {} THEN Len(copy) ELSE Min(refused) - 1
      Upto(k) == [content EXCEPT !.items =
        [i \in DOMAIN @ \cup (NewId..(NewId + k - 1)) |->
           IF i \in DOMAIN @ THEN @[i] ELSE copy[i - NewId + 1]]]
  IN /\ Expected(p) /\ n > 0 /\ NewId + n - 1 <= MaxItems
     /\ Record([k \in 1..n |-> Upto(k)], 0)

-----------------------------------------------------------------------------
(* get: the row, then the items, and the score when it differs. *)
GetRow ==
  /\ getting = NoGet /\ profile.revision > 0
  /\ getting' = [op |-> "row", score |-> profile.score]
  /\ UNCHANGED <<profile, content, snapshot, shown>>

GetItems ==
  /\ getting.op = "row"
  /\ getting' = [op |-> "items", score |-> getting.score, computed |-> Completeness(content)]
  /\ UNCHANGED <<profile, content, snapshot, shown>>

GetCommit ==
  /\ getting.op = "items"
  /\ profile' = IF getting.computed = getting.score THEN profile
                ELSE [profile EXCEPT !.score = getting.computed]
  /\ getting' = NoGet
  /\ UNCHANGED <<content, snapshot, shown>>

-----------------------------------------------------------------------------
Change(p) ==
  \/ \E value \in Values \cup {Blank} : UpdateProfile(p, value) \/ SetPreference(p, value)
  \/ \E item \in Item : CreateItem(p, item)
  \/ \E id \in 1..MaxItems :
       DeleteItem(p, id) \/ \E value \in Values \cup {Blank} : UpdateItem(p, id, value)
  \/ \E n \in 1..MaxRevision : Restore(p, n)
  \/ \E copy \in Copies : ConfirmImport(p, copy)

Next ==
  \/ FirstGet \/ GetRow \/ GetItems \/ GetCommit
  \/ \E p \in Pages : Load(p) \/ Change(p)

Spec == Init /\ [][Next]_profileVars

-----------------------------------------------------------------------------
\* The history of a profile can be trusted, whichever requests failed midway:
\* its snapshots are the revisions from the second to the current one, each
\* with the completeness of what it holds; the last one is what the profile is
\* now; and a restored revision is the one it names, items, preference and all.
ProfileHistory ==
  /\ profile.revision > 0 => Len(snapshot) = profile.revision - 1
  /\ \A i \in DOMAIN snapshot :
       /\ snapshot[i].revision = i + 1
       /\ snapshot[i].score = Completeness(snapshot[i].content)
       /\ LET n == snapshot[i].restored
          IN n > 0 => n <= i /\ snapshot[n - 1].content = snapshot[i].content
  /\ content = IF snapshot = << >> THEN Nothing ELSE Last(snapshot).content
=============================================================================
