---------------------------- MODULE KnowledgeIndex ----------------------------
(***************************************************************************)
(* The Project Knowledge: one file (project_knowledge_runtime.py), and its *)
(* chunks in the database (database.py), which Analyze searches.           *)
(*                                                                         *)
(* An upload runs on the event loop, so there is one at a time; a rebuild  *)
(* or a search runs on a thread.  Rebuilding is a transaction under READ   *)
(* COMMITTED: each of its statements sees what was committed before it     *)
(* began, and a row it deletes or updates is locked until it commits.      *)
(***************************************************************************)
EXTENDS Naturals, FiniteSets, FiniteSetsExt

CONSTANTS
  Threads,      \* the requests under way at once
  Contents,     \* the contents of the file
  Chunks,       \* [Contents -> how many chunks build_text_chunks makes of it]
  FullText,     \* the contents whose chunks the full-text index finds
  Scanned,      \* the contents whose chunks the scan finds
  NoFile,       \* the file does not exist
  MaxDocuments  \* bound: identifiers drawn for documents

VARIABLES
  file,      \* the content of PROJECT_KNOWLEDGE.md
  drawn,     \* the identifiers drawn so far, committed or not
  document,  \* rows of knowledge_documents: [id -> chunk_count]
  chunk,     \* rows of knowledge_chunks
  thread,    \* what each request is doing
  found      \* what the last search answered

knowledgeVars == <<file, drawn, document, chunk, thread, found>>

\* Their columns, without the texts and dates
DocumentRow == Nat
ChunkRow == [document : 1..MaxDocuments, index : Nat, content : Contents]
Idle == [at |-> "idle"]
NothingFound == [method |-> "none", chunks |-> {}]

TypeOK ==
  /\ file \in Contents \cup {NoFile}
  /\ drawn \in 0..MaxDocuments
  /\ DOMAIN document \subseteq 1..drawn
  /\ \A d \in DOMAIN document : document[d] \in DocumentRow
  /\ \A row \in chunk : row \in ChunkRow
  /\ DOMAIN thread = Threads
  /\ found.method \in {"none", "postgresql_fts", "fallback"} /\ found.chunks \subseteq ChunkRow

\* initialize_project_knowledge copies the seed, if there is one.
Init ==
  /\ file \in Contents \cup {NoFile}
  /\ drawn = 0 /\ document = << >> /\ chunk = {}
  /\ thread = [t \in Threads |-> Idle]
  /\ found = NothingFound

-----------------------------------------------------------------------------
At(t, stage) == thread[t].at = stage
Goto(t, state) == thread' = [thread EXCEPT ![t] = state]
ChunksOf(d) == {row \in chunk : row.document = d}

\* post_project_knowledge_upload moves the new file over the old one.
Upload(t, content) ==
  /\ At(t, "idle") /\ \A u \in Threads : ~At(u, "idle") => ~thread[u].upload
  /\ file' = content
  /\ Goto(t, [at |-> "reading", upload |-> TRUE, search |-> FALSE])
  /\ UNCHANGED <<drawn, document, chunk, found>>

\* post_project_knowledge_rebuild
Rebuild(t) ==
  /\ At(t, "idle")
  /\ Goto(t, [at |-> "reading", upload |-> FALSE, search |-> FALSE])
  /\ UNCHANGED <<file, drawn, document, chunk, found>>

\* rebuild_project_knowledge_index reads and divides the file.
ReadFile(t) ==
  /\ At(t, "reading") /\ file # NoFile
  /\ Goto(t, [at |-> "read", upload |-> thread[t].upload, search |-> thread[t].search,
              content |-> file])
  /\ UNCHANGED <<file, drawn, document, chunk, found>>

Writing(t, stage, d, ids, seen) ==
  [at |-> stage, upload |-> thread[t].upload, search |-> thread[t].search,
   content |-> thread[t].content, document |-> d, ids |-> ids, seen |-> seen]

\* rebuild_project_knowledge_document finds no document, and inserts one.
InsertDocument(t) ==
  /\ At(t, "read") /\ DOMAIN document = {} /\ drawn < MaxDocuments
  /\ drawn' = drawn + 1
  /\ Goto(t, Writing(t, "writing", drawn + 1, {}, {}))
  /\ UNCHANGED <<file, document, chunk, found>>

\* Or it finds some, and begins to delete their chunks: the ones it can see.
SelectDocuments(t) ==
  /\ At(t, "read") /\ DOMAIN document # {}
  /\ Goto(t, Writing(t, "selected", Min(DOMAIN document), DOMAIN document, {}))
  /\ UNCHANGED <<file, drawn, document, chunk, found>>

SeeChunks(t) ==
  /\ At(t, "selected")
  /\ Goto(t, [thread[t] EXCEPT !.at = "clearing",
                !.seen = UNION {ChunksOf(d) : d \in thread[t].ids}])
  /\ UNCHANGED <<file, drawn, document, chunk, found>>

\* It waits for whoever holds the rows of one of these documents.
Unlocked(t) ==
  \A u \in Threads \ {t} : At(u, "writing") => thread[u].ids \cap thread[t].ids = {}

Lock(t) ==
  /\ At(t, "clearing") /\ Unlocked(t)
  /\ Goto(t, [thread[t] EXCEPT !.at = "writing"])
  /\ UNCHANGED <<file, drawn, document, chunk, found>>

New(t) ==
  {[document |-> thread[t].document, index |-> i, content |-> thread[t].content] :
     i \in 0..(Chunks[thread[t].content] - 1)}

\* Mutant: knowledge_chunks has no unique constraint.
NeverTaken(t, rest) == FALSE

\* UniqueConstraint("document_id", "chunk_index")
Taken(t, rest) ==
  \E old \in rest, new \in New(t) : old.document = new.document /\ old.index = new.index

\* The document was deleted, as a duplicate, while its rows were awaited.
Gone(t) == thread[t].ids # {} /\ thread[t].document \notin DOMAIN document

\* The rows of these documents that another rebuild saw are deleted for good:
\* equal rows inserted since are not the ones it will delete.
Outdated(u, ids) ==
  IF At(u, "clearing")
  THEN [thread[u] EXCEPT !.seen = {row \in @ : row.document \notin ids}] ELSE thread[u]

\* The duplicates are deleted, and their chunks with them; the document is
\* updated and its chunks inserted.
CommitRebuild(t) ==
  LET duplicates == thread[t].ids \ {thread[t].document}
      rest == {row \in chunk \ thread[t].seen : row.document \notin duplicates}
      kept == (DOMAIN document \ duplicates) \cup {thread[t].document}
  IN /\ At(t, "writing") /\ ~Gone(t) /\ ~Taken(t, rest)
     /\ chunk' = rest \cup New(t)
     /\ document' = [d \in kept |-> IF d = thread[t].document
                                    THEN Chunks[thread[t].content] ELSE document[d]]
     /\ thread' = [u \in Threads |->
          IF u # t THEN Outdated(u, thread[t].ids)
          ELSE IF thread[t].search THEN [at |-> "status", upload |-> FALSE] ELSE Idle]
     /\ UNCHANGED <<file, drawn, found>>

\* There is no file, a constraint refuses a row, the database fails or the
\* process dies: the transaction is undone.
Fails(t) ==
  /\ thread[t].at \in {"reading", "read", "selected", "clearing", "writing"}
  /\ Goto(t, Idle)
  /\ UNCHANGED <<file, drawn, document, chunk, found>>

\* find_project_knowledge_document, of a file that exists
Searched == IF file = NoFile THEN {} ELSE {d \in DOMAIN document : d = Min(DOMAIN document)}

\* search_project_knowledge: ensure_project_knowledge_indexed rebuilds first
\* if nothing is indexed; a second look is not followed by another rebuild.
Search(t) ==
  /\ At(t, "idle")
  /\ found' = IF file = NoFile THEN NothingFound ELSE found
  /\ Goto(t, IF file = NoFile THEN Idle
             ELSE IF Searched = {} THEN [at |-> "reading", upload |-> FALSE, search |-> TRUE]
             ELSE [at |-> "searching", upload |-> FALSE, document |-> Min(Searched)])
  /\ UNCHANGED <<file, drawn, document, chunk>>

SecondStatus(t) ==
  /\ At(t, "status")
  /\ found' = IF Searched = {} THEN NothingFound ELSE found
  /\ Goto(t, IF Searched = {} THEN Idle
             ELSE [at |-> "searching", upload |-> FALSE, document |-> Min(Searched)])
  /\ UNCHANGED <<file, drawn, document, chunk>>

\* postgres_search_knowledge_chunks of the document the status named, if it is
\* still there, then fallback_search_knowledge_chunks when it finds nothing.
Hits(d, contents) == {row \in ChunksOf(d) : row.content \in contents}

FullTextSearch(t) ==
  /\ At(t, "searching")
  /\ LET hits == Hits(thread[t].document, FullText)
     IN IF hits = {} THEN /\ Goto(t, [thread[t] EXCEPT !.at = "scanning"])
                          /\ UNCHANGED found
                     ELSE /\ \E top \in (SUBSET hits) \ {{}} :
                               found' = [method |-> "postgresql_fts", chunks |-> top]
                          /\ Goto(t, Idle)
  /\ UNCHANGED <<file, drawn, document, chunk>>

FallbackSearch(t) ==
  /\ At(t, "scanning")
  /\ found' = [method |-> "fallback", chunks |-> Hits(thread[t].document, Scanned)]
  /\ Goto(t, Idle)
  /\ UNCHANGED <<file, drawn, document, chunk>>

Next ==
  \E t \in Threads :
    \/ \E content \in Contents : Upload(t, content)
    \/ Rebuild(t) \/ ReadFile(t) \/ InsertDocument(t) \/ SelectDocuments(t) \/ SeeChunks(t)
    \/ Lock(t) \/ CommitRebuild(t) \/ Fails(t)
    \/ Search(t) \/ SecondStatus(t) \/ FullTextSearch(t) \/ FallbackSearch(t)

Spec == Init /\ [][Next]_knowledgeVars

-----------------------------------------------------------------------------
\* However uploads, rebuilds and searches overlap, every document has all the
\* chunks of one content, as many as it says, every chunk has its document, and
\* a search never answers with chunks of two contents: evidence is never
\* stitched together from two versions of the file.
IndexWhole ==
  /\ \A d \in DOMAIN document :
       \E content \in Contents :
         /\ document[d] = Chunks[content]
         /\ ChunksOf(d) = {[document |-> d, index |-> i, content |-> content] :
                             i \in 0..(Chunks[content] - 1)}
  /\ \A row \in chunk : row.document \in DOMAIN document
  /\ \A a, b \in found.chunks : a.document = b.document /\ a.content = b.content
=============================================================================
