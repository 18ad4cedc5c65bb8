--------------------------- MODULE DocumentStore ---------------------------
(***************************************************************************)
(* The documents of one collection (services/rag/collections.py): a row in *)
(* the database and a file under data/rag_collections/<id>/documents, kept *)
(* together by the order of commits and file operations alone.  Endpoints  *)
(* run in the API's thread pool, so requests interleave at every database  *)
(* or file operation.                                                      *)
(*                                                                         *)
(* The collection is one of the default ones: before it serves, the API    *)
(* creates it with its seed documents when it is missing.  The ids of the  *)
(* seeds are fixed, those of uploads are fresh uuids.  With no seeds it is *)
(* a collection that a user made.                                          *)
(*                                                                         *)
(* On Postgres an upload locks the collection's row from its flush to its  *)
(* commit (the row's updated_at, and the foreign key of the document), so  *)
(* other transactions that write that row wait.  The collection has not    *)
(* been indexed: no chunk or community refers to its rows.                 *)
(***************************************************************************)
EXTENDS Naturals

CONSTANTS
    Docs,          \* the seeds' ids, and ids the uuids can turn out to be
    Seeds,         \* documents of the collection's seed
    Versions,      \* contents
    SeedText,      \* the content of the seeds' source files
    Clients,       \* concurrent requests
    MaxCrashes     \* bound: times the API process is killed

ASSUME DocumentStoreAssumption == 
    /\ Seeds \subseteq Docs /\ SeedText \in Versions /\ MaxCrashes \in Nat
    /\ Versions \cap {"unused", "gone", "none", "partial"} = {}

VARIABLES
    collection,    \* the collection's row is there
    row,           \* per document, the content its committed row describes
    file,          \* per document, what its file holds
    dir,           \* the storage directory is there
    api,           \* the API process: "off", "seeding", "serving"
    toSeed,        \* seeds whose files the start-up has still to write
    seeded,        \* seeds whose rows are in its open transaction
    op,            \* per client, the request being served
    crashes,
    alone          \* history: no two requests overlapped, none was cut short

startup == <<api, toSeed, seeded>>
vars == <<collection, row, file, dir, startup, op, crashes, alone>>

NoOp == [kind |-> "none", pc |-> "idle", doc |-> {}, content |-> "none"]

Init ==
    /\ collection = (Seeds = {})
    /\ row = [d \in Docs |-> "unused"]
    /\ file = [d \in Docs |-> "none"]
    /\ dir = FALSE
    /\ api = "off" /\ toSeed = {} /\ seeded = {}
    /\ op = [c \in Clients |-> NoOp]
    /\ crashes = 0
    /\ alone = TRUE

Stored(d) == row[d] \in Versions
\* Mutant: uploads hold no lock.
NeverLocked == FALSE

Locked == \E c \in Clients : op[c].kind = "add" /\ op[c].pc \in {"write", "writing", "commit"}

At(c, kind, pc) == op[c].kind = kind /\ op[c].pc = pc
Begin(c, kind, S, v) ==
    /\ api = "serving" /\ op[c] = NoOp
    /\ op' = [op EXCEPT ![c] = [kind |-> kind, pc |-> "loaded", doc |-> S, content |-> v]]
    /\ alone' = (alone /\ \A o \in Clients : op[o] = NoOp)
Goto(c, pc) == op' = [op EXCEPT ![c].pc = pc] /\ UNCHANGED alone
Answer(c) == op' = [op EXCEPT ![c] = NoOp] /\ UNCHANGED alone

DocOf(c) == CHOOSE d \in Docs : d \in op[c].doc

Fresh(d) == /\ d \notin Seeds
            /\ row[d] = "unused" /\ file[d] = "none"
            /\ \A c \in Clients : d \notin op[c].doc

-----------------------------------------------------------------------------
(* Writing a file: opening it truncates it. *)

OpenFile(c, next) ==
    /\ IF dir THEN /\ file' = [file EXCEPT ![DocOf(c)] = "partial"]
                   /\ Goto(c, next)
              ELSE Answer(c) /\ UNCHANGED file        \* FileNotFoundError
    /\ UNCHANGED <<collection, row, dir, crashes, startup>>

\* Mutant: the content brings an unlinked file back.
WriteFileAgain(c) == file' = [file EXCEPT ![DocOf(c)] = op[c].content]

\* An unlinked file stays unlinked, whoever still writes to it.
WriteFile(c) ==
    file' = [file EXCEPT ![DocOf(c)] = IF @ = "none" THEN "none" ELSE op[c].content]

-----------------------------------------------------------------------------
(* add_collection_document *)

AddLoad(c, d, v) ==
    /\ collection /\ Fresh(d)
    /\ Begin(c, "add", {d}, v)
    /\ UNCHANGED <<collection, row, file, dir, crashes, startup>>

AddMakeDir(c) ==
    /\ At(c, "add", "loaded")
    /\ dir' = TRUE
    /\ Goto(c, "flush")
    /\ UNCHANGED <<collection, row, file, crashes, startup>>

\* Mutant: the row is committed before the file is written.
AddFlushAndCommit(c) ==
    /\ At(c, "add", "flush") /\ ~Locked
    /\ IF collection THEN Goto(c, "write") /\ row' = [row EXCEPT ![DocOf(c)] = op[c].content]
                     ELSE Answer(c) /\ UNCHANGED row
    /\ UNCHANGED <<collection, file, dir, crashes, startup>>

\* The insert fails when the collection has been deleted meanwhile.
AddFlush(c) ==
    /\ At(c, "add", "flush") /\ ~Locked
    /\ IF collection THEN Goto(c, "write") ELSE Answer(c)
    /\ UNCHANGED <<collection, row, file, dir, crashes, startup>>

AddOpenFile(c) == At(c, "add", "write") /\ OpenFile(c, "writing")

AddWriteFile(c) ==
    /\ At(c, "add", "writing")
    /\ WriteFile(c)
    /\ Goto(c, "commit")
    /\ UNCHANGED <<collection, row, dir, crashes, startup>>

AddCommit(c) ==
    /\ At(c, "add", "commit")
    /\ row' = [row EXCEPT ![DocOf(c)] = op[c].content]
    /\ Answer(c)
    /\ UNCHANGED <<collection, file, dir, crashes, startup>>

-----------------------------------------------------------------------------
(* update_document_content *)

UpdateLoad(c, d, v) ==
    /\ Stored(d)
    /\ Begin(c, "update", {d}, v)
    /\ UNCHANGED <<collection, row, file, dir, crashes, startup>>

\* The directory may have been removed since the row was loaded.
UpdateMakeDir(c) ==
    /\ At(c, "update", "loaded")
    /\ dir' = TRUE
    /\ Goto(c, "flush")
    /\ UNCHANGED <<collection, row, file, crashes, startup>>

\* Mutant: an upsert.
UpsertCommit(c) ==
    /\ At(c, "update", "flush") /\ ~Locked
    /\ row' = [row EXCEPT ![DocOf(c)] = op[c].content]
    /\ Goto(c, "write")
    /\ UNCHANGED <<collection, file, dir, crashes, startup>>

\* An UPDATE that matches no row fails the request (StaleDataError).
UpdateCommit(c) ==
    /\ At(c, "update", "flush") /\ ~Locked
    /\ IF Stored(DocOf(c))
       THEN row' = [row EXCEPT ![DocOf(c)] = op[c].content] /\ Goto(c, "write")
       ELSE Answer(c) /\ UNCHANGED row
    /\ UNCHANGED <<collection, file, dir, crashes, startup>>

UpdateOpenFile(c) == At(c, "update", "write") /\ OpenFile(c, "writing")

UpdateWriteFile(c) ==
    /\ At(c, "update", "writing")
    /\ WriteFile(c)
    /\ Answer(c)
    /\ UNCHANGED <<collection, row, dir, crashes, startup>>

-----------------------------------------------------------------------------
(* delete_document *)

DeleteLoad(c, d) ==
    /\ Stored(d)
    /\ Begin(c, "delete", {d}, "none")
    /\ UNCHANGED <<collection, row, file, dir, crashes, startup>>

\* The DELETE may match no row; touching a deleted collection fails.
DeleteCommit(c) ==
    /\ At(c, "delete", "loaded") /\ ~Locked
    /\ IF collection
       THEN row' = [row EXCEPT ![DocOf(c)] = "gone"] /\ Goto(c, "unlink")
       ELSE Answer(c) /\ UNCHANGED row
    /\ UNCHANGED <<collection, file, dir, crashes, startup>>

\* Mutant: the file stays.
DeleteKeepsFile(c) ==
    /\ At(c, "delete", "unlink")
    /\ Answer(c)
    /\ UNCHANGED <<collection, row, file, dir, crashes, startup>>

DeleteUnlink(c) ==
    /\ At(c, "delete", "unlink")
    /\ file' = [file EXCEPT ![DocOf(c)] = "none"]
    /\ Answer(c)
    /\ UNCHANGED <<collection, row, dir, crashes, startup>>

-----------------------------------------------------------------------------
(* delete_collection *)

DropLoad(c) ==
    /\ collection
    /\ Begin(c, "drop", {d \in Docs : Stored(d)}, "none")
    /\ UNCHANGED <<collection, row, file, dir, crashes, startup>>

\* The foreign key of a document that was not loaded fails the transaction.
DropCommit(c) ==
    /\ At(c, "drop", "loaded") /\ ~Locked
    /\ IF \A d \in Docs : Stored(d) => d \in op[c].doc
       THEN /\ row' = [d \in Docs |-> IF d \in op[c].doc THEN "gone" ELSE row[d]]
            /\ collection' = FALSE
            /\ Goto(c, "rmtree")
       ELSE Answer(c) /\ UNCHANGED <<row, collection>>
    /\ UNCHANGED <<file, dir, crashes, startup>>

DropRemoveTree(c) ==
    /\ At(c, "drop", "rmtree")
    /\ file' = [d \in Docs |-> "none"]
    /\ dir' = FALSE
    /\ Answer(c)
    /\ UNCHANGED <<collection, row, crashes, startup>>

-----------------------------------------------------------------------------
(* The API's start: ensure_default_rag_collections, then it serves *)

\* Mutant: the seeds of a collection that is there are restored.
SeedAlways == Seeds # {}

SeedMissing == ~collection /\ Seeds # {}

\* A seed whose source file is missing is skipped.
Start ==
    /\ api = "off"
    /\ IF SeedMissing
       THEN api' = "seeding" /\ \E S \in SUBSET Seeds : toSeed' = S
       ELSE api' = "serving" /\ UNCHANGED toSeed
    /\ seeded' = {}
    /\ UNCHANGED <<collection, row, file, dir, op, crashes, alone>>

SeedOpenFile(d) ==
    /\ api = "seeding" /\ d \in toSeed /\ file[d] # "partial"
    /\ dir' = TRUE
    /\ file' = [file EXCEPT ![d] = "partial"]
    /\ UNCHANGED <<collection, row, startup, op, crashes, alone>>

\* _seed_document writes the file before it adds the row to the session.
SeedWriteFile(d) ==
    /\ api = "seeding" /\ d \in toSeed /\ file[d] = "partial"
    /\ file' = [file EXCEPT ![d] = SeedText]
    /\ toSeed' = toSeed \ {d}
    /\ seeded' = seeded \cup {d}
    /\ UNCHANGED <<collection, row, dir, api, op, crashes, alone>>

SeedCommit ==
    /\ api = "seeding" /\ toSeed = {}
    /\ collection' = TRUE
    /\ row' = [d \in Docs |-> IF d \in seeded THEN SeedText ELSE row[d]]
    /\ api' = "serving" /\ seeded' = {}
    /\ UNCHANGED <<file, dir, toSeed, op, crashes, alone>>

\* The process is killed: transactions roll back, files stay as they are.
Crash ==
    /\ api # "off" /\ crashes < MaxCrashes
    /\ crashes' = crashes + 1
    /\ api' = "off" /\ toSeed' = {} /\ seeded' = {}
    /\ op' = [c \in Clients |-> NoOp]
    /\ alone' = (alone /\ api = "serving" /\ \A c \in Clients : op[c] = NoOp)
    /\ UNCHANGED <<collection, row, file, dir>>

Next ==
    \/ \E c \in Clients :
          \/ \E d \in Docs, v \in Versions : AddLoad(c, d, v) \/ UpdateLoad(c, d, v)
          \/ AddMakeDir(c) \/ AddFlush(c)
          \/ AddOpenFile(c) \/ AddWriteFile(c) \/ AddCommit(c)
          \/ UpdateMakeDir(c) \/ UpdateCommit(c) \/ UpdateOpenFile(c) \/ UpdateWriteFile(c)
          \/ \E d \in Docs : DeleteLoad(c, d)
          \/ DeleteCommit(c) \/ DeleteUnlink(c)
          \/ DropLoad(c) \/ DropCommit(c) \/ DropRemoveTree(c)
    \/ Start \/ SeedCommit \/ \E d \in Seeds : SeedOpenFile(d) \/ SeedWriteFile(d)
    \/ Crash

Spec == Init /\ [][Next]_vars

-----------------------------------------------------------------------------
\* Values of the tables and of the disk; there is no file without its directory
\* (collections.py).
TypeOK ==
    /\ collection \in BOOLEAN /\ dir \in BOOLEAN
    /\ row \in [Docs -> Versions \cup {"unused", "gone"}]
    /\ file \in [Docs -> Versions \cup {"none", "partial"}]
    /\ api \in {"off", "seeding", "serving"}
    /\ toSeed \subseteq Seeds /\ seeded \subseteq Seeds /\ toSeed \cap seeded = {}
    /\ op \in [Clients ->
          [kind : {"none", "add", "update", "delete", "drop"},
           pc : {"idle", "loaded", "flush", "write", "writing", "commit", "unlink", "rmtree"},
           doc : SUBSET Docs, content : Versions \cup {"none"}]]
    /\ crashes \in 0..MaxCrashes /\ alone \in BOOLEAN
    /\ ~dir => \A d \in Docs : file[d] = "none"

\* A committed document has a file: the file is written before the row of an
\* upload is committed and removed after the row of a deleted document is, so
\* that no crash and no race shows a reader a document without content (the 410
\* of GET /rag-documents/{id}/content; collections.py).
RowHasFile == \A d \in Docs : Stored(d) => file[d] # "none"

\* A deleted collection has no documents: an upload that raced the deletion
\* fails, or makes the deletion fail (collections.py delete_collection).
DeletedCollectionIsEmpty == ~collection => \A d \in Docs : ~Stored(d)

\* A deleted document never comes back, whatever uploads and updates of it were
\* under way, unless its whole collection was deleted and is seeded again
\* (collections.py update_document_content, delete_document).
DeletedStaysDeleted ==
    [][\A d \in Docs : row[d] = "gone" /\ row'[d] # "gone" => ~collection /\ collection']_vars

\* A restart leaves what users made of a default collection as it is, documents
\* and files, edited or deleted (collections.py ensure_default_rag_collections:
\* "left untouched, so reviewers can edit or delete the seed").
RestartKeepsEdits ==
    [][collection /\ api # "serving" => UNCHANGED <<collection, row, file>>]_vars

Quiet == alone /\ api # "seeding" /\ \A c \in Clients : op[c] = NoOp

\* When requests come one after the other and no kill cuts one or a start short,
\* rows and files agree between requests, whatever the API was killed in between:
\* every document's file holds the recorded content, and there is no other file
\* (collections.py).
FilesMatchRows ==
    Quiet => \A d \in Docs : file[d] = IF Stored(d) THEN row[d] ELSE "none"
=============================================================================
