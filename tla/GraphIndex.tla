----------------------------- MODULE GraphIndex -----------------------------
(***************************************************************************)
(* The knowledge graph of one collection: an indexing job of the worker    *)
(* clears it in one transaction and rebuilds it in another                 *)
(* (services/rag/graph_index.py), while the API changes documents,         *)
(* generates evaluation questions from chunks                              *)
(* (services/evaluation/qa_generator.py) and searches the graph with one   *)
(* SELECT per table (services/rag/graph_retrieval.py).                     *)
(*                                                                         *)
(* A document is one chunk here.  Links between entities and chunks and    *)
(* communities are written and cleared with the tables they refer to and   *)
(* left out.  PostgreSQL runs at READ COMMITTED and enforces the foreign   *)
(* keys of models.py: a transaction that breaks one fails and changes      *)
(* nothing, and one that would delete a row that an open transaction       *)
(* refers to waits for it.                                                 *)
(***************************************************************************)
EXTENDS Naturals

CONSTANTS
    Docs,          \* document ids the uuids can turn out to be
    Contents,      \* texts of documents
    Names,         \* normalised entity names
    Clients,       \* concurrent API requests
    MaxBuilds,     \* bound: attempts of indexing jobs
    MaxSets        \* bound: evaluation sets

ASSUME GraphIndexAssumption ==
    /\ MaxBuilds \in Nat /\ MaxSets \in Nat
    /\ Contents \cap {"none", "gone"} = {}

VARIABLES
    collection,    \* the collection's row is there
    docs,          \* per document, the text its row holds
    chunks, entities, rels,   \* the graph's tables
    questions,     \* the chunks that evaluation questions refer to
    sets,          \* number of evaluation sets
    traced,        \* there is a query trace
    index,         \* the indexing job: where it is and what it has gathered
    builds,        \* attempts begun
    op,            \* per client, the request being served
    stale          \* history: documents changed since the last attempt read them

graph == <<chunks, entities, rels>>
store == <<collection, docs, stale>>
evaluation == <<questions, sets>>
vars == <<store, graph, evaluation, traced, index, builds, op>>

Chunk == [build : 1..MaxBuilds, doc : Docs, content : Contents]
Entity == [build : 1..MaxBuilds, name : Names]
Rel == [build : 1..MaxBuilds, source : Names, target : Names]

NoIndex == [pc |-> "idle", todo |-> {}, chunks |-> {}, names |-> {}, pairs |-> {}]
NoOp == [pc |-> "idle", chunks |-> {}, entities |-> {}, seeds |-> {}, rels |-> {},
         undisturbed |-> TRUE]

Stored(d) == docs[d] \in Contents

Init ==
    /\ collection = TRUE
    /\ docs = [d \in Docs |-> "none"]
    /\ chunks = {} /\ entities = {} /\ rels = {}
    /\ questions = {} /\ sets = 0 /\ traced = FALSE
    /\ index = NoIndex /\ builds = 0
    /\ op = [c \in Clients |-> NoOp]
    /\ stale = {}

-----------------------------------------------------------------------------
(* Foreign keys and the locks they take *)

ReferredDoc(d) == \E x \in chunks : x.doc = d

\* Rows that the indexing transaction has flushed keep their documents and
\* their collection from being deleted until it ends.
Flushed == index.pc \in {"extracting", "summarising"}
LockedDoc(d) == Flushed /\ \E x \in index.chunks : x.doc = d

\* Mutant: the set is not flushed before its questions are generated.
NobodyGenerates == FALSE

Generating == \E c \in Clients : op[c].pc = "generating"
LockedCollection == Generating \/ (Flushed /\ index.chunks # {})

ReferredCollection == chunks # {} \/ entities # {} \/ sets > 0 \/ traced

-----------------------------------------------------------------------------
(* Documents and the collection (services/rag/collections.py) *)

Upload(d, v) ==
    /\ collection /\ docs[d] = "none"
    /\ docs' = [docs EXCEPT ![d] = v]
    /\ stale' = stale \cup {d}
    /\ UNCHANGED <<collection, graph, evaluation, traced, index, builds, op>>

Edit(d, v) ==
    /\ Stored(d) /\ docs[d] # v
    /\ docs' = [docs EXCEPT ![d] = v]
    /\ stale' = stale \cup {d}
    /\ UNCHANGED <<collection, graph, evaluation, traced, index, builds, op>>

DeleteDocument(d) ==
    /\ Stored(d) /\ ~ReferredDoc(d) /\ ~LockedDoc(d)
    /\ docs' = [docs EXCEPT ![d] = "gone"]
    /\ stale' = stale \ {d}
    /\ UNCHANGED <<collection, graph, evaluation, traced, index, builds, op>>

DeleteCollection ==
    /\ collection
    /\ \A d \in Docs : Stored(d) => ~ReferredDoc(d) /\ ~LockedDoc(d)
    /\ ~ReferredCollection /\ ~LockedCollection
    /\ collection' = FALSE
    /\ docs' = [d \in Docs |-> IF Stored(d) THEN "gone" ELSE docs[d]]
    /\ stale' = {}
    /\ UNCHANGED <<graph, evaluation, traced, index, builds, op>>

-----------------------------------------------------------------------------
(* index_collection *)

\* Mutant: only one of the documents is selected.
LoadOneDocument ==
    /\ index.pc = "idle" /\ builds < MaxBuilds
    /\ builds' = builds + 1
    /\ index' = [NoIndex EXCEPT !.pc = "loaded",
                                !.todo = IF \E d \in Docs : Stored(d)
                                         THEN {CHOOSE d \in Docs : Stored(d)} ELSE {}]
    /\ stale' = {}
    /\ UNCHANGED <<collection, docs, graph, evaluation, traced, op>>

LoadDocuments ==
    /\ index.pc = "idle" /\ builds < MaxBuilds
    /\ builds' = builds + 1
    /\ index' = [NoIndex EXCEPT !.pc = "loaded", !.todo = {d \in Docs : Stored(d)}]
    /\ stale' = {}
    /\ UNCHANGED <<collection, docs, graph, evaluation, traced, op>>

\* The checkpoint before the existing graph is destroyed.
CheckBeforeClear ==
    /\ index.pc = "loaded"
    /\ index' = [index EXCEPT !.pc = "checked"]
    /\ UNCHANGED <<store, graph, evaluation, traced, builds, op>>

\* The requests that read the graph no longer read one state of it.
Disturb == op' = [c \in Clients |-> [op[c] EXCEPT !.undisturbed = (op[c] = NoOp)]]

\* Mutant: a table is forgotten.
ClearKeepingChunks ==
    /\ index.pc = "checked"
    /\ entities' = {} /\ rels' = {}
    /\ index' = [index EXCEPT !.pc = "chunking"]
    /\ Disturb
    /\ UNCHANGED <<chunks, store, evaluation, traced, builds>>
\* Mutant: questions do not refer to their chunk with a foreign key.
ClearUnderQuestions ==
    /\ index.pc = "checked"
    /\ chunks' = {} /\ entities' = {} /\ rels' = {}
    /\ index' = [index EXCEPT !.pc = "chunking"]
    /\ Disturb
    /\ UNCHANGED <<store, evaluation, traced, builds>>

\* The clear commits, unless a question refers to a chunk (IndexFails then).
ClearCollectionGraph ==
    /\ index.pc = "checked"
    /\ questions \cap chunks = {}
    /\ chunks' = {} /\ entities' = {} /\ rels' = {}
    /\ index' = [index EXCEPT !.pc = "chunking"]
    /\ Disturb
    /\ UNCHANGED <<store, evaluation, traced, builds>>

\* The clear's commit expired the documents, so each is read again when it is
\* chunked; a deleted one fails the job.
ChunkDocument(d) ==
    /\ index.pc = "chunking" /\ d \in index.todo
    /\ Stored(d)
    /\ index' = [index EXCEPT !.todo = @ \ {d},
                              !.chunks = @ \cup {[build |-> builds, doc |-> d,
                                                  content |-> docs[d]]}]
    /\ stale' = stale \ {d}
    /\ UNCHANGED <<collection, docs, graph, evaluation, traced, builds, op>>

FlushChunks ==
    /\ index.pc = "chunking" /\ index.todo = {}
    /\ \A x \in index.chunks : Stored(x.doc)
    /\ index.chunks # {} => collection
    /\ index' = [index EXCEPT !.pc = "extracting", !.todo = {x.doc : x \in index.chunks}]
    /\ UNCHANGED <<store, graph, evaluation, traced, builds, op>>

\* The runtime finds any names and pairs of names in a chunk, or nothing.
ExtractFromChunk(d, N, E) ==
    /\ index.pc = "extracting" /\ d \in index.todo
    /\ index' = [index EXCEPT !.todo = @ \ {d}, !.names = @ \cup N, !.pairs = @ \cup E]
    /\ UNCHANGED <<store, graph, evaluation, traced, builds, op>>

\* Pairs with an endpoint that is no entity are dropped.
FlushEntities ==
    /\ index.pc = "extracting" /\ index.todo = {}
    /\ index' = [index EXCEPT !.pc = "summarising",
                              !.pairs = {p \in @ : p[1] \in index.names /\ p[2] \in index.names}]
    /\ UNCHANGED <<store, graph, evaluation, traced, builds, op>>

CommitGraph ==
    /\ index.pc = "summarising"
    /\ chunks' = chunks \cup index.chunks
    /\ entities' = entities \cup {[build |-> builds, name |-> n] : n \in index.names}
    /\ rels' = rels \cup {[build |-> builds, source |-> p[1], target |-> p[2]] : p \in index.pairs}
    /\ index' = NoIndex
    /\ Disturb
    /\ UNCHANGED <<store, evaluation, traced, builds>>

\* A checkpoint aborts the job, it fails, or the worker is killed: the open
\* transaction is rolled back, and what is committed stays.
IndexFails ==
    /\ index.pc # "idle"
    /\ index' = NoIndex
    /\ UNCHANGED <<store, graph, evaluation, traced, builds, op>>

-----------------------------------------------------------------------------
(* generate_evaluation_set *)

\* A collection without chunks is refused (EvaluationGenerationError); the set
\* is flushed before the questions are generated.
LoadChunksToAsk(c) ==
    /\ collection /\ op[c] = NoOp /\ sets < MaxSets
    /\ chunks # {}
    /\ op' = [op EXCEPT ![c].pc = "generating", ![c].chunks = chunks]
    /\ UNCHANGED <<store, graph, evaluation, traced, index, builds>>

\* Mutant: the questions are committed and the set is not.
CommitQuestionsAlone(c, S) ==
    /\ op[c].pc = "generating" /\ S \subseteq op[c].chunks
    /\ questions' = questions \cup (S \cap chunks)
    /\ op' = [op EXCEPT ![c] = NoOp]
    /\ UNCHANGED <<store, graph, sets, traced, index, builds>>

\* The runtime makes questions from some of the chunks.  They are refused when
\* one of these is gone.
CommitQuestions(c, S) ==
    /\ op[c].pc = "generating" /\ S \subseteq op[c].chunks
    /\ IF S \subseteq chunks
       THEN questions' = questions \cup S /\ sets' = sets + 1
       ELSE UNCHANGED evaluation
    /\ op' = [op EXCEPT ![c] = NoOp]
    /\ UNCHANGED <<store, graph, traced, index, builds>>

-----------------------------------------------------------------------------
(* query_collection in local mode *)

SeedEntities(c, S) ==
    /\ collection /\ op[c] = NoOp
    /\ S \subseteq entities
    /\ op' = [op EXCEPT ![c].pc = "seeded", ![c].seeds = S, ![c].entities = S]
    /\ UNCHANGED <<store, graph, evaluation, traced, index, builds>>

Endpoints(r) == {[build |-> r.build, name |-> r.source], [build |-> r.build, name |-> r.target]}

ExpandRelationships(c) ==
    /\ op[c].pc = "seeded"
    /\ op' = [op EXCEPT ![c].pc = "expanded",
                        ![c].rels = {r \in rels : Endpoints(r) \cap op[c].seeds # {}}]
    /\ UNCHANGED <<store, graph, evaluation, traced, index, builds>>

ChooseChunks(c, S) ==
    /\ op[c].pc = "expanded"
    /\ S \subseteq chunks
    /\ op' = [op EXCEPT ![c].pc = "chosen", ![c].chunks = S]
    /\ UNCHANGED <<store, graph, evaluation, traced, index, builds>>

\* Mutant: only the seeds are listed.
ListNoNeighbours(c) ==
    /\ op[c].pc = "chosen"
    /\ op' = [op EXCEPT ![c].pc = "found"]
    /\ UNCHANGED <<store, graph, evaluation, traced, index, builds>>

ListNeighbours(c) ==
    /\ op[c].pc = "chosen"
    /\ op' = [op EXCEPT ![c].pc = "found",
                        ![c].entities = @ \cup (entities \cap UNION {Endpoints(r) : r \in op[c].rels})]
    /\ UNCHANGED <<store, graph, evaluation, traced, index, builds>>

\* The trace is refused when the collection is gone.
RecordTrace(c) ==
    /\ op[c].pc = "found"
    /\ traced' = (traced \/ collection)
    /\ op' = [op EXCEPT ![c] = NoOp]
    /\ UNCHANGED <<store, graph, evaluation, index, builds>>

-----------------------------------------------------------------------------
Next ==
    \/ \E d \in Docs, v \in Contents : Upload(d, v) \/ Edit(d, v)
    \/ \E d \in Docs : DeleteDocument(d)
    \/ DeleteCollection
    \/ LoadDocuments \/ CheckBeforeClear \/ ClearCollectionGraph
    \/ \E d \in Docs : ChunkDocument(d)
    \/ FlushChunks
    \/ \E d \in Docs, N \in SUBSET Names :
          \E E \in SUBSET {p \in Names \X Names : p[1] # p[2]} : ExtractFromChunk(d, N, E)
    \/ FlushEntities \/ CommitGraph \/ IndexFails
    \/ \E c \in Clients :
          \/ LoadChunksToAsk(c)
          \/ \E S \in SUBSET op[c].chunks : CommitQuestions(c, S)
          \/ \E S \in SUBSET entities : SeedEntities(c, S)
          \/ ExpandRelationships(c)
          \/ \E S \in SUBSET chunks : ChooseChunks(c, S)
          \/ ListNeighbours(c) \/ RecordTrace(c)

Spec == Init /\ [][Next]_vars

-----------------------------------------------------------------------------
(* Properties *)

\* Values of the tables, of the job and of the requests; questions belong to a
\* set (models.py, graph_index.py, qa_generator.py).
TypeOK ==
    /\ collection \in BOOLEAN /\ traced \in BOOLEAN
    /\ docs \in [Docs -> Contents \cup {"none", "gone"}]
    /\ chunks \subseteq Chunk /\ entities \subseteq Entity /\ rels \subseteq Rel
    /\ questions \subseteq Chunk /\ sets \in Nat
    /\ questions # {} => sets > 0
    /\ index \in [pc : {"idle", "loaded", "checked", "chunking", "extracting", "summarising"},
                  todo : SUBSET Docs, chunks : SUBSET Chunk, names : SUBSET Names,
                  pairs : SUBSET (Names \X Names)]
    /\ builds \in 0..MaxBuilds /\ (index.pc # "idle" => builds > 0)
    /\ op \in [Clients ->
          [pc : {"idle", "generating", "seeded", "expanded", "chosen", "found"},
           chunks : SUBSET Chunk, entities : SUBSET Entity, seeds : SUBSET Entity,
           rels : SUBSET Rel, undisturbed : BOOLEAN]]
    /\ stale \subseteq Docs

BuildsOf(S) == {x.build : x \in S}

\* The graph is the work of one indexing attempt, with nothing left of an earlier
\* one, and its relationships join its entities, although attempts are cut short
\* between the clear and the rebuild (graph_index.py).
GraphIsOneBuild ==
    /\ \A a, b \in BuildsOf(chunks) \cup BuildsOf(entities) \cup BuildsOf(rels) : a = b
    /\ \A r \in rels : Endpoints(r) \subseteq entities

\* What is searched is what is stored: every chunk belongs to a stored document,
\* and the graph of the last attempt has the current text of every document that
\* did not change since it was read, whatever happened between the loading of the
\* documents and the commit of the graph (graph_index.py index_collection).
GraphIsCurrent ==
    /\ \A x \in chunks : Stored(x.doc)
    /\ builds \in BuildsOf(chunks) =>
          \A d \in Docs \ stale : Stored(d) =>
              [build |-> builds, doc |-> d, content |-> docs[d]] \in chunks

\* The chunk a question was generated from is never lost, so that an evaluation
\* can score source coverage (models.py EvaluationQuestionRecord, runner.py).
QuestionsKeepTheirSource == questions \subseteq chunks

\* The graph that questions were made from never changes, so that every run of the
\* set is scored against it: no build that was under way when the questions were
\* made replaces it, and no later one (models.py source_chunk_id, graph_index.py,
\* qa_generator.py).
EvaluatedGraphIsFrozen == [][questions # {} => UNCHANGED graph]_vars

\* Nothing of a deleted collection stays or comes back, in any table, whatever
\* was being indexed, generated or searched (collections.py delete_collection).
DeletedCollectionIsEmpty ==
    ~collection => /\ chunks = {} /\ entities = {} /\ rels = {}
                   /\ questions = {} /\ sets = 0 /\ ~traced
                   /\ \A d \in Docs : ~Stored(d)

Resolves(answer) == \A r \in answer.rels : Endpoints(r) \subseteq answer.entities

\* An answer found while no indexing committed is consistent: the endpoints of
\* its relationships are listed and its chunks are there
\* (graph_retrieval.py _local_search).
UndisturbedAnswer ==
    \A c \in Clients : op[c].pc = "found" /\ op[c].undisturbed =>
        Resolves(op[c]) /\ op[c].chunks \subseteq chunks

\* "Remove a collection's existing graph so (re)indexing is idempotent"
\* (graph_index.py): no row refers to what the clear removes, so that it can
\* always be done.
ReindexIsPossible == questions \cap chunks = {}

=============================================================================
