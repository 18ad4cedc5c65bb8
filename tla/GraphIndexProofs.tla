-------------------------- MODULE GraphIndexProofs --------------------------
(***************************************************************************)
(* GraphIndex for every number of documents, attempts and requests: type   *)
(* correctness, and that the graph is the work of one attempt, is current, *)
(* keeps the sources of evaluation questions and dies with its collection. *)
(***************************************************************************)
EXTENDS GraphIndex, TLAPS

-----------------------------------------------------------------------------
(* Types *)

IndexPcs == {"idle", "loaded", "checked", "chunking", "extracting", "summarising"}

IndexTypeOK ==
    /\ index \in [pc : IndexPcs, todo : SUBSET Docs, chunks : SUBSET Chunk,
                  names : SUBSET Names, pairs : SUBSET (Names \X Names)]
    /\ builds \in 0..MaxBuilds /\ (index.pc # "idle" => builds > 0)

Op == [pc : {"idle", "generating", "seeded", "expanded", "chosen", "found"},
       chunks : SUBSET Chunk, entities : SUBSET Entity, seeds : SUBSET Entity,
       rels : SUBSET Rel, undisturbed : BOOLEAN]

LEMMA NoIndexType ==
    NoIndex \in [pc : IndexPcs, todo : SUBSET Docs, chunks : SUBSET Chunk,
                 names : SUBSET Names, pairs : SUBSET (Names \X Names)]
BY DEF NoIndex, IndexPcs

LEMMA NoOpType == NoOp \in Op
BY DEF NoOp, Op

LEMMA TypeInit == Init => TypeOK
<1> SUFFICES ASSUME Init PROVE TypeOK
  OBVIOUS
<1>1. IndexTypeOK
  <2>1. NoIndex.pc = "idle"
    BY DEF NoIndex
  <2>2. QED
    BY <2>1, NoIndexType, GraphIndexAssumption DEF Init, IndexTypeOK
<1>2. op \in [Clients -> Op]
  BY NoOpType DEF Init
<1>3. QED
  BY <1>1, <1>2 DEF Init, TypeOK, IndexTypeOK, IndexPcs, Op

LEMMA DisturbType == op \in [Clients -> Op] /\ Disturb => op' \in [Clients -> Op]
<1> SUFFICES ASSUME op \in [Clients -> Op], Disturb, NEW c \in Clients
             PROVE  [op[c] EXCEPT !.undisturbed = (op[c] = NoOp)] \in Op
  BY DEF Disturb
<1>1. (op[c] = NoOp) \in BOOLEAN
  OBVIOUS
<1>2. QED
  BY <1>1 DEF Op

\* Each step of a request writes values of the right type into its record.
LEMMA OpUpdates ==
    ASSUME NEW o \in Op, NEW C \in SUBSET Chunk, NEW E \in SUBSET Entity, NEW R \in SUBSET Rel
    PROVE  /\ [o EXCEPT !.pc = "generating", !.chunks = C] \in Op
           /\ [o EXCEPT !.pc = "seeded", !.seeds = E, !.entities = E] \in Op
           /\ [o EXCEPT !.pc = "expanded", !.rels = R] \in Op
           /\ [o EXCEPT !.pc = "chosen", !.chunks = C] \in Op
           /\ [o EXCEPT !.pc = "found", !.entities = E] \in Op
BY DEF Op

LEMMA TypeStep == TypeOK /\ [Next]_vars => TypeOK'
<1> SUFFICES ASSUME TypeOK, [Next]_vars PROVE TypeOK'
  OBVIOUS
<1>0. op \in [Clients -> Op] /\ IndexTypeOK
  BY DEF TypeOK, IndexTypeOK, IndexPcs, Op
<1> USE GraphIndexAssumption DEF TypeOK, store, graph, evaluation, Stored
<1>1. ASSUME NEW d \in Docs, NEW v \in Contents, Upload(d, v) \/ Edit(d, v) PROVE TypeOK'
  BY <1>1 DEF Upload, Edit
<1>2. ASSUME NEW d \in Docs, DeleteDocument(d) PROVE TypeOK'
  BY <1>2 DEF DeleteDocument
<1>3. CASE DeleteCollection
  BY <1>3 DEF DeleteCollection
<1>4. CASE LoadDocuments
  <2>1. builds' \in 0..MaxBuilds /\ builds' > 0
    BY <1>4 DEF LoadDocuments
  <2>2. {d \in Docs : Stored(d)} \in SUBSET Docs
    OBVIOUS
  <2>3. index' \in [pc : IndexPcs, todo : SUBSET Docs, chunks : SUBSET Chunk,
                    names : SUBSET Names, pairs : SUBSET (Names \X Names)]
    BY <1>4, <2>2, NoIndexType DEF LoadDocuments, IndexPcs, NoIndex
  <2>4. /\ UNCHANGED <<collection, docs, chunks, entities, rels, questions, sets, traced, op>>
        /\ stale' = {}
    BY <1>4 DEF LoadDocuments
  <2>5. QED
    BY <2>1, <2>3, <2>4 DEF IndexPcs
<1>5. CASE CheckBeforeClear
  BY <1>5 DEF CheckBeforeClear
<1>6. CASE ClearCollectionGraph
  <2>1. op' \in [Clients -> Op]
    BY <1>0, <1>6, DisturbType DEF ClearCollectionGraph
  <2>2. QED
    BY <1>6, <2>1 DEF ClearCollectionGraph, Op
<1>7. ASSUME NEW d \in Docs, ChunkDocument(d) PROVE TypeOK'
  <2>1. [build |-> builds, doc |-> d, content |-> docs[d]] \in Chunk
    BY <1>7 DEF ChunkDocument, Chunk
  <2>2. QED
    BY <1>7, <2>1 DEF ChunkDocument
<1>8. CASE FlushChunks
  <2>1. {x.doc : x \in index.chunks} \subseteq Docs
    BY DEF Chunk
  <2>2. QED
    BY <1>8, <2>1 DEF FlushChunks
<1>9. ASSUME NEW d \in Docs, NEW N \in SUBSET Names,
             NEW E \in SUBSET {p \in Names \X Names : p[1] # p[2]}, ExtractFromChunk(d, N, E)
      PROVE TypeOK'
  BY <1>9 DEF ExtractFromChunk
<1>10. CASE FlushEntities
  BY <1>10 DEF FlushEntities
<1>11. CASE CommitGraph
  <2>1. op' \in [Clients -> Op]
    BY <1>0, <1>11, DisturbType DEF CommitGraph
  <2>2. builds \in 1..MaxBuilds
    BY <1>11 DEF CommitGraph
  <2>3. {[build |-> builds, name |-> n] : n \in index.names} \subseteq Entity
    BY <2>2 DEF Entity
  <2>4. {[build |-> builds, source |-> p[1], target |-> p[2]] : p \in index.pairs} \subseteq Rel
    BY <2>2 DEF Rel
  <2>5. index' = NoIndex /\ NoIndex.pc = "idle"
    BY <1>11 DEF CommitGraph, NoIndex
  <2>6. QED
    BY <1>11, <2>1, <2>3, <2>4, <2>5, NoIndexType DEF CommitGraph, Op, IndexPcs
<1>12. CASE IndexFails
  <2>1. index' = NoIndex /\ NoIndex.pc = "idle"
    BY <1>12 DEF IndexFails, NoIndex
  <2>2. QED
    BY <1>12, <2>1, NoIndexType DEF IndexFails, IndexPcs
<1>13. ASSUME NEW c \in Clients, LoadChunksToAsk(c) PROVE TypeOK'
  <2>1. [op[c] EXCEPT !.pc = "generating", !.chunks = chunks] \in Op
    BY <1>0, OpUpdates
  <2>2. op' \in [Clients -> Op]
    BY <1>0, <1>13, <2>1 DEF LoadChunksToAsk
  <2>3. QED
    BY <1>13, <2>2 DEF LoadChunksToAsk, Op
<1>14. ASSUME NEW c \in Clients, NEW S \in SUBSET op[c].chunks, CommitQuestions(c, S)
       PROVE TypeOK'
  <2>1. op' \in [Clients -> Op]
    BY <1>0, <1>14, NoOpType DEF CommitQuestions
  <2>2. QED
    BY <1>14, <2>1 DEF CommitQuestions, Op
<1>15. ASSUME NEW c \in Clients, NEW S \in SUBSET entities, SeedEntities(c, S) PROVE TypeOK'
  <2>1. [op[c] EXCEPT !.pc = "seeded", !.seeds = S, !.entities = S] \in Op
    BY <1>0, OpUpdates
  <2>2. op' \in [Clients -> Op]
    BY <1>0, <1>15, <2>1 DEF SeedEntities
  <2>3. QED
    BY <1>15, <2>2 DEF SeedEntities, Op
<1>16. ASSUME NEW c \in Clients, ExpandRelationships(c) PROVE TypeOK'
  <2>1. [op[c] EXCEPT !.pc = "expanded",
                        !.rels = {r \in rels : Endpoints(r) \cap op[c].seeds # {}}] \in Op
    BY <1>0, OpUpdates
  <2>2. op' \in [Clients -> Op]
    BY <1>0, <1>16, <2>1 DEF ExpandRelationships
  <2>3. QED
    BY <1>16, <2>2 DEF ExpandRelationships, Op
<1>17. ASSUME NEW c \in Clients, NEW S \in SUBSET chunks, ChooseChunks(c, S) PROVE TypeOK'
  <2>1. [op[c] EXCEPT !.pc = "chosen", !.chunks = S] \in Op
    BY <1>0, OpUpdates
  <2>2. op' \in [Clients -> Op]
    BY <1>0, <1>17, <2>1 DEF ChooseChunks
  <2>3. QED
    BY <1>17, <2>2 DEF ChooseChunks, Op
<1>18. ASSUME NEW c \in Clients, ListNeighbours(c) PROVE TypeOK'
  <2>1. [op[c] EXCEPT !.pc = "found",
                        !.entities = @ \cup (entities \cap UNION {Endpoints(r) : r \in op[c].rels})] \in Op
    BY <1>0, OpUpdates
  <2>2. op' \in [Clients -> Op]
    BY <1>0, <1>18, <2>1 DEF ListNeighbours
  <2>3. QED
    BY <1>18, <2>2 DEF ListNeighbours, Op
<1>19. ASSUME NEW c \in Clients, RecordTrace(c) PROVE TypeOK'
  <2>1. op' \in [Clients -> Op]
    BY <1>0, <1>19, NoOpType DEF RecordTrace
  <2>2. QED
    BY <1>19, <2>1 DEF RecordTrace, Op
<1>20. CASE UNCHANGED vars
  BY <1>20 DEF vars
<1>21. QED
  BY <1>1, <1>2, <1>3, <1>4, <1>5, <1>6, <1>7, <1>8, <1>9, <1>10, <1>11, <1>12,
     <1>13, <1>14, <1>15, <1>16, <1>17, <1>18, <1>19, <1>20 DEF Next

\* Type correctness: every reachable state of the graph's tables, of the indexing
\* job and of the requests is well-typed (models.py, graph_index.py).
THEOREM GraphTypeCorrect == Spec => []TypeOK
<1>1. TypeOK /\ [Next]_vars => TypeOK'
  BY TypeStep
<1>2. QED
  BY <1>1, TypeInit, PTL DEF Spec

-----------------------------------------------------------------------------
(* The inductive invariant *)

\* While the graph is being rebuilt its tables are empty, and before that the job
\* has gathered nothing.
RebuildInv ==
    /\ index.pc \in {"chunking", "extracting", "summarising"} =>
          chunks = {} /\ entities = {} /\ rels = {}
    /\ index.pc \in {"loaded", "checked"} => index.chunks = {}
    /\ index.pc \in {"loaded", "checked", "chunking"} => index.names = {} /\ index.pairs = {}
    /\ index.pc = "summarising" => index.pairs \subseteq index.names \X index.names
    /\ Flushed /\ index.chunks = {} => index.todo = {} /\ index.names = {} /\ index.pairs = {}

\* Chunks are of the current attempt only when it has committed.
BuildInv ==
    /\ \A x \in index.chunks : x.build = builds
    /\ index.pc \in {"loaded", "checked"} => builds \notin BuildsOf(chunks)
    /\ \A x \in chunks : x.build <= builds

\* Every stored document that did not change since it was read is still to be
\* chunked or is chunked with its current text.
CoverInv ==
    \A d \in Docs \ stale : Stored(d) =>
        /\ index.pc \in {"loaded", "checked"} => d \in index.todo
        /\ index.pc = "chunking" =>
              \/ d \in index.todo
              \/ [build |-> builds, doc |-> d, content |-> docs[d]] \in index.chunks
        /\ Flushed => [build |-> builds, doc |-> d, content |-> docs[d]] \in index.chunks

\* Foreign keys: what a flushed transaction refers to is there.
KeyInv ==
    /\ \A x \in index.chunks : Flushed => Stored(x.doc)
    /\ Flushed /\ index.chunks # {} => collection
    /\ Generating => collection

\* What a search holds, when no indexing committed since it began.
SearchInv ==
    \A c \in Clients : op[c].undisturbed =>
        /\ op[c].pc \in {"expanded", "chosen"} => op[c].rels \subseteq rels
        /\ op[c].pc \in {"chosen", "found"} => op[c].chunks \subseteq chunks
        /\ op[c].pc = "found" => Resolves(op[c])

GraphInv ==
    /\ TypeOK /\ RebuildInv /\ BuildInv /\ CoverInv /\ KeyInv /\ SearchInv
    /\ GraphIsOneBuild /\ GraphIsCurrent /\ QuestionsKeepTheirSource /\ DeletedCollectionIsEmpty

LEMMA InvInit == Init => GraphInv
<1> SUFFICES ASSUME Init PROVE GraphInv
  OBVIOUS
<1>1. /\ index.pc = "idle" /\ index.chunks = {}
      /\ \A c \in Clients : op[c].pc = "idle"
      /\ \A d \in Docs : ~Stored(d)
  BY GraphIndexAssumption DEF Init, NoIndex, NoOp, Stored
<1>2. RebuildInv /\ BuildInv /\ CoverInv /\ KeyInv /\ SearchInv
  BY <1>1 DEF Init, RebuildInv, BuildInv, BuildsOf, CoverInv, KeyInv, SearchInv, Flushed, Generating
<1>3. GraphIsOneBuild /\ GraphIsCurrent /\ QuestionsKeepTheirSource /\ DeletedCollectionIsEmpty
  BY DEF Init, GraphIsOneBuild, GraphIsCurrent, QuestionsKeepTheirSource,
         DeletedCollectionIsEmpty, BuildsOf
<1>4. QED
  BY <1>2, <1>3, TypeInit DEF GraphInv

-----------------------------------------------------------------------------
(* Which steps touch what *)

StoreStep ==
    \/ \E d \in Docs, v \in Contents : Upload(d, v) \/ Edit(d, v)
    \/ \E d \in Docs : DeleteDocument(d)
    \/ DeleteCollection

IndexStep ==
    \/ LoadDocuments \/ CheckBeforeClear \/ ClearCollectionGraph
    \/ \E d \in Docs : ChunkDocument(d)
    \/ FlushChunks
    \/ \E d \in Docs, N \in SUBSET Names :
          \E E \in SUBSET {p \in Names \X Names : p[1] # p[2]} : ExtractFromChunk(d, N, E)
    \/ FlushEntities \/ CommitGraph \/ IndexFails

ClientStep ==
    \E c \in Clients :
       \/ LoadChunksToAsk(c)
       \/ \E S \in SUBSET op[c].chunks : CommitQuestions(c, S)
       \/ \E S \in SUBSET entities : SeedEntities(c, S)
       \/ ExpandRelationships(c)
       \/ \E S \in SUBSET chunks : ChooseChunks(c, S)
       \/ ListNeighbours(c) \/ RecordTrace(c)

LEMMA NextSplit == [Next]_vars => StoreStep \/ IndexStep \/ ClientStep \/ UNCHANGED vars
BY DEF Next, StoreStep, IndexStep, ClientStep

LEMMA StoreKeeps == StoreStep => UNCHANGED <<graph, evaluation, traced, index, builds, op>>
BY DEF StoreStep, Upload, Edit, DeleteDocument, DeleteCollection

LEMMA ClientKeeps == ClientStep \/ UNCHANGED vars => UNCHANGED <<store, graph, index, builds>>
BY DEF ClientStep, LoadChunksToAsk, CommitQuestions, SeedEntities, ExpandRelationships,
       ChooseChunks, ListNeighbours, RecordTrace, vars

LEMMA IndexKeepsGraph == IndexStep => UNCHANGED graph \/ ClearCollectionGraph \/ CommitGraph
BY DEF IndexStep, LoadDocuments, CheckBeforeClear, ChunkDocument, FlushChunks,
       ExtractFromChunk, FlushEntities, IndexFails

LEMMA NoOpIdle == NoOp.pc = "idle"
BY DEF NoOp

-----------------------------------------------------------------------------
(* The parts of the invariant, one lemma each *)

LEMMA RebuildStep == TypeOK /\ RebuildInv /\ [Next]_vars => RebuildInv'
<1> SUFFICES ASSUME TypeOK, RebuildInv, [Next]_vars PROVE RebuildInv'
  OBVIOUS
<1>1. CASE StoreStep \/ ClientStep \/ UNCHANGED vars
  BY <1>1, StoreKeeps, ClientKeeps DEF RebuildInv, Flushed, graph
<1>2. ASSUME IndexStep PROVE RebuildInv'
  <2> USE DEF RebuildInv, Flushed, graph, TypeOK
  <2>1. CASE LoadDocuments
    BY <2>1 DEF LoadDocuments, NoIndex
  <2>2. CASE CheckBeforeClear
    BY <2>2 DEF CheckBeforeClear
  <2>3. CASE ClearCollectionGraph
    BY <2>3 DEF ClearCollectionGraph
  <2>4. ASSUME NEW d \in Docs, ChunkDocument(d) PROVE RebuildInv'
    BY <2>4 DEF ChunkDocument
  <2>5. CASE FlushChunks
    BY <2>5 DEF FlushChunks
  <2>6. ASSUME NEW d \in Docs, NEW N \in SUBSET Names,
               NEW E \in SUBSET {p \in Names \X Names : p[1] # p[2]}, ExtractFromChunk(d, N, E)
        PROVE  RebuildInv'
    BY <2>6 DEF ExtractFromChunk
  <2>7. CASE FlushEntities
    BY <2>7 DEF FlushEntities
  <2>8. CASE CommitGraph \/ IndexFails
    BY <2>8 DEF CommitGraph, IndexFails, NoIndex
  <2>9. QED
    BY <1>2, <2>1, <2>2, <2>3, <2>4, <2>5, <2>6, <2>7, <2>8 DEF IndexStep
<1>3. QED
  BY <1>1, <1>2, NextSplit

LEMMA BuildStep == TypeOK /\ RebuildInv /\ BuildInv /\ [Next]_vars => BuildInv'
<1> SUFFICES ASSUME TypeOK, RebuildInv, BuildInv, [Next]_vars PROVE BuildInv'
  OBVIOUS
<1>1. CASE StoreStep \/ ClientStep \/ UNCHANGED vars
  BY <1>1, StoreKeeps, ClientKeeps DEF BuildInv, BuildsOf, graph
<1>2. /\ builds \in Nat /\ \A x \in chunks : x.build \in Nat
      /\ \A x \in index.chunks : x.build \in Nat
  BY GraphIndexAssumption DEF TypeOK, Chunk
<1>3. ASSUME IndexStep PROVE BuildInv'
  <2> USE DEF BuildInv, BuildsOf, graph
  <2>1. CASE LoadDocuments
    BY <1>2, <2>1 DEF LoadDocuments, NoIndex
  <2>2. CASE CheckBeforeClear
    BY <2>2 DEF CheckBeforeClear, TypeOK
  <2>3. CASE ClearCollectionGraph
    BY <2>3 DEF ClearCollectionGraph, TypeOK
  <2>4. ASSUME NEW d \in Docs, ChunkDocument(d) PROVE BuildInv'
    BY <2>4 DEF ChunkDocument, TypeOK
  <2>5. CASE FlushChunks
    BY <2>5 DEF FlushChunks, TypeOK
  <2>6. ASSUME NEW d \in Docs, NEW N \in SUBSET Names,
               NEW E \in SUBSET {p \in Names \X Names : p[1] # p[2]}, ExtractFromChunk(d, N, E)
        PROVE  BuildInv'
    BY <2>6 DEF ExtractFromChunk, TypeOK
  <2>7. CASE FlushEntities
    BY <2>7 DEF FlushEntities, TypeOK
  <2>8. CASE CommitGraph
    BY <1>2, <2>8 DEF CommitGraph, NoIndex, RebuildInv
  <2>9. CASE IndexFails
    BY <2>9 DEF IndexFails, NoIndex
  <2>10. QED
    BY <1>3, <2>1, <2>2, <2>3, <2>4, <2>5, <2>6, <2>7, <2>8, <2>9 DEF IndexStep
<1>4. QED
  BY <1>1, <1>3, NextSplit

LEMMA CoverStep == TypeOK /\ CoverInv /\ [Next]_vars => CoverInv'
<1> SUFFICES ASSUME TypeOK, CoverInv, [Next]_vars PROVE CoverInv'
  OBVIOUS
<1> USE DEF CoverInv, Flushed, Stored
<1>1. ASSUME NEW d \in Docs, NEW v \in Contents, Upload(d, v) \/ Edit(d, v) PROVE CoverInv'
  BY <1>1 DEF Upload, Edit, TypeOK
<1>2. ASSUME NEW d \in Docs, DeleteDocument(d) PROVE CoverInv'
  BY <1>2, GraphIndexAssumption DEF DeleteDocument, TypeOK
<1>3. CASE DeleteCollection
  BY <1>3, GraphIndexAssumption DEF DeleteCollection, TypeOK
<1>4. CASE ClientStep \/ UNCHANGED vars
  BY <1>4, ClientKeeps DEF store
<1>5. ASSUME IndexStep PROVE CoverInv'
  <2>1. CASE LoadDocuments
    BY <2>1 DEF LoadDocuments, NoIndex
  <2>2. CASE CheckBeforeClear
    BY <2>2 DEF CheckBeforeClear, TypeOK, store
  <2>3. CASE ClearCollectionGraph
    BY <2>3 DEF ClearCollectionGraph, TypeOK, store
  <2>4. ASSUME NEW d \in Docs, ChunkDocument(d) PROVE CoverInv'
    BY <2>4 DEF ChunkDocument, TypeOK
  <2>5. CASE FlushChunks
    BY <2>5 DEF FlushChunks, TypeOK, store
  <2>6. ASSUME NEW d \in Docs, NEW N \in SUBSET Names,
               NEW E \in SUBSET {p \in Names \X Names : p[1] # p[2]}, ExtractFromChunk(d, N, E)
        PROVE  CoverInv'
    BY <2>6 DEF ExtractFromChunk, TypeOK, store
  <2>7. CASE FlushEntities
    BY <2>7 DEF FlushEntities, TypeOK, store
  <2>8. CASE CommitGraph \/ IndexFails
    BY <2>8 DEF CommitGraph, IndexFails, NoIndex, store
  <2>9. QED
    BY <1>5, <2>1, <2>2, <2>3, <2>4, <2>5, <2>6, <2>7, <2>8 DEF IndexStep
<1>6. QED
  BY <1>1, <1>2, <1>3, <1>4, <1>5, NextSplit DEF StoreStep

\* The index steps other than the load, the flush and the commit keep what the
\* foreign keys of the gathered chunks need.
LEMMA KeyStep == TypeOK /\ KeyInv /\ [Next]_vars => KeyInv'
<1> SUFFICES ASSUME TypeOK, KeyInv, [Next]_vars PROVE KeyInv'
  OBVIOUS
<1> USE DEF KeyInv, Flushed, Stored
<1>0. \A x \in index.chunks : x.doc \in Docs
  BY DEF TypeOK, Chunk
<1>1. ASSUME StoreStep PROVE KeyInv'
  <2>1. ASSUME NEW d \in Docs, NEW v \in Contents, Upload(d, v) \/ Edit(d, v) PROVE KeyInv'
    BY <1>0, <2>1 DEF Upload, Edit, TypeOK, Generating
  <2>2. ASSUME NEW d \in Docs, DeleteDocument(d) PROVE KeyInv'
    BY <1>0, <2>2 DEF DeleteDocument, LockedDoc, TypeOK, Generating
  <2>3. CASE DeleteCollection
    BY <2>3 DEF DeleteCollection, LockedCollection, Generating
  <2>4. QED
    BY <1>1, <2>1, <2>2, <2>3 DEF StoreStep
<1>2. ASSUME IndexStep PROVE KeyInv'
  <2>1. CASE LoadDocuments \/ IndexFails
    <3>1. index'.pc \in {"loaded", "idle"} /\ collection' = collection /\ op' = op
      <4>1. CASE LoadDocuments
        BY <4>1 DEF LoadDocuments, NoIndex
      <4>2. CASE IndexFails
        BY <4>2 DEF IndexFails, NoIndex, store
      <4>3. QED
        BY <2>1, <4>1, <4>2
    <3>2. QED
      BY <3>1 DEF Generating
  <2>2. CASE CheckBeforeClear
    BY <2>2 DEF CheckBeforeClear, TypeOK, Generating, store
  <2>3. CASE ClearCollectionGraph
    <3>1. Generating' => Generating
      BY <2>3 DEF ClearCollectionGraph, Disturb, Generating, TypeOK
    <3>2. QED
      BY <2>3, <3>1 DEF ClearCollectionGraph, TypeOK, store
  <2>4. ASSUME NEW d \in Docs, ChunkDocument(d) PROVE KeyInv'
    BY <2>4 DEF ChunkDocument, TypeOK, Generating
  <2>5. CASE FlushChunks
    BY <2>5 DEF FlushChunks, TypeOK, Generating, store
  <2>6. ASSUME NEW d \in Docs, NEW N \in SUBSET Names,
               NEW E \in SUBSET {p \in Names \X Names : p[1] # p[2]}, ExtractFromChunk(d, N, E)
        PROVE  KeyInv'
    BY <2>6 DEF ExtractFromChunk, TypeOK, Generating, store
  <2>7. CASE FlushEntities
    BY <2>7 DEF FlushEntities, TypeOK, Generating, store
  <2>8. CASE CommitGraph
    <3>1. Generating' => Generating
      BY <2>8 DEF CommitGraph, Disturb, Generating, TypeOK
    <3>2. QED
      BY <2>8, <3>1 DEF CommitGraph, NoIndex, store
  <2>9. QED
    BY <1>2, <2>1, <2>2, <2>3, <2>4, <2>5, <2>6, <2>7, <2>8 DEF IndexStep
<1>3. CASE ClientStep \/ UNCHANGED vars
  <2>1. Generating' => collection
    <3>1. ASSUME NEW c \in Clients, LoadChunksToAsk(c) PROVE collection
      BY <3>1 DEF LoadChunksToAsk
    <3>2. ASSUME NEW c \in Clients, NEW S \in SUBSET op[c].chunks, CommitQuestions(c, S)
          PROVE  Generating' => Generating
      BY <3>2, NoOpIdle DEF CommitQuestions, Generating, TypeOK
    <3>3. ASSUME NEW c \in Clients, NEW S \in SUBSET entities, SeedEntities(c, S)
          PROVE  Generating' => Generating
      BY <3>3 DEF SeedEntities, Generating, TypeOK
    <3>4. ASSUME NEW c \in Clients, ExpandRelationships(c) PROVE Generating' => Generating
      BY <3>4 DEF ExpandRelationships, Generating, TypeOK
    <3>5. ASSUME NEW c \in Clients, NEW S \in SUBSET chunks, ChooseChunks(c, S)
          PROVE  Generating' => Generating
      BY <3>5 DEF ChooseChunks, Generating, TypeOK
    <3>6. ASSUME NEW c \in Clients, ListNeighbours(c) PROVE Generating' => Generating
      BY <3>6 DEF ListNeighbours, Generating, TypeOK
    <3>7. ASSUME NEW c \in Clients, RecordTrace(c) PROVE Generating' => Generating
      BY <3>7, NoOpIdle DEF RecordTrace, Generating, TypeOK
    <3>8. CASE UNCHANGED vars
      BY <3>8 DEF vars, Generating
    <3>9. QED
      BY <1>3, <3>1, <3>2, <3>3, <3>4, <3>5, <3>6, <3>7, <3>8 DEF ClientStep
  <2>2. QED
    BY <1>3, <2>1, ClientKeeps DEF store
<1>4. QED
  BY <1>1, <1>2, <1>3, NextSplit

LEMMA OneBuildStep ==
    TypeOK /\ RebuildInv /\ BuildInv /\ GraphIsOneBuild /\ [Next]_vars => GraphIsOneBuild'
<1> SUFFICES ASSUME TypeOK, RebuildInv, BuildInv, GraphIsOneBuild, [Next]_vars
             PROVE  GraphIsOneBuild'
  OBVIOUS
<1>1. CASE UNCHANGED graph
  BY <1>1 DEF GraphIsOneBuild, BuildsOf, Endpoints, graph
<1>2. CASE ClearCollectionGraph
  BY <1>2 DEF ClearCollectionGraph, GraphIsOneBuild, BuildsOf
<1>3. ASSUME CommitGraph PROVE GraphIsOneBuild'
  <2>1. /\ chunks' = index.chunks
        /\ entities' = {[build |-> builds, name |-> n] : n \in index.names}
        /\ rels' = {[build |-> builds, source |-> p[1], target |-> p[2]] : p \in index.pairs}
    BY <1>3 DEF CommitGraph, RebuildInv
  <2>2. \A b \in BuildsOf(chunks') \cup BuildsOf(entities') \cup BuildsOf(rels') : b = builds
    BY <2>1 DEF BuildsOf, BuildInv
  <2>3. ASSUME NEW r \in rels' PROVE Endpoints(r) \subseteq entities'
    <3>1. PICK p \in index.pairs : r = [build |-> builds, source |-> p[1], target |-> p[2]]
      BY <2>1, <2>3
    <3>2. p[1] \in index.names /\ p[2] \in index.names
      BY <1>3 DEF CommitGraph, RebuildInv
    <3>3. QED
      BY <2>1, <3>1, <3>2 DEF Endpoints
  <2>4. QED
    BY <2>2, <2>3 DEF GraphIsOneBuild, BuildsOf, Endpoints
<1>4. UNCHANGED graph \/ ClearCollectionGraph \/ CommitGraph
  BY NextSplit, StoreKeeps, ClientKeeps, IndexKeepsGraph
<1>5. QED
  BY <1>1, <1>2, <1>3, <1>4

LEMMA CurrentStep ==
    /\ TypeOK /\ RebuildInv /\ BuildInv /\ CoverInv /\ KeyInv /\ GraphIsCurrent
    /\ [Next]_vars
    => GraphIsCurrent'
<1> SUFFICES ASSUME TypeOK, RebuildInv, BuildInv, CoverInv, KeyInv, GraphIsCurrent, [Next]_vars
             PROVE  GraphIsCurrent'
  OBVIOUS
<1> USE DEF GraphIsCurrent, Stored
<1>0. /\ \A x \in chunks : x.doc \in Docs /\ x.build \in Nat
      /\ builds \in Nat
  BY GraphIndexAssumption DEF TypeOK, Chunk
<1>1. ASSUME NEW d \in Docs, NEW v \in Contents, Upload(d, v) \/ Edit(d, v) PROVE GraphIsCurrent'
  BY <1>0, <1>1 DEF Upload, Edit, TypeOK, graph, BuildsOf
<1>2. ASSUME NEW d \in Docs, DeleteDocument(d) PROVE GraphIsCurrent'
  BY <1>0, <1>2, GraphIndexAssumption DEF DeleteDocument, ReferredDoc, TypeOK, graph, BuildsOf
<1>3. CASE DeleteCollection
  BY <1>3 DEF DeleteCollection, ReferredCollection, graph, BuildsOf
<1>4. CASE ClientStep \/ UNCHANGED vars
  BY <1>4, ClientKeeps DEF store, graph, BuildsOf
<1>5. ASSUME IndexStep PROVE GraphIsCurrent'
  <2>1. CASE LoadDocuments
    <3>1. builds' \notin BuildsOf(chunks')
      BY <1>0, <2>1 DEF LoadDocuments, BuildInv, BuildsOf, graph
    <3>2. QED
      BY <2>1, <3>1 DEF LoadDocuments, graph
  <2>2. CASE ClearCollectionGraph
    BY <2>2 DEF ClearCollectionGraph, BuildsOf
  <2>3. ASSUME NEW d \in Docs, ChunkDocument(d) PROVE GraphIsCurrent'
    BY <2>3 DEF ChunkDocument, RebuildInv, BuildsOf, graph
  <2>4. CASE CommitGraph
    <3>1. chunks' = index.chunks /\ UNCHANGED <<docs, stale, builds>>
      BY <2>4 DEF CommitGraph, RebuildInv, store
    <3>2. \A x \in index.chunks : Stored(x.doc)
      BY <2>4 DEF CommitGraph, KeyInv, Flushed
    <3>3. \A d \in Docs \ stale : Stored(d) =>
             [build |-> builds, doc |-> d, content |-> docs[d]] \in index.chunks
      BY <2>4 DEF CommitGraph, CoverInv, Flushed
    <3>4. QED
      BY <3>1, <3>2, <3>3
  <2>5. CASE UNCHANGED <<docs, stale, builds, chunks>>
    BY <2>5 DEF BuildsOf
  <2>6. QED
    BY <1>5, <2>1, <2>2, <2>3, <2>4, <2>5
       DEF IndexStep, CheckBeforeClear, FlushChunks, ExtractFromChunk, FlushEntities, IndexFails,
           store, graph
<1>6. QED
  BY <1>1, <1>2, <1>3, <1>4, <1>5, NextSplit DEF StoreStep

\* Questions and the clear exclude each other: questions are committed only on
\* stored chunks, and the chunks are cleared only without questions.
LEMMA QuestionsStep ==
    QuestionsKeepTheirSource /\ [Next]_vars => QuestionsKeepTheirSource'
<1> SUFFICES ASSUME QuestionsKeepTheirSource, [Next]_vars
             PROVE  QuestionsKeepTheirSource'
  OBVIOUS
<1> USE DEF QuestionsKeepTheirSource
<1>1. CASE StoreStep
  BY <1>1, StoreKeeps DEF graph, evaluation
<1>2. ASSUME IndexStep PROVE QuestionsKeepTheirSource'
  <2>1. UNCHANGED evaluation
    BY <1>2 DEF IndexStep, LoadDocuments, CheckBeforeClear, ClearCollectionGraph, ChunkDocument,
       FlushChunks, ExtractFromChunk, FlushEntities, CommitGraph, IndexFails
  <2>2. CASE ClearCollectionGraph
    BY <2>1, <2>2 DEF ClearCollectionGraph, evaluation
  <2>3. CASE CommitGraph
    BY <2>1, <2>3 DEF CommitGraph, evaluation
  <2>4. QED
    BY <1>2, <2>1, <2>2, <2>3, IndexKeepsGraph DEF graph, evaluation
<1>3. ASSUME ClientStep PROVE QuestionsKeepTheirSource'
  <2>1. ASSUME NEW c \in Clients, NEW S \in SUBSET op[c].chunks, CommitQuestions(c, S)
        PROVE  QuestionsKeepTheirSource'
    BY <2>1 DEF CommitQuestions, graph, evaluation
  <2>2. QED
    BY <1>3, <2>1 DEF ClientStep, LoadChunksToAsk, SeedEntities, ExpandRelationships, ChooseChunks,
       ListNeighbours, RecordTrace, graph, evaluation
<1>4. CASE UNCHANGED vars
  BY <1>4 DEF vars, graph, evaluation
<1>5. QED
  BY <1>1, <1>2, <1>3, <1>4, NextSplit

LEMMA DeletedStep ==
    /\ TypeOK /\ RebuildInv /\ KeyInv /\ GraphIsOneBuild /\ DeletedCollectionIsEmpty
    /\ [Next]_vars /\ TypeOK'
    => DeletedCollectionIsEmpty'
<1> SUFFICES ASSUME TypeOK, RebuildInv, KeyInv, GraphIsOneBuild, DeletedCollectionIsEmpty,
                    [Next]_vars, TypeOK'
             PROVE  DeletedCollectionIsEmpty'
  OBVIOUS
<1> USE DEF DeletedCollectionIsEmpty, Stored
<1>1. ASSUME StoreStep PROVE DeletedCollectionIsEmpty'
  <2>1. ASSUME NEW d \in Docs, NEW v \in Contents, Upload(d, v) \/ Edit(d, v)
        PROVE  DeletedCollectionIsEmpty'
    BY <2>1 DEF Upload, Edit
  <2>2. ASSUME NEW d \in Docs, DeleteDocument(d) PROVE DeletedCollectionIsEmpty'
    BY <2>2 DEF DeleteDocument
  <2>3. CASE DeleteCollection
    <3>1. chunks = {} /\ entities = {} /\ sets = 0 /\ ~traced
      BY <2>3 DEF DeleteCollection, ReferredCollection, TypeOK
    <3>2. rels = {}
      BY <3>1 DEF GraphIsOneBuild, Endpoints
    <3>3. questions = {}
      BY <3>1 DEF TypeOK
    <3>4. \A d \in Docs : docs'[d] \notin Contents
      BY <2>3, GraphIndexAssumption DEF DeleteCollection
    <3>5. QED
      BY <2>3, <3>1, <3>2, <3>3, <3>4 DEF DeleteCollection, graph, evaluation
  <2>4. QED
    BY <1>1, <2>1, <2>2, <2>3 DEF StoreStep
<1>2. ASSUME IndexStep PROVE DeletedCollectionIsEmpty'
  <2>1. UNCHANGED <<collection, docs, evaluation, traced>>
    BY <1>2 DEF IndexStep, LoadDocuments, CheckBeforeClear, ClearCollectionGraph, ChunkDocument,
       FlushChunks, ExtractFromChunk, FlushEntities, CommitGraph, IndexFails, store
  <2>2. CASE UNCHANGED graph
    BY <2>1, <2>2 DEF graph, evaluation
  <2>3. CASE ClearCollectionGraph
    BY <2>1, <2>3 DEF ClearCollectionGraph, evaluation
  <2>4. CASE CommitGraph
    <3>1. ~collection => index.chunks = {} /\ index.names = {} /\ index.pairs = {}
      BY <2>4 DEF CommitGraph, KeyInv, RebuildInv, Flushed
    <3>2. QED
      BY <2>1, <2>4, <3>1 DEF CommitGraph, evaluation
  <2>5. QED
    BY <1>2, <2>2, <2>3, <2>4, IndexKeepsGraph
<1>3. ASSUME ClientStep PROVE DeletedCollectionIsEmpty'
  <2>1. ASSUME NEW c \in Clients, NEW S \in SUBSET op[c].chunks, CommitQuestions(c, S)
        PROVE  DeletedCollectionIsEmpty'
    BY <2>1 DEF CommitQuestions, KeyInv, Generating, store, graph, evaluation
  <2>2. ASSUME NEW c \in Clients, RecordTrace(c) PROVE DeletedCollectionIsEmpty'
    BY <2>2 DEF RecordTrace, store, graph, evaluation
  <2>3. CASE UNCHANGED <<store, graph, evaluation, traced>>
    BY <2>3 DEF store, graph, evaluation
  <2>4. QED
    BY <1>3, <2>1, <2>2, <2>3 DEF ClientStep, LoadChunksToAsk, SeedEntities, ExpandRelationships,
       ChooseChunks, ListNeighbours
<1>4. CASE UNCHANGED vars
  BY <1>4 DEF vars, store, graph, evaluation
<1>5. QED
  BY <1>1, <1>2, <1>3, <1>4, NextSplit

\* After a step that disturbs the searches no search is undisturbed.
LEMMA DisturbSearch == TypeOK /\ Disturb => SearchInv'
<1> SUFFICES ASSUME TypeOK, Disturb, NEW c \in Clients, op'[c].undisturbed
             PROVE  op'[c].pc = "idle"
  BY DEF SearchInv
<1>1. op'[c] = [op[c] EXCEPT !.undisturbed = (op[c] = NoOp)]
  BY DEF Disturb
<1>2. op[c] \in Op
  BY DEF TypeOK, Op
<1>3. op'[c].undisturbed = (op[c] = NoOp) /\ op'[c].pc = op[c].pc
  BY <1>1, <1>2 DEF Op
<1>4. QED
  BY <1>3, NoOpIdle

\* Listing the neighbours completes an undisturbed search.
LEMMA ListingResolves ==
    ASSUME TypeOK, GraphIsOneBuild, SearchInv, NEW c \in Clients, ListNeighbours(c)
    PROVE  SearchInv'
<1> DEFINE ends == UNION {Endpoints(r) : r \in op[c].rels}
           found == op[c].entities \cup (entities \cap ends)
<1>1. op' = [op EXCEPT ![c] = [op[c] EXCEPT !.pc = "found", !.entities = found]]
  BY DEF ListNeighbours, TypeOK
<1>2. op[c].pc = "chosen" /\ UNCHANGED <<chunks, entities, rels>>
  BY DEF ListNeighbours, graph
<1>3. \A r \in op[c].rels : Endpoints(r) \subseteq ends
  OBVIOUS
<1>4. op[c].undisturbed => \A r \in op[c].rels : Endpoints(r) \subseteq entities
  BY <1>2 DEF SearchInv, GraphIsOneBuild
<1> HIDE DEF ends
<1>5. op[c].undisturbed => \A r \in op[c].rels : Endpoints(r) \subseteq found
  BY <1>3, <1>4
<1> HIDE DEF found
<1>6. op'[c] = [op[c] EXCEPT !.pc = "found", !.entities = found] /\ op[c] \in Op
  BY <1>1 DEF TypeOK, Op
<1>7. /\ op'[c].pc = "found" /\ op'[c].entities = found
      /\ op'[c].rels = op[c].rels /\ op'[c].chunks = op[c].chunks
      /\ op'[c].undisturbed = op[c].undisturbed
  BY <1>6 DEF Op
<1>8. \A b \in Clients \ {c} : op'[b] = op[b]
  BY <1>1 DEF TypeOK
<1>9. op'[c].undisturbed => Resolves(op'[c]) /\ op'[c].chunks \subseteq chunks
  BY <1>2, <1>5, <1>7 DEF SearchInv, Resolves
<1>10. QED
  BY <1>2, <1>7, <1>8, <1>9 DEF SearchInv, Resolves, Endpoints

LEMMA SearchStep == TypeOK /\ GraphIsOneBuild /\ SearchInv /\ [Next]_vars => SearchInv'
<1> SUFFICES ASSUME TypeOK, GraphIsOneBuild, SearchInv, [Next]_vars PROVE SearchInv'
  OBVIOUS
<1>1. CASE UNCHANGED <<graph, op>>
  BY <1>1 DEF SearchInv, Resolves, Endpoints, graph
<1>2. CASE ClearCollectionGraph \/ CommitGraph
  BY <1>2, DisturbSearch DEF ClearCollectionGraph, CommitGraph
<1>3. IndexStep => UNCHANGED <<graph, op>> \/ ClearCollectionGraph \/ CommitGraph
  BY DEF IndexStep, LoadDocuments, CheckBeforeClear, ChunkDocument, FlushChunks,
         ExtractFromChunk, FlushEntities, IndexFails
<1>4. ASSUME ClientStep PROVE SearchInv'
  <2> USE DEF SearchInv, Resolves, Endpoints, TypeOK, graph
  <2>1. ASSUME NEW c \in Clients, LoadChunksToAsk(c) PROVE SearchInv'
    BY <2>1 DEF LoadChunksToAsk
  <2>2. ASSUME NEW c \in Clients, NEW S \in SUBSET op[c].chunks, CommitQuestions(c, S)
        PROVE  SearchInv'
    BY <2>2, NoOpIdle DEF CommitQuestions
  <2>3. ASSUME NEW c \in Clients, NEW S \in SUBSET entities, SeedEntities(c, S) PROVE SearchInv'
    BY <2>3 DEF SeedEntities
  <2>4. ASSUME NEW c \in Clients, ExpandRelationships(c) PROVE SearchInv'
    BY <2>4 DEF ExpandRelationships
  <2>5. ASSUME NEW c \in Clients, NEW S \in SUBSET chunks, ChooseChunks(c, S) PROVE SearchInv'
    BY <2>5 DEF ChooseChunks
  <2>6. ASSUME NEW c \in Clients, ListNeighbours(c) PROVE SearchInv'
    BY <2>6, ListingResolves
  <2>7. ASSUME NEW c \in Clients, RecordTrace(c) PROVE SearchInv'
    BY <2>7, NoOpIdle DEF RecordTrace
  <2>8. QED
    BY <1>4, <2>1, <2>2, <2>3, <2>4, <2>5, <2>6, <2>7 DEF ClientStep
<1>5. QED
  BY <1>1, <1>2, <1>3, <1>4, NextSplit, StoreKeeps DEF vars

LEMMA InvStep == GraphInv /\ [Next]_vars => GraphInv'
BY TypeStep, RebuildStep, BuildStep, CoverStep, KeyStep, SearchStep, OneBuildStep, CurrentStep,
   QuestionsStep, DeletedStep DEF GraphInv

LEMMA InvAlways == Spec => []GraphInv
<1>1. GraphInv /\ [Next]_vars => GraphInv'
  BY InvStep
<1>2. QED
  BY <1>1, InvInit, PTL DEF Spec

-----------------------------------------------------------------------------
(* Theorems *)

\* The graph is the work of one indexing attempt and its relationships join its
\* entities, whatever attempts were cut short (graph_index.py).
THEOREM GraphAlwaysOneBuild == Spec => []GraphIsOneBuild
<1>1. GraphInv => GraphIsOneBuild
  BY DEF GraphInv
<1>2. QED
  BY <1>1, InvAlways, PTL

\* The graph of the last attempt has the current text of every stored document
\* that did not change since it was read (graph_index.py index_collection).
THEOREM GraphAlwaysCurrent == Spec => []GraphIsCurrent
<1>1. GraphInv => GraphIsCurrent
  BY DEF GraphInv
<1>2. QED
  BY <1>1, InvAlways, PTL

\* No interleaving of indexing and question generation loses the chunk that a
\* question was generated from (graph_index.py, qa_generator.py).
THEOREM QuestionsAlwaysKeepTheirSource == Spec => []QuestionsKeepTheirSource
<1>1. GraphInv => QuestionsKeepTheirSource
  BY DEF GraphInv
<1>2. QED
  BY <1>1, InvAlways, PTL

\* The graph that questions were made from is never cleared or replaced, whatever
\* builds were under way when they were made (graph_index.py, qa_generator.py).
THEOREM EvaluatedGraphsAreFrozen == Spec => EvaluatedGraphIsFrozen
<1>1. GraphInv /\ [Next]_vars => [questions # {} => UNCHANGED graph]_vars
  <2>. SUFFICES ASSUME GraphInv, Next, questions # {} PROVE UNCHANGED graph
    OBVIOUS
  <2>1. questions \cap chunks # {}
    BY DEF GraphInv, QuestionsKeepTheirSource
  <2>2. ~ClearCollectionGraph
    BY <2>1 DEF ClearCollectionGraph
  <2>3. ~CommitGraph
    BY <2>1 DEF CommitGraph, GraphInv, RebuildInv
  <2>4. IndexStep => UNCHANGED graph
    BY <2>2, <2>3 DEF IndexStep, LoadDocuments, CheckBeforeClear, ChunkDocument,
                      FlushChunks, ExtractFromChunk, FlushEntities, IndexFails
  <2>5. QED
    BY <2>4, NextSplit, StoreKeeps, ClientKeeps
<1>2. QED
  BY <1>1, InvAlways, PTL DEF Spec, EvaluatedGraphIsFrozen

\* No indexing, generation or search in flight leaves a row behind in a deleted
\* collection (collections.py delete_collection).
THEOREM DeletedAlwaysEmpty == Spec => []DeletedCollectionIsEmpty
<1>1. GraphInv => DeletedCollectionIsEmpty
  BY DEF GraphInv
<1>2. QED
  BY <1>1, InvAlways, PTL

\* A search during which no indexing committed gives a consistent answer
\* (graph_retrieval.py _local_search).
THEOREM UndisturbedAnswersResolve == Spec => []UndisturbedAnswer
<1>1. GraphInv => UndisturbedAnswer
  BY DEF GraphInv, SearchInv, UndisturbedAnswer
<1>2. QED
  BY <1>1, InvAlways, PTL
=============================================================================
