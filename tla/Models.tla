------------------------------- MODULE Models -------------------------------
(***************************************************************************)
(* The tables as apps/api/src/api/models.py declares them: what the        *)
(* running API and worker read and write.  Columns, indexes and foreign    *)
(* keys in the form of Schema.tla, in the order of the classes.            *)
(***************************************************************************)
Table(columns, indexes, parents) ==
    [columns |-> columns, indexes |-> indexes, parents |-> parents]

JobTables ==
    [jobs |-> Table({"id", "type", "workflow_key", "dataset_key", "status",
           "payload_json", "attempts", "max_attempts", "created_at", "updated_at",
           "started_at", "finished_at", "cancel_requested_at", "error",
           "result_json"}, {"type_status_created_at",
           "workflow_dataset_status_created_at", "dataset_status_created_at"}, {}),
     datasets |-> Table({"key", "title", "domain_type", "profile_key",
           "source_dir", "index_dir", "db_path", "is_active", "created_at",
           "updated_at"}, {"is_active", "profile_key"}, {})]

CollectionTables ==
    [rag_collections |-> Table({"id", "name", "description", "embedding_model",
           "chunking_policy_json", "index_status", "created_at", "updated_at"},
           {"index_status", "created_at"}, {}),
     rag_documents |-> Table({"id", "collection_id", "filename", "mime_type",
           "source_type", "status", "checksum", "metadata_json", "created_at",
           "updated_at"}, {"collection_id", "status", "mime_type"},
           {"rag_collections"}),
     rag_chunks |-> Table({"id", "collection_id", "document_id", "ordinal",
           "token_count", "embedding_json", "embedding_model", "created_at",
           "text"}, {"collection_id", "document_id"}, {"rag_collections",
           "rag_documents"})]

GraphTables ==
    [rag_entities |-> Table({"id", "collection_id", "name", "normalized_name",
           "type", "description", "embedding_json", "degree", "community_id",
           "created_at"}, {"collection_id", "normalized_name", "community_id"},
           {"rag_collections"}),
     rag_relationships |-> Table({"id", "collection_id", "source_entity_id",
           "target_entity_id", "description", "weight", "created_at"},
           {"collection_id", "source_entity_id", "target_entity_id"},
           {"rag_collections", "rag_entities"}),
     rag_entity_chunks |-> Table({"id", "entity_id", "chunk_id"}, {"entity_id",
           "chunk_id"}, {"rag_chunks", "rag_entities"}),
     rag_communities |-> Table({"id", "collection_id", "level", "title",
           "summary", "summary_embedding_json", "member_count", "created_at"},
           {"collection_id"}, {"rag_collections"}),
     rag_community_members |-> Table({"id", "community_id", "entity_id"},
           {"community_id", "entity_id"}, {"rag_communities", "rag_entities"}),
     rag_query_traces |-> Table({"id", "collection_id", "query", "mode",
           "embedding_model", "results_json", "created_at"}, {"collection_id"},
           {"rag_collections"})]

EvaluationTables ==
    [evaluation_sets |-> Table({"id", "collection_id", "name", "description",
           "status", "question_count", "created_at", "updated_at"},
           {"collection_id"}, {"rag_collections"}),
     evaluation_questions |-> Table({"id", "evaluation_set_id", "question",
           "answer", "status", "source_chunk_id", "source_entity_id", "created_at",
           "updated_at"}, {"set_id", "status"}, {"evaluation_sets", "rag_chunks"}),
     evaluation_runs |-> Table({"id", "evaluation_set_id", "collection_id",
           "mode", "status", "question_count", "report_json", "error", "created_at",
           "finished_at"}, {"set_id", "status"}, {"evaluation_sets",
           "rag_collections"}),
     evaluation_results |-> Table({"id", "run_id", "question_id", "question",
           "generated_answer", "retrieved_chunk_ids_json",
           "retrieved_entity_ids_json", "groundedness", "source_coverage",
           "hallucination", "notes", "created_at"}, {"run_id"}, {"evaluation_runs"})]

(* Base.metadata. *)
ModelTables ==
    [t \in UNION {DOMAIN JobTables, DOMAIN CollectionTables, DOMAIN GraphTables,
                  DOMAIN EvaluationTables} |->
        CASE t \in DOMAIN JobTables -> JobTables[t]
          [] t \in DOMAIN CollectionTables -> CollectionTables[t]
          [] t \in DOMAIN GraphTables -> GraphTables[t]
          [] t \in DOMAIN EvaluationTables -> EvaluationTables[t]]
=============================================================================
