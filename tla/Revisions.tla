----------------------------- MODULE Revisions -----------------------------
(***************************************************************************)
(* The revisions under apps/api/alembic/versions, in the order of their    *)
(* down_revision links: R<revision> is [id, up, down], the statements of   *)
(* upgrade() and downgrade() in the order of the code.  The columns of a   *)
(* table and consecutive add_column, drop_column, create_index and         *)
(* drop_index calls on one table are one statement.  The long functions    *)
(* are split in parts.                                                     *)
(***************************************************************************)
EXTENDS Schema

R20260227_0001 ==
    [id |-> "20260227_0001",
     up |-> <<CreateTable("jobs", {"id", "status", "created_at", "updated_at"}, {})>>,
     down |-> <<DropTable("jobs")>>]

R20260227_0002 ==
    [id |-> "20260227_0002",
     up |-> <<CreateTable("worker_heartbeats", {"worker_id", "last_heartbeat",
                  "updated_at"}, {})>>,
     down |-> <<DropTable("worker_heartbeats")>>]

R20260302_0003 ==
    [id |-> "20260302_0003",
     up |-> <<AddColumns("jobs", {"type", "payload_json", "attempts", "max_attempts",
                  "started_at", "finished_at", "error", "result_json"}),
              CreateIndexes("jobs", {"type_status_created_at"})>>,
     down |-> <<DropIndexes("jobs", {"type_status_created_at"}),
                DropColumns("jobs", {"result_json", "error", "finished_at",
                    "started_at", "max_attempts", "attempts", "payload_json", "type"})>>]

R20260308_0004 ==
    [id |-> "20260308_0004",
     up |-> <<CreateTable("datasets", {"key", "title", "domain_type", "profile_key",
                  "source_dir", "index_dir", "db_path", "is_active", "created_at",
                  "updated_at"}, {}),
              CreateIndexes("datasets", {"is_active", "profile_key"}),
              AddColumns("jobs", {"workflow_key", "dataset_key"}),
              CreateIndexes("jobs", {"workflow_dataset_status_created_at",
                  "dataset_status_created_at"})>>,
     down |-> <<DropIndexes("jobs", {"dataset_status_created_at",
                    "workflow_dataset_status_created_at"}),
                DropColumns("jobs", {"dataset_key", "workflow_key"}),
                DropIndexes("datasets", {"profile_key", "is_active"}),
                DropTable("datasets")>>]

R20260411_0005 ==
    [id |-> "20260411_0005",
     up |-> <<CreateTable("plc_test_suites", {"id", "title", "source_filename",
                  "source_format", "case_count", "definition_json", "created_at",
                  "updated_at"}, {}),
              CreateIndexes("plc_test_suites", {"created_at", "source_format"}),
              AddColumns("jobs", {"plc_suite_id"}),
              CreateIndexes("jobs", {"plc_suite_status_created_at"})>>,
     down |-> <<DropIndexes("jobs", {"plc_suite_status_created_at"}),
                DropColumns("jobs", {"plc_suite_id"}),
                DropIndexes("plc_test_suites", {"source_format", "created_at"}),
                DropTable("plc_test_suites")>>]

R20260412_0006_Runs ==
    <<CreateTable("plc_targets", {"key", "display_name", "description", "executor_mode",
          "metadata_json", "is_active", "created_at", "updated_at"}, {}),
      CreateIndexes("plc_targets", {"created_at", "is_active"}),
      CreateTable("plc_testcases", {"id", "suite_id", "testcase_key", "case_key",
          "instruction_name", "input_type", "output_type", "input_vector_json",
          "expected_output_json", "expected_outputs_json", "expected_outcome",
          "description", "tags_json", "memory_profile_key", "timeout_ms",
          "source_row_number", "source_case_index", "is_active", "created_at",
          "updated_at"}, {"plc_test_suites"}),
      CreateIndexes("plc_testcases", {"created_at", "input_type", "instruction_name",
          "is_active", "suite_id"}),
      CreateTable("plc_test_runs", {"id", "suite_id", "target_key", "backing_job_id",
          "status", "total_count", "queued_count", "running_count", "passed_count",
          "failed_count", "error_count", "created_at", "started_at", "finished_at"},
          {"jobs", "plc_test_suites"}),
      CreateIndexes("plc_test_runs", {"status_created_at", "suite_id_created_at",
          "target_key"})>>

R20260412_0006_Items ==
    <<CreateTable("plc_test_run_items", {"id", "run_id", "testcase_id", "case_key",
          "instruction_name", "status", "expected_output_json", "actual_output_json",
          "validator_result_json", "failure_reason", "duration_ms", "executor_log",
          "started_at", "finished_at"}, {"plc_test_runs", "plc_testcases"}),
      CreateIndexes("plc_test_run_items", {"case_key", "run_id", "status",
          "testcase_id"}),
      CreateTable("plc_test_run_io_logs", {"id", "run_item_id", "direction",
          "memory_address", "memory_symbol", "value_json", "raw_type", "sequence_no",
          "recorded_at"}, {"plc_test_run_items"}),
      CreateIndexes("plc_test_run_io_logs", {"direction", "run_item_id",
          "run_item_sequence"}),
      Insert(<<"plc_targets", "row">>)>>

R20260412_0006 ==
    [id |-> "20260412_0006",
     up |-> R20260412_0006_Runs \o R20260412_0006_Items,
     down |-> <<DropIndexes("plc_test_run_io_logs", {"run_item_sequence", "run_item_id",
                    "direction"}),
                DropTable("plc_test_run_io_logs"),
                DropIndexes("plc_test_run_items", {"testcase_id", "status", "run_id", "case_key"}),
                DropTable("plc_test_run_items"),
                DropIndexes("plc_test_runs", {"target_key", "suite_id_created_at",
                    "status_created_at"}),
                DropTable("plc_test_runs"),
                DropIndexes("plc_testcases", {"suite_id", "is_active", "instruction_name",
                    "input_type", "created_at"}),
                DropTable("plc_testcases"),
                DropIndexes("plc_targets", {"is_active", "created_at"}),
                DropTable("plc_targets")>>]

(* Every case of a stored suite becomes a testcase row; the downgrade is empty. *)
R20260412_0007 ==
    [id |-> "20260412_0007",
     up |-> <<InsertFrom(<<"plc_test_suites", "cases">>, <<"plc_testcases", "row">>)>>,
     down |-> <<>>]

R20260412_0008 ==
    [id |-> "20260412_0008",
     up |-> <<CreateTable("plc_llm_suggestions", {"id", "suite_id", "testcase_id",
                  "suggestion_type", "source_payload_json", "suggestion_payload_json",
                  "status", "created_at", "reviewed_at"}, {"plc_test_suites",
                  "plc_testcases"}),
              CreateIndexes("plc_llm_suggestions", {"status_created_at", "suite_id",
                  "testcase_id"})>>,
     down |-> <<DropIndexes("plc_llm_suggestions", {"testcase_id", "suite_id",
                    "status_created_at"}),
                DropTable("plc_llm_suggestions")>>]

R20260415_0009_Columns ==
    <<CreateTable("plc_execution_profiles", {"key", "memory_profile_key",
          "instruction_name", "input_type", "output_type", "profile_version",
          "timeout_policy_json", "setup_requirements_json", "notes",
          "address_contract_json", "is_active", "created_at", "updated_at"}, {}),
      CreateIndexes("plc_execution_profiles", {"instruction_name", "is_active",
          "memory_profile_key"}),
      AddColumns("plc_testcases", {"execution_profile_key"}),
      Refer("plc_testcases", "plc_execution_profiles"),
      AddColumns("plc_test_runs", {"request_schema_version", "executor_mode",
          "validator_version", "target_snapshot_json"}),
      AddColumns("plc_test_run_items", {"input_type", "output_type", "timeout_ms",
          "expected_outcome", "memory_profile_key", "execution_profile_key",
          "inputs_json", "request_context_json"})>>

R20260415_0009_Data ==
    <<PointAt("plc_testcases", "plc_execution_profiles"),
      InsertFrom(<<"plc_testcases", "row">>, <<"plc_execution_profiles", "row">>),
      SetDict("plc_test_runs"),
      SetDict("plc_test_run_items")>>

(* The testcases are pointed at their profiles before the profiles are inserted. *)
R20260415_0009 ==
    [id |-> "20260415_0009",
     up |-> R20260415_0009_Columns \o R20260415_0009_Data,
     down |-> <<DropColumns("plc_test_run_items", {"request_context_json",
                    "inputs_json", "execution_profile_key", "memory_profile_key",
                    "expected_outcome", "timeout_ms", "output_type", "input_type"}),
                DropColumns("plc_test_runs", {"target_snapshot_json",
                    "validator_version", "executor_mode", "request_schema_version"}),
                Unrefer("plc_testcases", "plc_execution_profiles"),
                DropColumns("plc_testcases", {"execution_profile_key"}),
                DropIndexes("plc_execution_profiles", {"memory_profile_key",
                    "is_active", "instruction_name"}),
                DropTable("plc_execution_profiles")>>]

R20260415_0010 ==
    [id |-> "20260415_0010",
     up |-> <<AddColumns("plc_llm_suggestions", {"payload_schema_version"}),
              CreateIndexes("plc_llm_suggestions", {"type_status"})>>,
     down |-> <<DropIndexes("plc_llm_suggestions", {"type_status"}),
                DropColumns("plc_llm_suggestions", {"payload_schema_version"})>>]

R20260417_0010_Training ==
    <<CreateTable("ft_datasets", {"id", "name", "task_type", "schema_type",
          "description", "current_version_id", "created_at", "updated_at"}, {}),
      CreateIndexes("ft_datasets", {"task_type", "created_at"}),
      CreateTable("ft_dataset_versions", {"id", "dataset_id", "version_label", "status",
          "row_count", "train_split_ratio", "val_split_ratio", "test_split_ratio",
          "created_at", "updated_at"}, {"ft_datasets"}),
      CreateIndexes("ft_dataset_versions", {"dataset_id", "status", "created_at"}),
      CreateTable("ft_dataset_rows", {"id", "dataset_version_id", "split", "input_json",
          "target_json", "metadata_json", "validation_status", "validation_error",
          "created_at", "updated_at"}, {"ft_dataset_versions"}),
      CreateIndexes("ft_dataset_rows", {"dataset_version_id", "split",
          "validation_status"}),
      CreateTable("ft_training_jobs", {"id", "dataset_version_id", "base_model_name",
          "training_method", "hyperparams_json", "status", "backing_job_id", "log_text",
          "created_at", "started_at", "finished_at"}, {"ft_dataset_versions", "jobs"}),
      CreateIndexes("ft_training_jobs", {"dataset_version_id", "status", "created_at"})>>

R20260417_0010_Registry ==
    <<CreateTable("ft_model_artifacts", {"id", "training_job_id", "artifact_type",
          "local_path", "metadata_json", "created_at"}, {"ft_training_jobs"}),
      CreateIndexes("ft_model_artifacts", {"training_job_id", "artifact_type"}),
      CreateTable("model_registry", {"id", "display_name", "source_type",
          "base_model_name", "ollama_model_name", "artifact_id", "status", "tags_json",
          "description", "created_at", "updated_at"}, {"ft_model_artifacts"}),
      CreateIndexes("model_registry", {"status", "source_type", "ollama_model_name"}),
      CreateTable("rag_collections", {"id", "name", "description", "embedding_model",
          "chunking_policy_json", "index_status", "created_at", "updated_at"}, {}),
      CreateIndexes("rag_collections", {"index_status", "created_at"}),
      CreateTable("rag_documents", {"id", "collection_id", "filename", "mime_type",
          "source_type", "status", "checksum", "metadata_json", "created_at",
          "updated_at"}, {"rag_collections"}),
      CreateIndexes("rag_documents", {"collection_id", "status", "mime_type"})>>

R20260417_0010 ==
    [id |-> "20260417_0010",
     up |-> R20260417_0010_Training \o R20260417_0010_Registry,
     down |-> <<DropIndexes("rag_documents", {"mime_type", "status", "collection_id"}),
                DropTable("rag_documents"),
                DropIndexes("rag_collections", {"created_at", "index_status"}),
                DropTable("rag_collections"),
                DropIndexes("model_registry", {"ollama_model_name", "source_type", "status"}),
                DropTable("model_registry"),
                DropIndexes("ft_model_artifacts", {"artifact_type", "training_job_id"}),
                DropTable("ft_model_artifacts"),
                DropIndexes("ft_training_jobs", {"created_at", "status", "dataset_version_id"}),
                DropTable("ft_training_jobs"),
                DropIndexes("ft_dataset_rows", {"validation_status", "split",
                    "dataset_version_id"}),
                DropTable("ft_dataset_rows"),
                DropIndexes("ft_dataset_versions", {"created_at", "status", "dataset_id"}),
                DropTable("ft_dataset_versions"),
                DropIndexes("ft_datasets", {"created_at", "task_type"}),
                DropTable("ft_datasets")>>]

R20260417_0011 ==
    [id |-> "20260417_0011",
     up |-> <<AddColumns("ft_training_jobs", {"trainer_backend", "train_rows",
                  "val_rows", "test_rows", "format_summary_json", "metrics_json",
                  "evaluation_json", "error_json", "output_dir"}),
              AddColumns("model_registry", {"published_model_name", "publish_status",
                  "lineage_json"})>>,
     down |-> <<DropColumns("model_registry", {"lineage_json", "publish_status",
                    "published_model_name"}),
                DropColumns("ft_training_jobs", {"output_dir", "error_json",
                    "evaluation_json", "metrics_json", "format_summary_json",
                    "test_rows", "val_rows", "train_rows", "trainer_backend"})>>]

(* Old training methods get their new name.  The second UPDATE renames a    *)
(* trainer_backend, a column whose values are not tracked.  The downgrade   *)
(* is empty.                                                                *)
R20260523_0012 ==
    [id |-> "20260523_0012",
     up |-> <<Rewrite(<<"ft_training_jobs", "sft_lora">>, <<"ft_training_jobs",
                  "sft_qlora">>)>>,
     down |-> <<>>]

\* Mutant: testcases are dropped before the suggestions that refer to them.
DropTestcasesFirst ==
    <<"plc_test_run_io_logs", "plc_test_run_items", "plc_test_runs", "plc_testcases",
      "plc_llm_suggestions", "plc_execution_profiles", "plc_targets", "plc_test_suites">>

PLC_TABLES_IN_DROP_ORDER ==
    <<"plc_test_run_io_logs", "plc_test_run_items", "plc_test_runs", "plc_llm_suggestions",
      "plc_testcases", "plc_execution_profiles", "plc_targets", "plc_test_suites">>

(* What is left of the PLC domain is dropped; the downgrade restores nothing. *)
R20260523_0013 ==
    [id |-> "20260523_0013",
     up |-> [i \in DOMAIN PLC_TABLES_IN_DROP_ORDER |->
               IfPresent(DropTable(PLC_TABLES_IN_DROP_ORDER[i]))]
            \o <<IfPresent(DropIndexes("jobs", {"plc_suite_status_created_at"})),
                 IfPresent(DropColumns("jobs", {"plc_suite_id"}))>>,
     down |-> <<>>]

(* Both directions inspect the database and do nothing without model_registry. *)
R20260523_0014 ==
    [id |-> "20260523_0014",
     up |-> <<IfPresent(DropIndexes("model_registry", {"ollama_model_name"})),
              IfPresent(Rename("model_registry", "ollama_model_name",
                  "serving_model_name")),
              IfPresent(CreateIndexes("model_registry", {"serving_model_name"}))>>,
     down |-> <<IfPresent(DropIndexes("model_registry", {"serving_model_name"})),
                IfPresent(Rename("model_registry", "serving_model_name",
                    "ollama_model_name")),
                IfPresent(CreateIndexes("model_registry", {"ollama_model_name"}))>>]

Rb4aadc4ac8f6 ==
    [id |-> "b4aadc4ac8f6",
     up |-> <<AddColumns("ft_model_artifacts", {"updated_at"}),
              AddColumns("ft_training_jobs", {"updated_at"})>>,
     down |-> <<DropColumns("ft_training_jobs", {"updated_at"}),
                DropColumns("ft_model_artifacts", {"updated_at"})>>]

R20260525_0015 ==
    [id |-> "20260525_0015",
     up |-> <<DropTable("worker_heartbeats")>>,
     down |-> <<CreateTable("worker_heartbeats", {"worker_id", "last_heartbeat",
                    "updated_at"}, {})>>]

\* Mutant: the datasets registry goes with the fine-tuning datasets.
DropDatasetsToo ==
    <<"model_registry", "ft_model_artifacts", "ft_training_jobs", "ft_dataset_rows",
      "ft_dataset_versions", "ft_datasets", "datasets">>

DROP_ORDER ==
    <<"model_registry", "ft_model_artifacts", "ft_training_jobs", "ft_dataset_rows",
      "ft_dataset_versions", "ft_datasets">>

R20260607_0016_Down_Datasets ==
    <<CreateTable("ft_datasets", {"id", "name", "task_type", "schema_type",
          "description", "current_version_id", "created_at", "updated_at"}, {}),
      CreateTable("ft_dataset_versions", {"id", "dataset_id", "version_label", "status",
          "row_count", "train_split_ratio", "val_split_ratio", "test_split_ratio",
          "created_at", "updated_at"}, {"ft_datasets"}),
      CreateTable("ft_dataset_rows", {"id", "dataset_version_id", "split", "input_json",
          "target_json", "metadata_json", "validation_status", "validation_error",
          "created_at", "updated_at"}, {"ft_dataset_versions"})>>

R20260607_0016_Down_Training ==
    <<CreateTable("ft_training_jobs", {"id", "dataset_version_id", "base_model_name",
          "training_method", "hyperparams_json", "status", "backing_job_id",
          "trainer_backend", "train_rows", "val_rows", "test_rows",
          "format_summary_json", "metrics_json", "evaluation_json", "error_json",
          "output_dir", "log_text", "created_at", "updated_at", "started_at",
          "finished_at"}, {"ft_dataset_versions", "jobs"}),
      CreateTable("ft_model_artifacts", {"id", "training_job_id", "artifact_type",
          "local_path", "metadata_json", "created_at", "updated_at"},
          {"ft_training_jobs"}),
      CreateTable("model_registry", {"id", "display_name", "source_type",
          "base_model_name", "serving_model_name", "published_model_name",
          "artifact_id", "status", "publish_status", "tags_json", "lineage_json",
          "description", "created_at", "updated_at"}, {"ft_model_artifacts"})>>

\* Mutant: the index that revision 20260523_0014 renamed is not recreated.
IndexesWithoutRegistry ==
    <<CreateIndexes("ft_datasets", {"task_type", "created_at"}),
      CreateIndexes("ft_dataset_versions", {"dataset_id", "status", "created_at"}),
      CreateIndexes("ft_dataset_rows", {"dataset_version_id", "split",
          "validation_status"}),
      CreateIndexes("ft_training_jobs", {"dataset_version_id", "status", "created_at"}),
      CreateIndexes("ft_model_artifacts", {"training_job_id", "artifact_type"}),
      CreateIndexes("model_registry", {"status", "source_type"})>>

R20260607_0016_Down_Indexes ==
    <<CreateIndexes("ft_datasets", {"task_type", "created_at"}),
      CreateIndexes("ft_dataset_versions", {"dataset_id", "status", "created_at"}),
      CreateIndexes("ft_dataset_rows", {"dataset_version_id", "split",
          "validation_status"}),
      CreateIndexes("ft_training_jobs", {"dataset_version_id", "status", "created_at"}),
      CreateIndexes("ft_model_artifacts", {"training_job_id", "artifact_type"}),
      CreateIndexes("model_registry", {"status", "source_type", "serving_model_name"})>>

(* The downgrade creates the fine-tuning tables again, empty. *)
R20260607_0016 ==
    [id |-> "20260607_0016",
     up |-> [i \in DOMAIN DROP_ORDER |-> IfPresent(DropTable(DROP_ORDER[i]))],
     down |-> R20260607_0016_Down_Datasets \o R20260607_0016_Down_Training \o
              R20260607_0016_Down_Indexes]

R20260607_0017_Graph ==
    <<CreateTable("rag_chunks", {"id", "collection_id", "document_id", "ordinal",
          "text", "token_count", "embedding_json", "embedding_model", "created_at"},
          {"rag_collections", "rag_documents"}),
      CreateIndexes("rag_chunks", {"collection_id", "document_id"}),
      CreateTable("rag_entities", {"id", "collection_id", "name", "normalized_name",
          "type", "description", "embedding_json", "degree", "community_id",
          "created_at"}, {"rag_collections"}),
      CreateIndexes("rag_entities", {"collection_id", "normalized_name",
          "community_id"}),
      CreateTable("rag_relationships", {"id", "collection_id", "source_entity_id",
          "target_entity_id", "description", "weight", "created_at"},
          {"rag_collections", "rag_entities"}),
      CreateIndexes("rag_relationships", {"collection_id", "source_entity_id",
          "target_entity_id"}),
      CreateTable("rag_entity_chunks", {"id", "entity_id", "chunk_id"}, {"rag_chunks",
          "rag_entities"}),
      CreateIndexes("rag_entity_chunks", {"entity_id", "chunk_id"})>>

\* Mutant: the entities are dropped before the relationships that refer to them.
DownEntitiesFirst ==
    <<DropTable("rag_query_traces"), DropTable("rag_community_members"),
      DropTable("rag_communities"), DropTable("rag_entity_chunks"),
      DropTable("rag_entities"), DropTable("rag_chunks"),
      DropTable("rag_relationships")>>

R20260607_0017_Down ==
    <<DropTable("rag_query_traces"), DropTable("rag_community_members"),
      DropTable("rag_communities"), DropTable("rag_entity_chunks"),
      DropTable("rag_relationships"), DropTable("rag_entities"),
      DropTable("rag_chunks")>>

R20260607_0017 ==
    [id |-> "20260607_0017",
     up |-> R20260607_0017_Graph \o
            <<CreateTable("rag_communities", {"id", "collection_id", "level", "title",
                  "summary", "summary_embedding_json", "member_count", "created_at"},
                  {"rag_collections"}),
              CreateIndexes("rag_communities", {"collection_id"}),
              CreateTable("rag_community_members", {"id", "community_id", "entity_id"},
                  {"rag_communities", "rag_entities"}),
              CreateIndexes("rag_community_members", {"community_id", "entity_id"}),
              CreateTable("rag_query_traces", {"id", "collection_id", "query", "mode",
                  "embedding_model", "results_json", "created_at"}, {"rag_collections"}),
              CreateIndexes("rag_query_traces", {"collection_id"})>>,
     down |-> R20260607_0017_Down]

R20260607_0018 ==
    [id |-> "20260607_0018",
     up |-> <<CreateTable("evaluation_sets", {"id", "collection_id", "name",
                  "description", "status", "question_count", "created_at",
                  "updated_at"}, {"rag_collections"}),
              CreateIndexes("evaluation_sets", {"collection_id"}),
              CreateTable("evaluation_questions", {"id", "evaluation_set_id",
                  "question", "answer", "status", "source_chunk_id", "source_entity_id",
                  "created_at", "updated_at"}, {"evaluation_sets", "rag_chunks"}),
              CreateIndexes("evaluation_questions", {"set_id", "status"})>>,
     down |-> <<DropTable("evaluation_questions"),
                DropTable("evaluation_sets")>>]

R20260607_0019 ==
    [id |-> "20260607_0019",
     up |-> <<CreateTable("evaluation_runs", {"id", "evaluation_set_id",
                  "collection_id", "mode", "status", "question_count", "report_json",
                  "error", "created_at", "finished_at"}, {"evaluation_sets",
                  "rag_collections"}),
              CreateIndexes("evaluation_runs", {"set_id", "status"}),
              CreateTable("evaluation_results", {"id", "run_id", "question_id",
                  "question", "generated_answer", "retrieved_chunk_ids_json",
                  "retrieved_entity_ids_json", "groundedness", "source_coverage",
                  "hallucination", "notes", "created_at"}, {"evaluation_runs"}),
              CreateIndexes("evaluation_results", {"run_id"})>>,
     down |-> <<DropTable("evaluation_results"),
                DropTable("evaluation_runs")>>]

R20260609_0020 ==
    [id |-> "20260609_0020",
     up |-> <<AddColumns("jobs", {"cancel_requested_at"})>>,
     down |-> <<DropColumns("jobs", {"cancel_requested_at"})>>]

(* The chain: revision n is Chain[n]; 0 is the empty database. *)
Chain ==
    <<R20260227_0001, R20260227_0002, R20260302_0003, R20260308_0004, R20260411_0005,
      R20260412_0006, R20260412_0007, R20260412_0008, R20260415_0009,
      R20260415_0010, R20260417_0010, R20260417_0011, R20260523_0012,
      R20260523_0013, R20260523_0014, Rb4aadc4ac8f6, R20260525_0015, R20260607_0016,
      R20260607_0017, R20260607_0018, R20260607_0019, R20260609_0020>>
=============================================================================
