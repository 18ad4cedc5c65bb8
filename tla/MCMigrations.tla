---------------------------- MODULE MCMigrations ----------------------------
(* One row of each kind the revisions treat differently.                   *)
EXTENDS Migrations

MCKnownRows ==
    {<<"jobs", "row">>, <<"datasets", "row">>, <<"plc_test_suites", "bare">>,
     <<"plc_test_suites", "cases">>, <<"plc_testcases", "row">>, <<"plc_test_runs", "row">>,
     <<"ft_training_jobs", "sft_lora">>, <<"rag_collections", "row">>,
     <<"rag_documents", "row">>}
=============================================================================
