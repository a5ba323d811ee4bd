----------------------------- MODULE MCStartup ------------------------------
(* The script of the code, cut down to some of its tables. *)
EXTENDS Startup, SchemaScript, TLC

CONSTANTS p1, p2

Kept == {None, "canonical_job_features", "subscriber_saved_jobs"}
KeptMigrations == {None, "job_corpus_expansion", "saved_jobs_api_reference", "matching_engine_v3",
                   "query_performance_indexes"}
Cut(script) == SelectSeq(script, LAMBDA s :
  /\ s.table \in Kept /\ s.of \in KeptMigrations
  /\ s.kind = "column" => s.columns \cap {<<"canonical_job_features", "domain_signals_json">>,
       <<"subscriber_saved_jobs", "api_job_id">>, <<"canonical_job_features", "responsibility_scope">>} # {})
MCScript == Cut(initialize_database)

(* An empty file; the tables of an older release, with and without the       *)
(* registry; a file that has drifted from what is recorded.                  *)
OldTables == {<<s.table>> : s \in {s \in ToSet(MCScript) : s.kind = "table"}}
FileOf(objs, ids, unset) == [objects |-> objs, recorded |-> ids, bare |-> unset]
MCFiles ==
  {FileOf({}, {}, FALSE), FileOf(OldTables, {}, FALSE),
   FileOf(OldTables \cup {<<"subscriber_saved_jobs", "api_job_id">>}, {"job_corpus_expansion"}, TRUE),
   FileOf(OldTables, KeptMigrations \ {None}, FALSE)}
=============================================================================
