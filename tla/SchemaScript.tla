---------------------------- MODULE SchemaScript ----------------------------
(***************************************************************************)
(* The statements an opening of the database executes (db/sqlite.py,       *)
(* db/employer_schema.py, db/performance.py): the tables, the columns that *)
(* were added to them later, and the migrations in order of registration.  *)
(* Columns no migration adds and the several indexes of a table are left   *)
(* out: nothing can be missing of them once the table is there.            *)
(***************************************************************************)
EXTENDS SequencesExt, FiniteSetsExt

None == "none"

Statement(kind, t, cs) ==
  [kind |-> kind, table |-> t, columns |-> cs, of |-> None, always |-> TRUE]

Ensure(t, names) == [i \in DOMAIN names |-> Statement("column", t, {<<t, names[i]>>})]
IndexOn(t) == Statement("index", t, {<<t>>})

(* CREATE TABLE: the columns migrations add were put into the tables, too,   *)
(* but for canonical_job_features, where only its first ones are.            *)
Create(tables, added) == FlattenSeq([i \in DOMAIN tables |->
  << Statement("table", tables[i], {c \in added : c[1] = tables[i] /\ c[1] # "canonical_job_features"}),
     IndexOn(tables[i]) >>])

---------------------------------------------------------------------------
(* The columns that were added. *)

SubscriberAuth == Ensure("subscribers", <<"password_hash", "password_updated_at">>)

ProfileAssets ==
  Ensure("subscriber_profiles",
         <<"avatar_asset_id", "avatar_storage_path", "avatar_content_type", "avatar_url">>)
  \o Ensure("subscriber_cv_parse_runs",
            <<"apply_status", "applied_change_count", "applied_at", "metadata_json">>)
  \o Ensure("subscriber_cv_apply_audits", <<"metadata_json">>)

RetrievalColumns ==
  Ensure("retrieval_sources", <<"last_ingested_at", "error_message">>)
  \o Ensure("retrieval_documents", <<"checksum", "status">>)

CopilotAi ==
  Ensure("subscriber_ai_copilot_conversations", <<"locale", "status", "last_message_at">>)
  \o Ensure("subscriber_ai_copilot_messages", <<"metadata_json">>)
  \o Ensure("career_knowledge_documents", <<"trust_level", "freshness_label", "metadata_json">>)
  \o Ensure("subscriber_ai_learned_memories", <<"confidence", "times_reinforced", "last_observed_at">>)

(* The ids are set and their index is made in one transaction. *)
SavedJobsApiReference ==
  LET id == <<"subscriber_saved_jobs", "api_job_id">>
  IN Append(Ensure(id[1], <<id[2]>>), Statement("backfill", id[1], {id}))

MatchingEngineV2 == Ensure("subscriber_profile_features", <<"seniority_level">>)

MatchingEngineV3 ==
  Ensure("canonical_job_features", <<"required_skill_terms_json", "preferred_skill_terms_json",
                                     "domain_signals_json", "responsibility_scope">>)
  \o Ensure("subscriber_profile_features", <<"domain_signals_json">>)

MatchingEngineV4 ==
  Ensure("canonical_job_features",
         <<"external_requirement_terms_json", "external_technology_terms_json",
           "external_responsibility_terms_json", "external_context_status",
           "external_context_updated_at">>)

MatchingEngineV5 ==
  Ensure("subscriber_profile_features",
         <<"experience_evidence_terms_json", "responsibility_scope", "ownership_signals_json",
           "impact_signals_json">>)

Added == UNION {s.columns : s \in ToSet(SubscriberAuth \o ProfileAssets \o RetrievalColumns
  \o CopilotAi \o SavedJobsApiReference \o MatchingEngineV2 \o MatchingEngineV3
  \o MatchingEngineV4 \o MatchingEngineV5)}
Tables(names) == Create(names, Added)

---------------------------------------------------------------------------
(* The tables, in the order of SCHEMA_STATEMENTS. *)

CrawlTables == Tables(<<"crawl_runs", "jobs">>)
CorpusTables == Tables(<<"job_sources", "job_source_records", "canonical_jobs", "canonical_job_links",
                         "canonical_job_features">>)
MatchingTables == Tables(<<"subscriber_profile_features">>)
InteractionTables == Tables(<<"subscriber_job_interactions", "subscriber_job_interaction_events">>)
SubscriberTables == Tables(<<"subscribers", "subscriber_magic_links", "subscriber_signup_verifications",
                             "subscriber_password_reset_tokens">>)
NotificationTables == Tables(<<"notification_checkpoints", "notification_runs",
                               "subscriber_keyword_preferences">>)
ProfileTables == Tables(<<"subscriber_profiles", "subscriber_education_entries",
                          "subscriber_experience_entries", "subscriber_language_entries",
                          "subscriber_language_certificates", "subscriber_certification_entries",
                          "subscriber_skill_details">>)
CvTables == Tables(<<"subscriber_ai_audit_logs", "subscriber_cv_uploads", "subscriber_cv_parse_runs",
                     "subscriber_cv_apply_audits">>)
RetrievalTables == Tables(<<"retrieval_sources", "retrieval_documents", "retrieval_chunks",
                            "retrieval_embeddings", "retrieval_embedding_jobs">>)
CopilotTables == Tables(<<"subscriber_ai_copilot_conversations", "subscriber_ai_copilot_messages",
                          "career_knowledge_documents", "subscriber_ai_learned_memories",
                          "job_external_context_snapshots">>)
SavedJobTables == Tables(<<"subscriber_saved_jobs", "subscriber_saved_job_notes", "subscriber_sessions",
                           "subscriber_login_history">>)
SecurityTables == Tables(<<"subscriber_email_change_requests", "subscriber_totp_secrets",
                           "subscriber_account_deletions">>)

SCHEMA_STATEMENTS ==
  CrawlTables \o CorpusTables \o MatchingTables \o InteractionTables \o SubscriberTables
  \o NotificationTables \o ProfileTables \o CvTables \o RetrievalTables \o CopilotTables
  \o SavedJobTables \o SecurityTables

WorkspaceTables == Tables(<<"employer_companies", "employer_users", "employer_roles",
                            "employer_team_members", "employer_jobs">>)
TalentTables == Tables(<<"employer_candidates", "employer_candidate_job_matches",
                         "employer_pipeline_stages", "employer_candidate_stage_history",
                         "employer_candidate_notes", "employer_candidate_tags">>)
OutreachTables == Tables(<<"employer_outreach_campaigns", "employer_outreach_messages",
                           "employer_send_queue_items", "employer_audit_events">>)
EMPLOYER_SCHEMA_STATEMENTS == WorkspaceTables \o TalentTables \o OutreachTables

(* Some tables are created by a handler, too. *)
RetrievalQueue == Tables(<<"retrieval_embedding_jobs">>)
JobCorpusExpansion == CorpusTables
MatchingEngineV1 == MatchingTables
JobInteractionMemory == InteractionTables
JobExternalContext == Tables(<<"job_external_context_snapshots">>)
GoogleTables == Tables(<<"subscriber_oauth_providers", "subscriber_oauth_states">>)
CertificationTables == Tables(<<"subscriber_certification_entries">>)
PreferenceTables == Tables(<<"subscriber_notification_preferences">>)

(* Indexes on tables of everywhere else. *)
QUERY_PERFORMANCE_INDEX_STATEMENTS ==
  LET on == <<"jobs", "subscriber_saved_jobs", "subscriber_saved_job_notes", "subscriber_sessions",
              "subscriber_login_history", "retrieval_embedding_jobs", "job_external_context_snapshots",
              "employer_jobs", "employer_candidates", "employer_candidate_job_matches",
              "employer_outreach_campaigns", "employer_send_queue_items">>
  IN [i \in DOMAIN on |-> IndexOn(on[i])]

---------------------------------------------------------------------------
(* A handler, and the row that records it when it is through; the migrations *)
(* there are all run always.                                                 *)
Migration(id, handler) ==
  [i \in DOMAIN handler |-> [handler[i] EXCEPT !.of = id]]
  \o << [Statement("record", None, {}) EXCEPT !.of = id] >>

SQLITE_MIGRATIONS ==
  Migration("subscriber_auth", SubscriberAuth)
  \o Migration("profile_assets", ProfileAssets)
  \o Migration("retrieval", RetrievalColumns \o RetrievalQueue)
  \o Migration("copilot_ai", CopilotAi)
  \o Migration("job_corpus_expansion", JobCorpusExpansion)
  \o Migration("matching_engine_v1", MatchingEngineV1)
  \o Migration("job_interaction_memory", JobInteractionMemory)
  \o Migration("saved_jobs_api_reference", SavedJobsApiReference)
  \o Migration("job_external_context", JobExternalContext)
  \o Migration("google_oauth", GoogleTables)
  \o Migration("matching_engine_v2", MatchingEngineV2)
  \o Migration("matching_engine_v3", MatchingEngineV3)
  \o Migration("matching_engine_v4", MatchingEngineV4)
  \o Migration("matching_engine_v5", MatchingEngineV5)
  \o Migration("profile_certifications", CertificationTables)
  \o Migration("query_performance_indexes", QUERY_PERFORMANCE_INDEX_STATEMENTS)
  \o Migration("user_notification_preferences", PreferenceTables)

initialize_database ==
  SCHEMA_STATEMENTS \o EMPLOYER_SCHEMA_STATEMENTS
  \o << Statement("registry", None, {}) >> \o SQLITE_MIGRATIONS
=============================================================================
