--------------------------------- MODULE Wire ---------------------------------
(***************************************************************************)
(* The JSON bodies of src/src/types.rs, by the fields they carry: what serde *)
(* sends of a value and what it demands of a reply, and the release of the  *)
(* SDK that brought a field (CHANGELOG.md), as servers older than it do not *)
(* know the field.  Values are left out: what a body is understood as, and  *)
(* what a partial update touches, depends on which fields are there.        *)
(***************************************************************************)
EXTENDS Naturals

\* required: no serde(default), so always sent and demanded of a reply.  optional: sent
\* only when set (skip_serializing_if).  defaulted: always sent, not demanded of a reply.
Struct(required, optional, defaulted) ==
  [kind |-> "struct", required |-> required, optional |-> optional,
   fields |-> required \cup optional \cup defaulted, added |-> {}]

\* Some of the fields came with a later release.
AddedIn(release, fields, s) ==
  [s EXCEPT !.added = @ \cup {[release |-> release, fields |-> fields]}]

\* A body with others nested in it; their fields count as its own.
With(s, inner) ==
  [s EXCEPT !.required = @ \cup inner.required, !.optional = @ \cup inner.optional,
            !.fields = @ \cup inner.fields, !.added = @ \cup inner.added]

Bodyless(kind) ==
  [kind |-> kind, required |-> {}, optional |-> {}, fields |-> {}, added |-> {}]

NoBody == Bodyless("nothing")   \* Option::<&()>::None
EmptyObject == Bodyless("{}")   \* json!({})
Value == Bodyless("value")      \* serde_json::Value, as a reply
Unit == Bodyless("unit")        \* the reply of request_empty: not read

\* Mutant: the optional fields go out as null when they are not set.
EncodeNulls(s, populated) == s.fields

\* Mutant: skip_serializing in the place of skip_serializing_if.
EncodeSkips(s, populated) == s.fields \ s.optional

\* The fields of the JSON that a request with these fields set is sent as.
Encode(s, populated) == (s.fields \ s.optional) \cup (s.fields \cap populated)

\* The fields a server of that release knows.
Known(s, release) == s.fields \ UNION {a.fields : a \in {x \in s.added : x.release > release}}

\* from_slice::<T>; an empty body is read as null, which only Value takes.
Decodes(s, empty, keys) ==
  CASE s.kind = "unit" -> TRUE
    [] s.kind = "value" -> TRUE
    [] OTHER -> ~empty /\ s.required \subseteq keys
-----------------------------------------------------------------------------
(* Probes. *)

Health == Struct({"status"}, {}, {})
Ready == Struct({"status"}, {"reason"}, {})
VersionInfo == Struct({"sdk_version"}, {"server_version"}, {})
-----------------------------------------------------------------------------
(* Tenants. *)

Tenant ==
  Struct({"id", "name"}, {"created_at", "updated_at", "index_count", "metadata"}, {})

CreateTenantRequest == Struct({"name"}, {"id"}, {})
ListTenantsResponse == With(Struct({}, {}, {"tenants", "total"}), Tenant)
-----------------------------------------------------------------------------
(* Indexes. *)

\* Mutant: a newer field has no serde(default).
IndexStrict ==
  AddedIn(3, {"compression", "approximate"},
    Struct({"id", "tenant_id", "name", "status", "compression"},
           {"description", "created_at", "updated_at", "path", "created_by", "metadata",
            "approximate"},
           {"num_docs", "num_chunks", "dimension"}))

Index ==
  AddedIn(3, {"compression", "approximate"},
    Struct({"id", "tenant_id", "name", "status"},
           {"description", "created_at", "updated_at", "path", "created_by", "metadata",
            "compression", "approximate"},
           {"num_docs", "num_chunks", "dimension"}))

IndexStatus == Struct({"index_id", "status"}, {"error"}, {})

CreateIndexRequest ==
  AddedIn(3, {"compression", "approximate"},
    Struct({"name"}, {"id", "description", "compression", "approximate"}, {}))

UpdateIndexRequest ==
  AddedIn(3, {"compression", "approximate"},
    Struct({}, {"name", "description", "compression", "approximate"}, {}))

LiveIndexStats ==
  Struct({"index_id"}, {"num_chunks", "num_docs"},
         {"is_live", "base_chunks", "delta_chunks", "total_chunks", "deleted_chunks",
          "live_chunks", "documents", "dimension", "is_dirty"})

ListIndexesResponse == With(Struct({}, {}, {"indexes", "total"}), Index)
FlushResponse == Struct({}, {}, {"flushed"})
RebuildGraphResponse == Struct({}, {}, {"rebuilt", "chunks", "wall_ms"})
-----------------------------------------------------------------------------
(* Documents and chunks. *)

Document ==
  AddedIn(7, {"vector"},
    Struct({"text"},
           {"id", "metadata", "upsert", "expires_at", "repo_id", "file_path", "commit_sha",
            "vector"}, {}))

\* Mutant: a flag without skip_serializing_if.
AddDocumentsAlwaysBulk ==
  With(AddedIn(7, {"defer_save", "bulk"}, Struct({"documents"}, {"defer_save"}, {"bulk"})),
       Document)

AddDocumentsRequest ==
  With(AddedIn(7, {"defer_save", "bulk"}, Struct({"documents"}, {"defer_save", "bulk"}, {})),
       Document)

AddDocumentsResponse ==
  AddedIn(7, {"external_ids"},
    Struct({}, {"external_ids"}, {"added", "index_id", "chunk_ids"}))

ImportDocumentsRequest == With(Struct({"documents"}, {}, {}), Document)

ImportDocumentsResponse ==
  Struct({}, {"message"}, {"index_id", "imported", "document_ids", "pending_total", "status"})

PendingStatus == Struct({}, {}, {"index_id", "pending_count"})
BulkDeleteDocumentsRequest == Struct({"document_ids"}, {}, {})

BulkDeleteResponse ==
  Struct({}, {"deleted_per_doc", "deleted_per_id"},
         {"index_id", "documents_deleted", "chunks_deleted"})

BulkDeleteByExternalIdsRequest == Struct({"external_ids"}, {}, {})

CleanupOrphansResponse ==
  AddedIn(5, {"min_age", "dry_run"},
    Struct({}, {}, {"removed", "freed_bytes", "min_age", "dry_run"}))

GCResponse == Struct({}, {"index_id"}, {"deleted_count"})
DocumentEntry == Struct({"id"}, {"metadata"}, {"text"})
ListDocumentsPage == With(Struct({}, {"next_cursor"}, {"documents"}), DocumentEntry)
DeleteDocumentResponse == Struct({}, {}, {"index_id", "document_id", "deleted_chunks"})

Chunk ==
  Struct({}, {}, {"chunk_id", "text", "document_id", "chunk_index", "start", "end"})

DeleteChunksRequest == Struct({}, {}, {"chunk_ids"})
DeleteChunksResponse == Struct({}, {}, {"index_id", "deleted"})
-----------------------------------------------------------------------------
(* Search. *)

\* An empty filter is skipped, as each of its clauses is.
SearchFilter ==
  AddedIn(3, {"equals"},
    Struct({}, {"repo_ids", "exclude_external_ids", "metadata_filter", "equals"}, {}))

SearchRequest ==
  With(AddedIn(7, {"ef_search"}, AddedIn(6, {"rerank", "candidate_k", "rerank_k"},
         Struct({}, {"query", "vector", "filter", "rerank", "candidate_k", "rerank_k",
                     "ef_search"}, {"k"}))),
       SearchFilter)

SearchResult ==
  AddedIn(6, {"rerank_score"}, Struct({}, {"rerank_score", "metadata"}, {"id", "text", "score"}))

SearchResponse ==
  With(AddedIn(7, {"partial", "shards_total", "shards_ok", "degraded_shards"},
         Struct({}, {"partial", "shards_total", "shards_ok", "degraded_shards"},
                {"results", "total"})),
       SearchResult)

MultiSearchRequest ==
  AddedIn(8, {"distance_threshold"},
    Struct({"query"},
           {"sources", "ef_search", "include_text", "start_time", "end_time",
            "distance_threshold"}, {"k"}))

MultiSearchResult ==
  Struct({}, {"repo_id", "metadata"},
         {"chunk_id", "text", "distance", "source_type", "created_at", "shared"})

MultiSearchResponse ==
  With(Struct({}, {}, {"results", "total", "query", "org_id", "user_id"}), MultiSearchResult)
-----------------------------------------------------------------------------
(* Jobs. *)

SwitchEmbeddingModelRequest ==
  Struct({"embedding_backend", "model", "dimension"}, {"endpoint_override", "api_key"}, {})

SwitchEmbeddingModelResponse == Struct({"job_id", "status"}, {}, {})
JobStatus == {"queued", "running", "completed", "failed"}
JobProgress == Struct({}, {}, {"chunks_done", "chunks_total"})

Job ==
  With(Struct({"job_id", "kind", "tenant_id", "index_id", "status", "created_at"},
              {"started_at", "completed_at", "error"}, {"progress"}),
       JobProgress)

ListJobsResponse == With(Struct({}, {"next_cursor"}, {"jobs", "total"}), Job)
-----------------------------------------------------------------------------
(* Cluster. *)

ClusterNode == Struct({}, {"zone"}, {"id", "addr", "state", "last_seen"})
ClusterShard == Struct({}, {"zone_placement"}, {"id", "primary", "replicas"})
ClusterNodesResponse == With(Struct({}, {}, {"nodes", "leader"}), ClusterNode)
ClusterShardsResponse == With(Struct({}, {}, {"shards", "rf"}), ClusterShard)

ClusterHealth ==
  Struct({}, {}, {"status", "cluster_size", "alive_nodes", "raft_has_leader",
                  "under_replicated_shards"})
-----------------------------------------------------------------------------
(* Resources, settings, API keys, organisations. *)

UpsertResourceRequest == Struct({"text"}, {"metadata"}, {})

UpsertResourceResponse ==
  Struct({}, {}, {"resource_id", "chunks_added", "chunks_tombstoned", "operation"})

LlmSettings ==
  Struct({}, {"api_key", "base_url", "temperature", "max_tokens"}, {"provider", "model"})

ApiKey == Struct({}, {"user_id", "name", "created_at", "last_used_at"}, {"id"})
CreateApiKeyResponse == Struct({}, {"name", "user_id", "plaintext", "created_at"}, {"id"})
CreateApiKeyRequest == Struct({}, {}, {"user_id", "name"})
ListApiKeysResponse == With(Struct({}, {}, {"api_keys"}), ApiKey)

ListUserIndexesResponse ==
  With(Struct({}, {}, {"indexes", "total", "org_id", "user_id"}), Index)

ListSharedIndexesResponse == With(Struct({}, {}, {"indexes", "total", "org_id"}), Index)
SyncDocument == Struct({"text"}, {"resource_id", "metadata"}, {})

SyncDocumentsRequest ==
  With(Struct({"user_id", "source_type", "documents"}, {}, {"shared"}), SyncDocument)

SyncDocumentsResponse ==
  Struct({}, {}, {"synced", "org_id", "user_id", "source_type", "index_type"})
=============================================================================
