------------------------------ MODULE Endpoints ------------------------------
(***************************************************************************)
(* The methods of Client, one request each: the verb, whose resource the    *)
(* path names, the rest of the path, the bodies sent and expected, and what *)
(* the server does, to what kind of resource.  That last part is external:  *)
(* the server is described by the comments of src/src on its endpoints.     *)
(***************************************************************************)
EXTENDS Wire, Sequences

\* scope: "own", the tenant of the client; "tenant" or "org", one named by the caller;
\* "server", none.  effect:
\*   "read"    changes nothing
\*   "create"  a new resource; with an id, the one of that id, unless it exists
\*   "ingest"  a new document; with an id and `upsert`, `vector` or a shared resource,
\*             the document of that id anew
\*   "replace" the resource anew, whether or not it exists
\*   "merge"   the fields present in the body
\*   "remove"  an existing resource; NotFound without one
\*   "sweep"   whatever is there: deletes by id, garbage collection, processing, resets
\*   "start"   a job that excludes others of its kind: Conflict while one runs
\*   "exclude" work that must not meet such a job
\* In a path, index_id and its like stand for the arguments of those names.
Op(verb, scope, path, body, reply, effect, place) ==
  [verb |-> verb, scope |-> scope, path |-> path, body |-> body, reply |-> reply,
   effect |-> effect, place |-> place]

\* The path below v1/tenants/{tenant}, and below its index.
Own(verb, path, body, reply, effect, place) ==
  Op(verb, "own", path, body, reply, effect, place)
InIndex(verb, path, body, reply, effect, place) ==
  Own(verb, <<"indexes", "index_id">> \o path, body, reply, effect, place)

ProbeMethods ==
  [health |-> Op("GET", "server", <<"health">>, NoBody, Health, "read", "server"),
   ready |-> Op("GET", "server", <<"ready">>, NoBody, Ready, "read", "server"),
   version |-> Op("GET", "server", <<"version">>, NoBody, Value, "read", "server")]

TenantMethods ==
  [list_tenants |->
     Op("GET", "server", <<"v1", "tenants">>, NoBody, ListTenantsResponse, "read", "tenant"),
   create_tenant |->
     Op("POST", "server", <<"v1", "tenants">>, CreateTenantRequest, Tenant, "create", "tenant"),
   get_tenant |-> Op("GET", "tenant", <<>>, NoBody, Tenant, "read", "tenant"),
   delete_tenant |-> Op("DELETE", "tenant", <<>>, NoBody, Unit, "remove", "tenant")]

IndexMethods ==
  [list_indexes |-> Own("GET", <<"indexes">>, NoBody, ListIndexesResponse, "read", "index"),
   list_indexes_in_tenant |->
     Op("GET", "tenant", <<"indexes">>, NoBody, ListIndexesResponse, "read", "index"),
   create_index |-> Own("POST", <<"indexes">>, CreateIndexRequest, Index, "create", "index"),
   get_index |-> InIndex("GET", <<>>, NoBody, Index, "read", "index"),
   delete_index |-> InIndex("DELETE", <<>>, NoBody, Unit, "remove", "index"),
   update_index |-> InIndex("PATCH", <<>>, UpdateIndexRequest, Index, "merge", "index"),
   get_index_status |-> InIndex("GET", <<"status">>, NoBody, IndexStatus, "read", "index"),
   get_live_stats |-> InIndex("GET", <<"live-stats">>, NoBody, LiveIndexStats, "read", "index"),
   clear_index |-> InIndex("POST", <<"clear">>, EmptyObject, Value, "sweep", "document"),
   compact_index |-> InIndex("POST", <<"compact">>, EmptyObject, Value, "start", "graph"),
   flush_index |-> InIndex("POST", <<"flush">>, EmptyObject, FlushResponse, "sweep", "delta"),
   rebuild_graph |->
     InIndex("POST", <<"rebuild-graph">>, EmptyObject, RebuildGraphResponse, "exclude", "graph"),
   upsert_resource |->
     InIndex("PUT", <<"resources", "resource_id">>, UpsertResourceRequest,
             UpsertResourceResponse, "replace", "resource")]

IngestMethods ==
  [add_documents |->
     InIndex("POST", <<"documents">>, AddDocumentsRequest, AddDocumentsResponse, "ingest",
             "document"),
   import_documents |->
     InIndex("POST", <<"import">>, ImportDocumentsRequest, ImportDocumentsResponse, "ingest",
             "pending"),
   get_pending_status |-> InIndex("GET", <<"pending">>, NoBody, PendingStatus, "read", "pending"),
   process_pending |-> InIndex("POST", <<"process">>, EmptyObject, Value, "sweep", "pending"),
   clear_pending |-> InIndex("DELETE", <<"pending">>, NoBody, Value, "sweep", "pending")]

DocumentMethods ==
  [get_document |-> InIndex("GET", <<"documents", "doc_id">>, NoBody, Value, "read", "document"),
   delete_document |->
     InIndex("DELETE", <<"documents", "doc_id">>, NoBody, DeleteDocumentResponse, "sweep",
             "document"),
   bulk_delete_documents |->
     InIndex("DELETE", <<"documents">>, BulkDeleteDocumentsRequest, BulkDeleteResponse, "sweep",
             "document"),
   bulk_delete_by_external_ids |->
     InIndex("DELETE", <<"documents", "by-external-id">>, BulkDeleteByExternalIdsRequest,
             BulkDeleteResponse, "sweep", "document"),
   get_chunk |-> InIndex("GET", <<"chunks", "chunk_id">>, NoBody, Chunk, "read", "chunk"),
   \* The path names no chunk: the server reads the ids from the body.
   delete_chunks |->
     InIndex("DELETE", <<"chunks", "0">>, DeleteChunksRequest, DeleteChunksResponse, "sweep",
             "chunk")]

\* One page each; PageStream has the stream.
ListingMethods ==
  [list_documents |->
     InIndex("GET", <<"documents">>, NoBody, ListDocumentsPage, "read", "document"),
   list_documents_with_prefix |->
     InIndex("GET", <<"documents">>, NoBody, ListDocumentsPage, "read", "document")]

MaintenanceMethods ==
  [cleanup_orphans |->
     Op("POST", "server", <<"v1", "admin", "cleanup-orphans">>, EmptyObject,
        CleanupOrphansResponse, "sweep", "artifact"),
   run_index_gc |-> InIndex("POST", <<"gc">>, EmptyObject, GCResponse, "sweep", "document"),
   run_admin_gc |->
     Op("POST", "server", <<"v1", "admin", "gc">>, EmptyObject, GCResponse, "sweep",
        "expired")]

JobMethods ==
  [switch_embedding_model |->
     InIndex("PATCH", <<"embedding-model">>, SwitchEmbeddingModelRequest,
             SwitchEmbeddingModelResponse, "create", "job"),
   get_job |-> Op("GET", "server", <<"v1", "jobs", "job_id">>, NoBody, Job, "read", "job"),
   list_jobs |-> Op("GET", "server", <<"v1", "jobs">>, NoBody, ListJobsResponse, "read", "job"),
   list_tenant_jobs |-> Op("GET", "tenant", <<"jobs">>, NoBody, ListJobsResponse, "read", "job")]

OrgMethods ==
  [sync_documents |->
     Op("POST", "org", <<"documents">>, SyncDocumentsRequest, SyncDocumentsResponse, "ingest",
        "document"),
   list_user_indexes |->
     Op("GET", "org", <<"users", "user_id", "indexes">>, NoBody, ListUserIndexesResponse, "read",
        "index"),
   list_shared_indexes |->
     Op("GET", "org", <<"shared", "indexes">>, NoBody, ListSharedIndexesResponse, "read",
        "index")]

SettingsMethods ==
  [get_llm_settings |->
     Op("GET", "org", <<"llm-settings">>, NoBody, LlmSettings, "read", "settings"),
   update_llm_settings |->
     Op("PATCH", "org", <<"llm-settings">>, LlmSettings, LlmSettings, "merge", "settings"),
   delete_llm_settings |->
     Op("DELETE", "org", <<"llm-settings">>, NoBody, LlmSettings, "sweep", "settings")]

ApiKeyMethods ==
  [create_api_key |->
     Own("POST", <<"api-keys">>, CreateApiKeyRequest, CreateApiKeyResponse, "create", "key"),
   list_api_keys |-> Own("GET", <<"api-keys">>, NoBody, ListApiKeysResponse, "read", "key"),
   revoke_api_key |-> Own("DELETE", <<"api-keys", "key_id">>, NoBody, Unit, "remove", "key")]

ClusterMethods ==
  [get_cluster_nodes |->
     Op("GET", "server", <<"v1", "cluster", "nodes">>, NoBody, ClusterNodesResponse, "read",
        "server"),
   get_cluster_shards |->
     Op("GET", "server", <<"v1", "cluster", "shards">>, NoBody, ClusterShardsResponse, "read",
        "server"),
   get_cluster_health |->
     Op("GET", "server", <<"v1", "cluster", "health">>, NoBody, ClusterHealth, "read", "server")]

\* search without the cache and the coalescer, which CachedSearch has.
SearchMethods ==
  [search |-> InIndex("POST", <<"search">>, SearchRequest, SearchResponse, "read", "document"),
   multi_search |->
     Op("POST", "org", <<"users", "user_id", "search">>, MultiSearchRequest, MultiSearchResponse,
        "read", "document")]

Tables ==
  {ProbeMethods, TenantMethods, IndexMethods, IngestMethods, DocumentMethods, ListingMethods,
   MaintenanceMethods, JobMethods, OrgMethods, SettingsMethods, ApiKeyMethods, ClusterMethods,
   SearchMethods}

Methods == UNION {DOMAIN table : table \in Tables}

\* The one entry a method has in the tables.
Ops == [m \in Methods |-> (CHOOSE table \in Tables : m \in DOMAIN table)[m]]
=============================================================================
