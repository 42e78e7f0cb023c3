------------------------------ MODULE ApiProofs ------------------------------
(***************************************************************************)
(* Proofs about Api, for every set of calls, plans, clients and servers and *)
(* every retry budget.                                                      *)
(***************************************************************************)
EXTENDS Api, DurationsProofs, FiniteSetTheorems, TLAPS

Statuses == {"Ok", "Server", "RateLimit", "BadRequest", "NotFound", "Conflict"}
Replies == [status : Statuses, wrote : BOOLEAN, saw : Calls \cup {None}]
Outcomes == [kind : Kinds, saw : Calls \cup {None}, wrote : BOOLEAN]

-----------------------------------------------------------------------------
(* The inductive invariant *)

Chosen == \E s \in Scenarios : client = s.client /\ plan = s.plan

Typed ==
  /\ transit \in [Calls -> SUBSET Transmissions]
  /\ executed \in [Calls -> SUBSET Transmissions]
  /\ reply \in [Calls -> Replies \cup {None}]
  /\ outcome \in [Calls -> Outcomes \cup {None}]
  /\ last \in [Places -> [found : BOOLEAN, by : Calls \cup {None}]]
  /\ writer = [p \in Places |-> writer[p]]

\* Only a call that has a plan and every tenant it needs sends anything.
Begun ==
  \A c \in Calls :
    /\ pc[c] = "idle" => sent[c] = 0
    /\ pc[c] # "idle" => plan[c] # None
    /\ sent[c] = 0 => reports[c] = 0
    /\ sent[c] > 0 => pc[c] # "idle" /\ ~MissesTenant(client, plan[c])
    /\ pc[c] = "await" => sent[c] > 0 /\ reports[c] < sent[c]
    /\ outcome[c] # None /\ outcome[c].wrote => sent[c] > 0

\* No transmission is executed twice.
Once == \A c \in Calls : transit[c] \cap executed[c] = {}

\* An earlier transmission that may have been executed, or may still be, was reported.
EarlierReported ==
  \A c \in Calls : \A i \in transit[c] \cup executed[c] : i # sent[c] => reports[c] > 0

\* A success was executed; what the server refused was not.
RepliesHonest ==
  \A c \in Calls :
    reply[c] # None =>
      /\ reply[c].status = "Ok" => executed[c] # {}
      /\ reply[c].status = "RateLimit" => sent[c] \notin executed[c]

\* Who made a resource what it is was executed.
MakersExecuted ==
  \A p \in Places : last[p].by \in Calls => executed[last[p].by] # {}

\* A call that meets its own doing has reported a fault.
OwnDoingReported ==
  \A c \in Calls :
    \/ reply[c] # None /\ reply[c].saw = c
    \/ outcome[c] # None /\ outcome[c].saw = c
    => reports[c] > 0

\* The transmissions that were executed or may be are one and the reported ones; one less
\* once the last was refused.
Counted ==
  \A c \in Calls :
    /\ minted[c] \in Nat /\ minted[c] <= Cardinality(executed[c])
    /\ plan[c] # None /\ ~Mints(c) => minted[c] = 0
    /\ Cardinality(transit[c] \cup executed[c]) <= 1 + reports[c]
    /\ reply[c] # None /\ reply[c].status = "RateLimit" =>
         Cardinality(transit[c] \cup executed[c]) <= reports[c]

\* A call that is over and may still be executed was in trouble; the fault of a version(),
\* which changes nothing, is not told.
LateTroubled ==
  \A c \in Calls :
    Over(c) /\ transit[c] # {} => Troubled(c) \/ plan[c].method = "version"

EndedOver == \A c \in Calls : c \notin ended[c] /\ \A d \in ended[c] : Over(d)

\* AcknowledgedWritesStand, from the reply on.
WritesStand ==
  \A c \in Calls :
    /\ \/ reply[c] # None /\ reply[c].wrote
       \/ outcome[c] # None /\ outcome[c].wrote
    /\ ~Mints(c)
    => (last[place(c)].by \in ended[c] => Troubled(last[place(c)].by))

\* The premise of PartialUpdatesStand: c and all other calls update the same, and c those
\* fields, which are sent only when they are set.
Updates(c) ==
  /\ plan[c] # None /\ op(c).effect = "merge"
  /\ \A d \in Calls \ {c} :
       plan[d] # None =>
         plan[d].method = plan[c].method /\ plan[c].populated \cap plan[d].populated = {}
Sets(c) == plan[c].populated \cap op(c).body.optional

\* PartialUpdatesStand, from the reply on.
FieldsStand ==
  \A c \in Calls :
    /\ Updates(c)
    /\ \/ reply[c] # None /\ reply[c].status = "Ok"
       \/ Succeeded(c)
    => \A f \in Sets(c) : writer[place(c)][f] = c

IInv ==
  /\ TypeOK
  /\ Chosen
  /\ Typed
  /\ Begun
  /\ Once
  /\ EarlierReported
  /\ RepliesHonest
  /\ MakersExecuted
  /\ OwnDoingReported
  /\ Counted
  /\ LateTroubled
  /\ EndedOver
  /\ WritesStand
  /\ FieldsStand

-----------------------------------------------------------------------------
(* The methods *)

\* The names in the tables of methods.
LEMMA TableNames ==
  /\ DOMAIN ProbeMethods = {"health", "ready", "version"}
  /\ DOMAIN TenantMethods = {"list_tenants", "create_tenant", "get_tenant", "delete_tenant"}
  /\ DOMAIN IndexMethods =
       {"list_indexes", "list_indexes_in_tenant", "create_index", "get_index", "delete_index",
        "update_index", "get_index_status", "get_live_stats", "clear_index", "compact_index",
        "flush_index", "rebuild_graph", "upsert_resource"}
  /\ DOMAIN IngestMethods =
       {"add_documents", "import_documents", "get_pending_status", "process_pending",
        "clear_pending"}
  /\ DOMAIN DocumentMethods =
       {"get_document", "delete_document", "bulk_delete_documents",
        "bulk_delete_by_external_ids", "get_chunk", "delete_chunks"}
  /\ DOMAIN ListingMethods = {"list_documents", "list_documents_with_prefix"}
  /\ DOMAIN MaintenanceMethods = {"cleanup_orphans", "run_index_gc", "run_admin_gc"}
  /\ DOMAIN JobMethods = {"switch_embedding_model", "get_job", "list_jobs", "list_tenant_jobs"}
  /\ DOMAIN OrgMethods = {"sync_documents", "list_user_indexes", "list_shared_indexes"}
  /\ DOMAIN SettingsMethods = {"get_llm_settings", "update_llm_settings", "delete_llm_settings"}
  /\ DOMAIN ApiKeyMethods = {"create_api_key", "list_api_keys", "revoke_api_key"}
  /\ DOMAIN ClusterMethods = {"get_cluster_nodes", "get_cluster_shards", "get_cluster_health"}
  /\ DOMAIN SearchMethods = {"search", "multi_search"}
  BY DEF ProbeMethods, TenantMethods, IndexMethods, IngestMethods, DocumentMethods,
         ListingMethods, MaintenanceMethods, JobMethods, OrgMethods, SettingsMethods,
         ApiKeyMethods, ClusterMethods, SearchMethods

\* A method has the entry of the one table it is in.
LEMMA EntryOf ==
  ASSUME NEW table \in Tables, NEW method \in DOMAIN table,
         \A other \in Tables : method \in DOMAIN other => other = table
  PROVE  Ops[method] = table[method]
  <1>1. method \in Methods
    BY DEF Methods
  <1>2. (CHOOSE t \in Tables : method \in DOMAIN t) = table
    OBVIOUS
  <1> QED BY <1>1, <1>2 DEF Ops

\* The entries of the methods that the proofs tell apart.
LEMMA Entries ==
  /\ Ops["version"] = ProbeMethods.version
  /\ Ops["cleanup_orphans"] = MaintenanceMethods.cleanup_orphans
  <1>1. /\ \A t \in Tables : "version" \in DOMAIN t => t = ProbeMethods
        /\ \A t \in Tables : "cleanup_orphans" \in DOMAIN t => t = MaintenanceMethods
    BY TableNames DEF Tables
  <1>2. {ProbeMethods, MaintenanceMethods} \subseteq Tables
    BY DEF Tables
  <1>3. /\ "version" \in DOMAIN ProbeMethods
        /\ "cleanup_orphans" \in DOMAIN MaintenanceMethods
    BY TableNames
  <1> QED BY <1>1, <1>2, <1>3, EntryOf

-----------------------------------------------------------------------------
(* The bodies *)

Parts == {"kind", "required", "optional", "fields", "added"}

\* The parts of a body written with Struct, AddedIn and With.
LEMMA StructParts ==
  ASSUME NEW required, NEW optional, NEW defaulted
  PROVE  LET s == Struct(required, optional, defaulted)
         IN  /\ DOMAIN s = Parts /\ s.kind = "struct" /\ s.required = required
             /\ s.optional = optional /\ s.fields = required \cup optional \cup defaulted
             /\ s.added = {}
  BY DEF Struct, Parts

\* AddedIn only notes the release.
LEMMA AddedInParts ==
  ASSUME NEW since, NEW fields, NEW s, DOMAIN s = Parts
  PROVE  LET t == AddedIn(since, fields, s)
         IN  /\ DOMAIN t = Parts /\ t.kind = s.kind /\ t.required = s.required
             /\ t.optional = s.optional /\ t.fields = s.fields
             /\ t.added = s.added \cup {[release |-> since, fields |-> fields]}
  BY DEF AddedIn, Parts

\* With unites the parts.
LEMMA WithParts ==
  ASSUME NEW s, NEW inner, DOMAIN s = Parts
  PROVE  LET t == With(s, inner)
         IN  /\ DOMAIN t = Parts /\ t.kind = s.kind
             /\ t.required = s.required \cup inner.required
             /\ t.optional = s.optional \cup inner.optional
             /\ t.fields = s.fields \cup inner.fields
             /\ t.added = s.added \cup inner.added
  BY DEF With, Parts

\* What came later is sent only when it is set.
Sendable(s) == \A a \in s.added : a.fields \cap (s.fields \ s.optional) = {}

\* Neither what came later nor what is optional is demanded of a reply.
Decodable(s) ==
  \/ s.kind \in {"unit", "value"}
  \/ /\ s.kind = "struct" /\ s.required \subseteq s.fields \ s.optional
     /\ \A a \in s.added : a.fields \cap s.required = {}

\* The bodies that are sent, and those that are expected.
Sent ==
  {NoBody, EmptyObject, CreateTenantRequest, CreateIndexRequest, UpdateIndexRequest,
   UpsertResourceRequest, AddDocumentsRequest, ImportDocumentsRequest,
   BulkDeleteDocumentsRequest, BulkDeleteByExternalIdsRequest, DeleteChunksRequest,
   SwitchEmbeddingModelRequest, SyncDocumentsRequest, LlmSettings, CreateApiKeyRequest,
   SearchRequest, MultiSearchRequest}

Expected ==
  {Unit, Value, Health, Ready, Tenant, ListTenantsResponse, Index, IndexStatus,
   ListIndexesResponse, LiveIndexStats, FlushResponse, RebuildGraphResponse,
   UpsertResourceResponse, AddDocumentsResponse, ImportDocumentsResponse, PendingStatus,
   DeleteDocumentResponse, BulkDeleteResponse, Chunk, DeleteChunksResponse,
   ListDocumentsPage, CleanupOrphansResponse, GCResponse, SwitchEmbeddingModelResponse, Job,
   ListJobsResponse, SyncDocumentsResponse, ListUserIndexesResponse,
   ListSharedIndexesResponse, LlmSettings, CreateApiKeyResponse, ListApiKeysResponse,
   ClusterNodesResponse, ClusterShardsResponse, ClusterHealth, SearchResponse,
   MultiSearchResponse}

\* Every body the methods send leaves out what is newer, unless it is set (types.rs).
LEMMA SentAreSendable == \A s \in Sent : Sendable(s)
  <1>1. Sendable(NoBody) /\ Sendable(EmptyObject)
    BY DEF Sendable, NoBody, EmptyObject, Bodyless
  <1>2. Sendable(CreateTenantRequest) /\ Sendable(UpsertResourceRequest)
    BY StructParts DEF Sendable, CreateTenantRequest, UpsertResourceRequest
  <1>3. Sendable(CreateIndexRequest)
    BY StructParts, AddedInParts DEF Sendable, CreateIndexRequest
  <1>4. Sendable(UpdateIndexRequest)
    BY StructParts, AddedInParts DEF Sendable, UpdateIndexRequest
  <1>5. Sendable(AddDocumentsRequest)
    BY StructParts, AddedInParts, WithParts DEF Sendable, AddDocumentsRequest, Document
  <1>6. Sendable(ImportDocumentsRequest)
    BY StructParts, AddedInParts, WithParts DEF Sendable, ImportDocumentsRequest, Document
  <1>7. Sendable(BulkDeleteDocumentsRequest) /\ Sendable(BulkDeleteByExternalIdsRequest)
    BY StructParts
    DEF Sendable, BulkDeleteDocumentsRequest, BulkDeleteByExternalIdsRequest
  <1>8. Sendable(DeleteChunksRequest) /\ Sendable(SwitchEmbeddingModelRequest)
    BY StructParts DEF Sendable, DeleteChunksRequest, SwitchEmbeddingModelRequest
  <1>9. Sendable(SyncDocumentsRequest)
    BY StructParts, WithParts DEF Sendable, SyncDocumentsRequest, SyncDocument
  <1>10. Sendable(LlmSettings) /\ Sendable(CreateApiKeyRequest)
    BY StructParts DEF Sendable, LlmSettings, CreateApiKeyRequest
  <1>11. Sendable(SearchRequest)
    BY StructParts, AddedInParts, WithParts DEF Sendable, SearchRequest, SearchFilter
  <1>12. Sendable(MultiSearchRequest)
    BY StructParts, AddedInParts DEF Sendable, MultiSearchRequest
  <1> QED BY <1>1, <1>2, <1>3, <1>4, <1>5, <1>6, <1>7, <1>8, <1>9, <1>10, <1>11, <1>12 DEF Sent

\* Every reply the methods expect does without what is newer (types.rs).
LEMMA ExpectedAreDecodable == \A s \in Expected : Decodable(s)
  <1>1. Decodable(Unit) /\ Decodable(Value)
    BY DEF Decodable, Unit, Value, Bodyless
  <1>2. Decodable(Health) /\ Decodable(Ready) /\ Decodable(Tenant)
    BY StructParts DEF Decodable, Health, Ready, Tenant
  <1>3. Decodable(ListTenantsResponse)
    BY StructParts, WithParts DEF Decodable, ListTenantsResponse, Tenant
  <1>4. Decodable(Index)
    BY StructParts, AddedInParts DEF Decodable, Index
  <1>5. Decodable(ListIndexesResponse)
    BY StructParts, AddedInParts, WithParts DEF Decodable, ListIndexesResponse, Index
  <1>6. Decodable(ListUserIndexesResponse)
    BY StructParts, AddedInParts, WithParts DEF Decodable, ListUserIndexesResponse, Index
  <1>7. Decodable(ListSharedIndexesResponse)
    BY StructParts, AddedInParts, WithParts DEF Decodable, ListSharedIndexesResponse, Index
  <1>8. Decodable(IndexStatus) /\ Decodable(LiveIndexStats) /\ Decodable(FlushResponse)
    BY StructParts DEF Decodable, IndexStatus, LiveIndexStats, FlushResponse
  <1>9. Decodable(RebuildGraphResponse) /\ Decodable(UpsertResourceResponse)
    BY StructParts DEF Decodable, RebuildGraphResponse, UpsertResourceResponse
  <1>10. Decodable(AddDocumentsResponse)
    BY StructParts, AddedInParts DEF Decodable, AddDocumentsResponse
  <1>11. Decodable(ImportDocumentsResponse) /\ Decodable(PendingStatus)
    BY StructParts DEF Decodable, ImportDocumentsResponse, PendingStatus
  <1>12. Decodable(DeleteDocumentResponse) /\ Decodable(BulkDeleteResponse)
    BY StructParts DEF Decodable, DeleteDocumentResponse, BulkDeleteResponse
  <1>13. Decodable(Chunk) /\ Decodable(DeleteChunksResponse)
    BY StructParts DEF Decodable, Chunk, DeleteChunksResponse
  <1>14. Decodable(ListDocumentsPage)
    BY StructParts, WithParts DEF Decodable, ListDocumentsPage, DocumentEntry
  <1>15. Decodable(CleanupOrphansResponse)
    BY StructParts, AddedInParts DEF Decodable, CleanupOrphansResponse
  <1>16. Decodable(GCResponse) /\ Decodable(SwitchEmbeddingModelResponse)
    BY StructParts DEF Decodable, GCResponse, SwitchEmbeddingModelResponse
  <1>17. Decodable(Job)
    BY StructParts, WithParts DEF Decodable, Job, JobProgress
  <1>18. Decodable(ListJobsResponse)
    BY StructParts, WithParts DEF Decodable, ListJobsResponse, Job, JobProgress
  <1>19. Decodable(SyncDocumentsResponse) /\ Decodable(LlmSettings)
    BY StructParts DEF Decodable, SyncDocumentsResponse, LlmSettings
  <1>20. Decodable(CreateApiKeyResponse)
    BY StructParts DEF Decodable, CreateApiKeyResponse
  <1>21. Decodable(ListApiKeysResponse)
    BY StructParts, WithParts DEF Decodable, ListApiKeysResponse, ApiKey
  <1>22. Decodable(ClusterNodesResponse)
    BY StructParts, WithParts DEF Decodable, ClusterNodesResponse, ClusterNode
  <1>23. Decodable(ClusterShardsResponse)
    BY StructParts, WithParts DEF Decodable, ClusterShardsResponse, ClusterShard
  <1>24. Decodable(ClusterHealth)
    BY StructParts DEF Decodable, ClusterHealth
  <1>25. Decodable(SearchResponse)
    BY StructParts, AddedInParts, WithParts DEF Decodable, SearchResponse, SearchResult
  <1>26. Decodable(MultiSearchResponse)
    BY StructParts, WithParts DEF Decodable, MultiSearchResponse, MultiSearchResult
  <1> QED BY <1>1, <1>2, <1>3, <1>4, <1>5, <1>6, <1>7, <1>8, <1>9, <1>10, <1>11, <1>12,
             <1>13, <1>14, <1>15, <1>16, <1>17, <1>18, <1>19, <1>20, <1>21, <1>22, <1>23,
             <1>24, <1>25, <1>26
          DEF Expected

\* A method that changes something says so with its verb, and what merges is an index or the
\* settings.
Fits(o) ==
  /\ o.verb \in {"GET", "POST", "PUT", "PATCH", "DELETE"}
  /\ o.body \in Sent /\ o.reply \in Expected
  /\ o.effect = "merge" =>
       \/ o.place = "index" /\ o.body = UpdateIndexRequest
       \/ o.place = "settings" /\ o.body = LlmSettings

\* The bodies that are sent, by name.
LEMMA SentMembers ==
  /\ NoBody \in Sent /\ EmptyObject \in Sent /\ CreateTenantRequest \in Sent
  /\ CreateIndexRequest \in Sent /\ UpdateIndexRequest \in Sent /\ UpsertResourceRequest \in Sent
  /\ AddDocumentsRequest \in Sent /\ ImportDocumentsRequest \in Sent
  /\ BulkDeleteDocumentsRequest \in Sent /\ BulkDeleteByExternalIdsRequest \in Sent
  /\ DeleteChunksRequest \in Sent /\ SwitchEmbeddingModelRequest \in Sent
  /\ SyncDocumentsRequest \in Sent /\ LlmSettings \in Sent /\ CreateApiKeyRequest \in Sent
  /\ SearchRequest \in Sent /\ MultiSearchRequest \in Sent
  BY DEF Sent

\* The replies that are expected, by name.
LEMMA ExpectedMembers ==
  /\ Unit \in Expected /\ Value \in Expected /\ Health \in Expected /\ Ready \in Expected
  /\ Tenant \in Expected /\ ListTenantsResponse \in Expected /\ Index \in Expected
  /\ IndexStatus \in Expected /\ ListIndexesResponse \in Expected /\ LiveIndexStats \in Expected
  /\ FlushResponse \in Expected /\ RebuildGraphResponse \in Expected
  /\ UpsertResourceResponse \in Expected /\ AddDocumentsResponse \in Expected
  /\ ImportDocumentsResponse \in Expected /\ PendingStatus \in Expected
  /\ DeleteDocumentResponse \in Expected /\ BulkDeleteResponse \in Expected /\ Chunk \in Expected
  /\ DeleteChunksResponse \in Expected /\ ListDocumentsPage \in Expected
  /\ CleanupOrphansResponse \in Expected /\ GCResponse \in Expected
  /\ SwitchEmbeddingModelResponse \in Expected /\ Job \in Expected
  /\ ListJobsResponse \in Expected /\ SyncDocumentsResponse \in Expected
  /\ ListUserIndexesResponse \in Expected /\ ListSharedIndexesResponse \in Expected
  /\ LlmSettings \in Expected /\ CreateApiKeyResponse \in Expected
  /\ ListApiKeysResponse \in Expected /\ ClusterNodesResponse \in Expected
  /\ ClusterShardsResponse \in Expected /\ ClusterHealth \in Expected
  /\ SearchResponse \in Expected /\ MultiSearchResponse \in Expected
  BY DEF Expected

\* Every method sends one of the bodies, expects one of the replies, and has a known effect.
LEMMA MethodsFit == \A m \in Methods : Fits(Ops[m])
  <1>1. \A m \in DOMAIN ProbeMethods : Fits(ProbeMethods[m])
    BY SentMembers, ExpectedMembers DEF Fits, Op, Own, InIndex, ProbeMethods
  <1>2. \A m \in DOMAIN TenantMethods : Fits(TenantMethods[m])
    BY SentMembers, ExpectedMembers DEF Fits, Op, Own, InIndex, TenantMethods
  <1>3. \A m \in DOMAIN IndexMethods : Fits(IndexMethods[m])
    BY SentMembers, ExpectedMembers DEF Fits, Op, Own, InIndex, IndexMethods
  <1>4. \A m \in DOMAIN IngestMethods : Fits(IngestMethods[m])
    BY SentMembers, ExpectedMembers DEF Fits, Op, Own, InIndex, IngestMethods
  <1>5. \A m \in DOMAIN DocumentMethods : Fits(DocumentMethods[m])
    BY SentMembers, ExpectedMembers DEF Fits, Op, Own, InIndex, DocumentMethods
  <1>6. \A m \in DOMAIN ListingMethods : Fits(ListingMethods[m])
    BY SentMembers, ExpectedMembers DEF Fits, Op, Own, InIndex, ListingMethods
  <1>7. \A m \in DOMAIN MaintenanceMethods : Fits(MaintenanceMethods[m])
    BY SentMembers, ExpectedMembers DEF Fits, Op, Own, InIndex, MaintenanceMethods
  <1>8. \A m \in DOMAIN JobMethods : Fits(JobMethods[m])
    BY SentMembers, ExpectedMembers DEF Fits, Op, Own, InIndex, JobMethods
  <1>9. \A m \in DOMAIN OrgMethods : Fits(OrgMethods[m])
    BY SentMembers, ExpectedMembers DEF Fits, Op, Own, InIndex, OrgMethods
  <1>10. \A m \in DOMAIN SettingsMethods : Fits(SettingsMethods[m])
    BY SentMembers, ExpectedMembers DEF Fits, Op, Own, InIndex, SettingsMethods
  <1>11. \A m \in DOMAIN ApiKeyMethods : Fits(ApiKeyMethods[m])
    BY SentMembers, ExpectedMembers DEF Fits, Op, Own, InIndex, ApiKeyMethods
  <1>12. \A m \in DOMAIN ClusterMethods : Fits(ClusterMethods[m])
    BY SentMembers, ExpectedMembers DEF Fits, Op, Own, InIndex, ClusterMethods
  <1>13. \A m \in DOMAIN SearchMethods : Fits(SearchMethods[m])
    BY SentMembers, ExpectedMembers DEF Fits, Op, Own, InIndex, SearchMethods
  <1>14. \A table \in Tables : \A m \in DOMAIN table : Fits(table[m])
    BY <1>1, <1>2, <1>3, <1>4, <1>5, <1>6, <1>7, <1>8, <1>9, <1>10, <1>11, <1>12, <1>13
    DEF Tables
  <1>15. ASSUME NEW m \in Methods
         PROVE  Fits(Ops[m])
    <2>1. \E table \in Tables : m \in DOMAIN table
      BY DEF Methods
    <2>2. PICK table \in Tables : m \in DOMAIN table /\ Ops[m] = table[m]
      BY <2>1 DEF Ops
    <2> QED BY <1>14, <2>2
  <1> QED BY <1>15

-----------------------------------------------------------------------------
(* What is known of plans and of the sets of transmissions *)

\* Every call asks for what the client's methods can express.
LEMMA PlansWellFormed ==
  ASSUME Chosen, NEW c \in Calls, plan[c] # None
  PROVE  WellFormed(plan[c])
  BY ScenariosAssumption DEF Chosen

\* A client is one of those with_tenant_id and the builder make.
LEMMA ClientFields ==
  ASSUME Chosen
  PROVE  DOMAIN client = {"tenant", "base", "compress"}
         /\ DOMAIN client.base = {"segments", "slash"}
  BY ScenariosAssumption DEF Chosen

\* What depends on the plans alone stays.
Frame ==
  /\ client' = client /\ plan' = plan /\ Places' = Places
  /\ \A c \in Calls :
       /\ place(c)' = place(c) /\ (Mints(c)' <=> Mints(c))
       /\ (Updates(c)' <=> Updates(c)) /\ Sets(c)' = Sets(c)

\* A step that leaves the input alone leaves the plans and places alone.
LEMMA InputKept ==
  ASSUME UNCHANGED input
  PROVE  Frame /\ (Chosen => Chosen')
  <1>1. client' = client /\ plan' = plan
    BY DEF input
  <1>2. \A c \in Calls : place(c)' = place(c)
    BY <1>1 DEF place
  <1>3. Places' = Places
    BY <1>1 DEF Places, place
  <1>4. \A c \in Calls : /\ (Mints(c)' <=> Mints(c)) /\ (Updates(c)' <=> Updates(c))
                         /\ Sets(c)' = Sets(c)
    BY <1>1 DEF Mints, Names, op, keys, Updates, Sets
  <1> QED BY <1>1, <1>2, <1>3, <1>4 DEF Frame, Chosen

\* A call that has a plan is about one of the places.
LEMMA PlacesOfPlans ==
  ASSUME NEW c \in Calls, plan[c] # None
  PROVE  place(c) \in Places
  BY DEF Places

\* The transmissions of a call can be counted.
LEMMA TransmissionsFinite ==
  ASSUME Typed, NEW c \in Calls
  PROVE  /\ IsFiniteSet(executed[c]) /\ IsFiniteSet(transit[c] \cup executed[c])
         /\ Cardinality(executed[c]) \in Nat
         /\ Cardinality(transit[c] \cup executed[c]) \in Nat
         /\ Cardinality(executed[c]) <= Cardinality(transit[c] \cup executed[c])
  <1>1. IsFiniteSet(Transmissions)
    BY RetriesAssumption, FS_Interval DEF Transmissions
  <1>2. executed[c] \subseteq Transmissions /\ transit[c] \cup executed[c] \subseteq Transmissions
    BY DEF Typed
  <1>3. IsFiniteSet(executed[c]) /\ IsFiniteSet(transit[c] \cup executed[c])
    BY <1>1, <1>2, FS_Subset
  <1>4. executed[c] \subseteq transit[c] \cup executed[c]
    OBVIOUS
  <1> QED BY <1>3, <1>4, FS_Subset, FS_CardinalityType

-----------------------------------------------------------------------------
(* The client's steps *)

\* A call ends with a reply or without one.
LEMMA ConcludesPreserves ==
  ASSUME IInv, NEW c \in Calls, NEW kind \in Kinds, NEW r, Concludes(c, kind, r), ~Over(c),
         plan[c] # None, UNCHANGED <<input, executed, reports, ended, store>>,
         r.saw \in Calls \cup {None}, r.wrote \in BOOLEAN, r.saw = c => reports[c] > 0,
         r.wrote => reply[c] # None /\ reply[c].wrote,
         kind = "Ok" => reply[c] # None /\ reply[c].status = "Ok",
         transit[c] # {} => reports[c] > 0 \/ kind = "Network"
  PROVE  IInv'
  <1> DEFINE o == outcome'[c]
  <1>0. Frame /\ Chosen'
    BY InputKept DEF IInv
  <1>1. /\ UNCHANGED <<sent, transit, executed, reports, ended, last, writer, minted, release>>
        /\ pc' = [pc EXCEPT ![c] = "done"] /\ reply' = [reply EXCEPT ![c] = None]
        /\ outcome' = [outcome EXCEPT ![c] =
             [kind |-> IF kind # "Ok" /\ plan[c].method = "version" THEN "Unknown" ELSE kind,
              saw |-> r.saw, wrote |-> r.wrote]]
    BY DEF Concludes, input, store
  <1>2. /\ pc'[c] = "done" /\ \A d \in Calls \ {c} : pc'[d] = pc[d]
        /\ reply'[c] = None /\ \A d \in Calls \ {c} : reply'[d] = reply[d]
        /\ \A d \in Calls \ {c} : outcome'[d] = outcome[d]
        /\ pc[c] \in {"idle", "await"} /\ outcome[c] = None
    BY <1>1 DEF IInv, TypeOK, Typed, Over
  <1>3. o = [kind |-> IF kind # "Ok" /\ plan[c].method = "version" THEN "Unknown" ELSE kind,
             saw |-> r.saw, wrote |-> r.wrote]
    BY <1>1 DEF IInv, Typed
  <1>4. /\ o \in Outcomes /\ o # None /\ o.kind \in Kinds /\ o.saw = r.saw /\ o.wrote = r.wrote
        /\ o.kind = "Ok" => kind = "Ok"
        /\ kind = "Network" => o.kind = "Network" \/ plan[c].method = "version"
    BY <1>3, NoneAssumption DEF Outcomes, Kinds
  <1> HIDE DEF o
  <1>5. \A d \in Calls : Troubled(d) => Troubled(d)'
    BY <1>1, <1>2 DEF Troubled
  <1>6. TypeOK'
    BY <1>0, <1>1, <1>2, <1>4 DEF Frame, IInv, TypeOK, o
  <1>7. Typed'
    BY <1>0, <1>1, <1>4 DEF Frame, IInv, Typed, Transmissions, o
  <1>8. Begun'
    BY <1>0, <1>1, <1>2, <1>4 DEF Frame, IInv, Begun, TypeOK, o
  <1>9. Once' /\ EarlierReported' /\ EndedOver'
    BY <1>1, <1>2 DEF IInv, Once, EarlierReported, EndedOver, Over
  <1>10. RepliesHonest' /\ MakersExecuted'
    BY <1>0, <1>1, <1>2 DEF Frame, IInv, RepliesHonest, MakersExecuted
  <1>11. OwnDoingReported'
    BY <1>1, <1>2, <1>4 DEF IInv, OwnDoingReported, o
  <1>12. Counted'
    BY <1>0, <1>1, <1>2 DEF Frame, IInv, Counted
  <1>13. LateTroubled'
    BY <1>0, <1>1, <1>2, <1>4, <1>5 DEF Frame, IInv, LateTroubled, Over, Troubled, o
  <1>14. WritesStand'
    <2>1. ASSUME NEW d \in Calls, NEW e \in Calls, e = last[place(d)].by, e \in ended[d], ~Mints(d),
                 \/ reply'[d] # None /\ reply'[d].wrote
                 \/ outcome'[d] # None /\ outcome'[d].wrote
          PROVE  Troubled(e)'
      <3>1. \/ reply[d] # None /\ reply[d].wrote
            \/ outcome[d] # None /\ outcome[d].wrote
        BY <1>2, <1>4, <2>1 DEF o
      <3> QED BY <1>5, <2>1, <3>1 DEF IInv, WritesStand
    <2> QED BY <1>0, <1>1, <2>1 DEF Frame, IInv, TypeOK, WritesStand
  <1>15. FieldsStand'
    BY <1>0, <1>1, <1>2, <1>4 DEF Frame, IInv, FieldsStand, Succeeded, o
  <1> QED BY <1>0, <1>6, <1>7, <1>8, <1>9, <1>10, <1>11, <1>12, <1>13, <1>14, <1>15 DEF IInv

\* A call sends its request once more, after a refusal or with a report.
LEMMA ResendPreserves ==
  ASSUME IInv, NEW c \in Calls, pc[c] = "await", Resend(c),
         UNCHANGED <<input, executed, ended, store>>,
         \/ reports' = [reports EXCEPT ![c] = @ + 1]
         \/ reports' = reports /\ reply[c] # None /\ reply[c].status = "RateLimit"
  PROVE  IInv'
  <1> DEFINE next == sent[c] + 1
  <1>0. Frame /\ Chosen'
    BY InputKept DEF IInv
  <1>1. /\ UNCHANGED <<pc, outcome, executed, ended, last, writer, minted>>
        /\ sent[c] <= MaxRetries /\ sent' = [sent EXCEPT ![c] = next]
        /\ transit' = [transit EXCEPT ![c] = transit[c] \cup {next}]
        /\ reply' = [reply EXCEPT ![c] = None]
    BY DEF Resend, store
  <1>2. /\ sent[c] \in Nat /\ next \in Transmissions /\ sent[c] > 0 /\ sent[c] # next
        /\ transit[c] \cup executed[c] \subseteq 1..sent[c] /\ next \notin 1..sent[c]
        /\ reports[c] \in Nat /\ reports[c] < sent[c] /\ plan[c] # None
    BY <1>1, RetriesAssumption DEF IInv, TypeOK, Begun, Transmissions
  <1>3. /\ sent'[c] = next /\ \A d \in Calls \ {c} : sent'[d] = sent[d]
        /\ transit'[c] = transit[c] \cup {next}
        /\ \A d \in Calls \ {c} : transit'[d] = transit[d]
        /\ reply'[c] = None /\ \A d \in Calls \ {c} : reply'[d] = reply[d]
    BY <1>1 DEF IInv, TypeOK, Typed
  <1>4. /\ reports'[c] \in {reports[c], reports[c] + 1}
        /\ \A d \in Calls \ {c} : reports'[d] = reports[d]
        /\ \/ reports'[c] = reports[c] + 1
           \/ reports'[c] = reports[c] /\ reply[c] # None /\ reply[c].status = "RateLimit"
        /\ reports' \in [Calls -> 0..MaxRetries]
    <2>1. reports[c] + 1 \in 0..MaxRetries
      BY <1>1, <1>2, RetriesAssumption
    <2>2. reports \in [Calls -> 0..MaxRetries]
      BY DEF IInv, TypeOK
    <2>3. CASE reports' = [reports EXCEPT ![c] = @ + 1]
      BY <2>1, <2>2, <2>3
    <2>4. CASE reports' = reports /\ reply[c] # None /\ reply[c].status = "RateLimit"
      BY <2>2, <2>4
    <2> QED BY <2>3, <2>4
  <1>5. \A d \in Calls : Troubled(d) => Troubled(d)'
    BY <1>1, <1>2, <1>4 DEF Troubled
  <1> HIDE DEF next
  <1>6. TypeOK'
    <2>1. sent' \in [Calls -> 0..MaxRetries + 1]
      BY <1>1, <1>2, RetriesAssumption DEF IInv, TypeOK, Transmissions
    <2>2. transit'[c] \cup executed[c] \subseteq 1..sent'[c]
      BY <1>2, <1>3 DEF next
    <2> QED BY <1>0, <1>1, <1>3, <1>4, <2>1, <2>2 DEF Frame, IInv, TypeOK
  <1>7. Typed'
    BY <1>0, <1>1, <1>2 DEF Frame, IInv, Typed, Transmissions
  <1>8. Begun'
    BY <1>0, <1>1, <1>2, <1>3, <1>4 DEF Frame, IInv, Begun, next
  <1>9. Once'
    BY <1>1, <1>2, <1>3 DEF IInv, Once
  <1>10. EarlierReported'
    <2> SUFFICES ASSUME NEW d \in Calls, NEW i \in transit'[d] \cup executed[d], i # sent'[d]
                 PROVE  reports'[d] > 0
      BY <1>1 DEF EarlierReported
    <2>1. CASE d # c
      BY <1>3, <1>4, <2>1 DEF IInv, EarlierReported
    <2>2. CASE d = c
      <3>1. i \in transit[c] \cup executed[c]
        BY <1>3, <2>2
      <3>2. CASE reports'[c] = reports[c] + 1
        BY <1>2, <2>2, <3>2
      <3>3. CASE reports'[c] = reports[c] /\ reply[c] # None /\ reply[c].status = "RateLimit"
        <4>1. sent[c] \notin transit[c] \cup executed[c]
          BY <3>3 DEF IInv, TypeOK, RepliesHonest
        <4> QED BY <2>2, <3>1, <3>3, <4>1 DEF IInv, EarlierReported
      <3> QED BY <1>4, <3>2, <3>3
    <2> QED BY <2>1, <2>2
  <1>11. RepliesHonest' /\ MakersExecuted' /\ EndedOver'
    BY <1>0, <1>1, <1>3 DEF Frame, IInv, RepliesHonest, MakersExecuted, EndedOver, Over
  <1>12. OwnDoingReported'
    BY <1>1, <1>2, <1>3, <1>4 DEF IInv, OwnDoingReported
  <1>13. Counted'
    <2> DEFINE S == transit[c] \cup executed[c]
    <2>1. IsFiniteSet(S) /\ Cardinality(S) \in Nat
      BY TransmissionsFinite DEF IInv
    <2>2. transit'[c] \cup executed[c] = S \cup {next}
      BY <1>3
    <2>3. Cardinality(S \cup {next}) = IF next \in S THEN Cardinality(S) ELSE Cardinality(S) + 1
      BY <2>1, FS_AddElement
    <2>4. Cardinality(S) <= 1 + reports[c]
          /\ (reply[c] # None /\ reply[c].status = "RateLimit" => Cardinality(S) <= reports[c])
      BY DEF IInv, Counted
    <2> HIDE DEF S
    <2>5. Cardinality(S \cup {next}) <= 1 + reports'[c]
      BY <1>2, <1>4, <2>1, <2>3, <2>4
    <2>6. Cardinality(transit'[c] \cup executed[c]) <= 1 + reports'[c]
      BY <2>2, <2>5
    <2> QED BY <1>0, <1>1, <1>3, <1>4, <2>6 DEF Frame, IInv, Counted
  <1>14. LateTroubled'
    BY <1>0, <1>1, <1>3, <1>5 DEF Frame, IInv, LateTroubled, Over
  <1>15. WritesStand'
    <2>1. ASSUME NEW d \in Calls, NEW e \in Calls, e = last[place(d)].by, e \in ended[d], ~Mints(d),
                 \/ reply'[d] # None /\ reply'[d].wrote
                 \/ outcome[d] # None /\ outcome[d].wrote
          PROVE  Troubled(e)'
      <3>1. \/ reply[d] # None /\ reply[d].wrote
            \/ outcome[d] # None /\ outcome[d].wrote
        BY <1>3, <2>1
      <3> QED BY <1>5, <2>1, <3>1 DEF IInv, WritesStand
    <2> QED BY <1>0, <1>1, <2>1 DEF Frame, IInv, TypeOK, WritesStand
  <1>16. FieldsStand'
    BY <1>0, <1>1, <1>3 DEF Frame, IInv, FieldsStand, Succeeded
  <1> QED BY <1>0, <1>6, <1>7, <1>8, <1>9, <1>10, <1>11, <1>12, <1>13, <1>14, <1>15, <1>16
          DEF IInv

\* What the end of a call with a reply needs.
LEMMA ReplyFits ==
  ASSUME IInv, NEW c \in Calls, pc[c] = "await", reply[c] # None
  PROVE  /\ reply[c] \in Replies /\ reply[c].saw \in Calls \cup {None}
         /\ reply[c].wrote \in BOOLEAN /\ reply[c].status \in Statuses
         /\ reply[c].saw = c => reports[c] > 0
         /\ transit[c] # {} => reports[c] > 0
         /\ ~Over(c)
  <1>1. reply[c] \in Replies
    BY DEF IInv, Typed
  <1>2. transit[c] # {} => reports[c] > 0
    BY DEF IInv, TypeOK, EarlierReported
  <1> QED BY <1>1, <1>2 DEF Replies, IInv, OwnDoingReported, Over

\* Accept ends a call with a reply the server gave for work it did.
LEMMA AcceptPreserves ==
  ASSUME IInv, NEW c \in Calls, Accept(c)
  PROVE  IInv'
  <1>1. /\ pc[c] = "await" /\ reply[c] # None /\ reply[c].status = "Ok"
        /\ UNCHANGED <<input, executed, reports, ended, store>>
    BY DEF Accept
  <1>2. PICK kind \in {"Ok", "Decode", "DecodeNull"} : Concludes(c, kind, reply[c])
    BY DEF Accept
  <1>3. kind \in Kinds
    BY DEF Kinds
  <1>4. plan[c] # None
    BY <1>1 DEF IInv, Begun
  <1> QED BY <1>1, <1>2, <1>3, <1>4, ReplyFits, ConcludesPreserves

\* Fail sends again after a refusal, or ends the call with an error the server sent.
LEMMA FailPreserves ==
  ASSUME IInv, NEW c \in Calls, Fail(c)
  PROVE  IInv'
  <1>1. /\ pc[c] = "await" /\ reply[c] # None /\ reply[c].status # "Ok"
        /\ UNCHANGED <<input, executed, ended, store>> /\ reports' = reports
    BY DEF Fail
  <1>2. CASE Retryable(reply[c].status) /\ Resend(c)
    BY <1>1, <1>2, ResendPreserves DEF Retryable
  <1>3. CASE Concludes(c, ErrorKind(reply[c].status), reply[c])
    <2>1. ErrorKind(reply[c].status) \in Kinds /\ ErrorKind(reply[c].status) # "Ok"
      BY <1>1, ReplyFits DEF ErrorKind, Statuses, Kinds
    <2>2. plan[c] # None
      BY <1>1 DEF IInv, Begun
    <2> QED BY <1>1, <1>3, <2>1, <2>2, ReplyFits, ConcludesPreserves
  <1> QED BY <1>2, <1>3 DEF Fail

\* Fault reports before it sends again, and ends the call without a reply otherwise.
LEMMA FaultPreserves ==
  ASSUME IInv, NEW c \in Calls, Fault(c)
  PROVE  IInv'
  <1>1. pc[c] = "await" /\ UNCHANGED <<input, executed, ended, store>> /\ ~Over(c)
    BY DEF Fault, Over
  <1>2. CASE Resend(c) /\ reports' = [reports EXCEPT ![c] = @ + 1]
    BY <1>1, <1>2, ResendPreserves
  <1>3. CASE Concludes(c, "Network", NoReply) /\ UNCHANGED reports
    <2>1. /\ NoReply.saw \in Calls \cup {None} /\ NoReply.wrote \in BOOLEAN
          /\ ~NoReply.wrote /\ NoReply.saw # c /\ "Network" \in Kinds
      BY NoneAssumption DEF NoReply, Kinds
    <2>2. plan[c] # None
      BY <1>1 DEF IInv, Begun
    <2> QED BY <1>1, <1>3, <2>1, <2>2, ConcludesPreserves
  <1> QED BY <1>2, <1>3 DEF Fault

\* BodyFails ends a call without a reply.
LEMMA BodyFailsPreserves ==
  ASSUME IInv, NEW c \in Calls, BodyFails(c)
  PROVE  IInv'
  <1>1. /\ NoReply.saw \in Calls \cup {None} /\ NoReply.wrote \in BOOLEAN
        /\ ~NoReply.wrote /\ NoReply.saw # c /\ "Network" \in Kinds
    BY NoneAssumption DEF NoReply, Kinds
  <1>2. pc[c] = "await" /\ UNCHANGED <<input, executed, reports, ended, store>> /\ ~Over(c)
        /\ Concludes(c, "Network", NoReply)
    BY DEF BodyFails, Over
  <1>3. plan[c] # None
    BY <1>2 DEF IInv, Begun
  <1> QED BY <1>1, <1>2, <1>3, ConcludesPreserves

\* A call that misses its tenant ends without having sent anything.
LEMMA BeginWithoutTenantPreserves ==
  ASSUME IInv, NEW c \in Calls, BeginWithoutTenant(c)
  PROVE  IInv'
  <1>1. /\ NoReply.saw \in Calls \cup {None} /\ NoReply.wrote \in BOOLEAN
        /\ ~NoReply.wrote /\ NoReply.saw # c /\ "Builder" \in Kinds
    BY NoneAssumption DEF NoReply, Kinds
  <1>2. pc[c] = "idle" /\ UNCHANGED <<input, executed, reports, ended, store>> /\ ~Over(c)
        /\ Concludes(c, "Builder", NoReply) /\ plan[c] # None
    BY DEF BeginWithoutTenant, Over
  <1>3. transit[c] = {}
    BY <1>2 DEF IInv, TypeOK, Begun
  <1> QED BY <1>1, <1>2, <1>3, ConcludesPreserves

\* A call sends its request.
LEMMA BeginPreserves ==
  ASSUME IInv, NEW c \in Calls, Begin(c)
  PROVE  IInv'
  <1>0. Frame /\ Chosen'
    BY InputKept DEF IInv, Begin
  <1>1. /\ UNCHANGED <<executed, reply, outcome, reports, last, writer, minted>>
        /\ plan[c] # None /\ pc[c] = "idle" /\ ~MissesTenant(client, plan[c])
        /\ pc' = [pc EXCEPT ![c] = "await"] /\ sent' = [sent EXCEPT ![c] = 1]
        /\ transit' = [transit EXCEPT ![c] = {1}]
        /\ ended' = [ended EXCEPT ![c] = {d \in Calls : Over(d)}]
    BY DEF Begin, store
  <1>2. /\ sent[c] = 0 /\ reports[c] = 0 /\ executed[c] = {} /\ reply[c] = None
        /\ outcome[c] = None /\ ~Over(c)
    BY <1>1 DEF IInv, TypeOK, Begun, Over
  <1>3. /\ pc'[c] = "await" /\ \A d \in Calls \ {c} : pc'[d] = pc[d]
        /\ sent'[c] = 1 /\ \A d \in Calls \ {c} : sent'[d] = sent[d]
        /\ transit'[c] = {1} /\ \A d \in Calls \ {c} : transit'[d] = transit[d]
        /\ ended'[c] = {d \in Calls : Over(d)} /\ \A d \in Calls \ {c} : ended'[d] = ended[d]
    BY <1>1 DEF IInv, TypeOK, Typed
  <1>4. \A d \in Calls : Troubled(d) => Troubled(d)'
    BY <1>1, <1>3 DEF Troubled
  <1>5. TypeOK'
    <2>1. 1 \in 0..MaxRetries + 1
      BY RetriesAssumption
    <2>2. sent' \in [Calls -> 0..MaxRetries + 1]
      BY <1>1, <2>1 DEF IInv, TypeOK
    <2>3. transit'[c] \cup executed[c] \subseteq 1..sent'[c]
      BY <1>2, <1>3
    <2> QED BY <1>0, <1>1, <1>2, <1>3, <2>2, <2>3 DEF Frame, IInv, TypeOK
  <1>6. Typed'
    <2>1. {1} \in SUBSET Transmissions
      BY RetriesAssumption DEF Transmissions
    <2> QED BY <1>0, <1>1, <2>1 DEF Frame, IInv, Typed, Transmissions
  <1>7. Begun'
    BY <1>0, <1>1, <1>2, <1>3 DEF Frame, IInv, Begun
  <1>8. Once' /\ EarlierReported' /\ RepliesHonest'
    BY <1>1, <1>2, <1>3 DEF IInv, Once, EarlierReported, RepliesHonest
  <1>9. MakersExecuted' /\ OwnDoingReported'
    BY <1>0, <1>1 DEF Frame, IInv, MakersExecuted, OwnDoingReported
  <1>10. Counted'
    <2>1. transit'[c] \cup executed[c] = {1}
      BY <1>2, <1>3
    <2>2. Cardinality({1}) = 1
      BY FS_Singleton
    <2>3. Cardinality(transit'[c] \cup executed[c]) <= 1 + reports[c]
      BY <1>2, <2>1, <2>2
    <2> QED BY <1>0, <1>1, <1>2, <1>3, <2>3 DEF Frame, IInv, Counted
  <1>11. LateTroubled'
    BY <1>0, <1>1, <1>3, <1>4 DEF Frame, IInv, LateTroubled, Over
  <1>12. EndedOver'
    <2>1. \A d \in Calls : Over(d) => Over(d)'
      BY <1>2, <1>3 DEF Over
    <2>2. \A d \in Calls : ended[d] \subseteq Calls
      BY DEF IInv, TypeOK
    <2> QED BY <1>2, <1>3, <2>1, <2>2 DEF IInv, EndedOver
  <1>13. WritesStand'
    <2>1. ASSUME NEW d \in Calls, NEW e \in Calls, e = last[place(d)].by, e \in ended'[d],
                 ~Mints(d),
                 \/ reply[d] # None /\ reply[d].wrote
                 \/ outcome[d] # None /\ outcome[d].wrote
          PROVE  Troubled(e)'
      <3>1. e \in ended[d]
        BY <1>2, <1>3, <2>1
      <3> QED BY <1>4, <2>1, <3>1 DEF IInv, WritesStand
    <2>2. \A d \in Calls : ended'[d] \subseteq Calls
      BY <1>3 DEF IInv, TypeOK
    <2> QED BY <1>0, <1>1, <2>1, <2>2 DEF Frame, WritesStand
  <1>14. FieldsStand'
    BY <1>0, <1>1 DEF Frame, IInv, FieldsStand, Succeeded
  <1> QED BY <1>0, <1>5, <1>6, <1>7, <1>8, <1>9, <1>10, <1>11, <1>12, <1>13, <1>14 DEF IInv

\* A call's future is dropped.
LEMMA DropPreserves ==
  ASSUME IInv, NEW c \in Calls, Drop(c)
  PROVE  IInv'
  <1>0. Frame /\ Chosen'
    BY InputKept DEF IInv, Drop
  <1>1. /\ UNCHANGED <<sent, transit, executed, outcome, reports, ended, last, writer, minted>>
        /\ pc[c] = "await" /\ pc' = [pc EXCEPT ![c] = "dropped"]
        /\ reply' = [reply EXCEPT ![c] = None]
    BY DEF Drop, store
  <1>2. /\ pc'[c] = "dropped" /\ \A d \in Calls \ {c} : pc'[d] = pc[d]
        /\ reply'[c] = None /\ \A d \in Calls \ {c} : reply'[d] = reply[d]
        /\ outcome[c] = None
    BY <1>1 DEF IInv, TypeOK, Typed
  <1>3. \A d \in Calls : Troubled(d) => Troubled(d)'
    BY <1>1, <1>2 DEF Troubled
  <1>4. TypeOK'
    BY <1>0, <1>1, <1>2 DEF Frame, IInv, TypeOK
  <1>5. Typed'
    BY <1>0, <1>1 DEF Frame, IInv, Typed, Transmissions
  <1>6. Begun' /\ Once' /\ EarlierReported'
    BY <1>0, <1>1, <1>2 DEF Frame, IInv, Begun, Once, EarlierReported
  <1>7. RepliesHonest' /\ MakersExecuted' /\ OwnDoingReported' /\ Counted'
    BY <1>0, <1>1, <1>2
    DEF Frame, IInv, RepliesHonest, MakersExecuted, OwnDoingReported, Counted
  <1>8. LateTroubled' /\ EndedOver'
    BY <1>0, <1>1, <1>2, <1>3 DEF Frame, IInv, LateTroubled, EndedOver, Over, Troubled, TypeOK
  <1>9. WritesStand'
    <2>1. ASSUME NEW d \in Calls, NEW e \in Calls, e = last[place(d)].by, e \in ended[d], ~Mints(d),
                 \/ reply'[d] # None /\ reply'[d].wrote
                 \/ outcome[d] # None /\ outcome[d].wrote
          PROVE  Troubled(e)'
      <3>1. \/ reply[d] # None /\ reply[d].wrote
            \/ outcome[d] # None /\ outcome[d].wrote
        BY <1>2, <2>1
      <3> QED BY <1>3, <2>1, <3>1 DEF IInv, WritesStand
    <2> QED BY <1>0, <1>1, <2>1 DEF Frame, IInv, TypeOK, WritesStand
  <1>10. FieldsStand'
    BY <1>0, <1>1, <1>2 DEF Frame, IInv, FieldsStand, Succeeded
  <1> QED BY <1>0, <1>4, <1>5, <1>6, <1>7, <1>8, <1>9, <1>10 DEF IInv

-----------------------------------------------------------------------------
(* The server's steps *)

\* The server refuses a transmission without working on it.
LEMMA RefusePreserves ==
  ASSUME IInv, NEW c \in Calls, Refuse(c)
  PROVE  IInv'
  <1> DEFINE a == reply'[c]
  <1>0. Frame /\ Chosen'
    BY InputKept DEF IInv, Refuse
  <1>1. /\ UNCHANGED <<pc, sent, outcome, reports, ended, executed, last, writer, minted>>
        /\ pc[c] = "await" /\ sent[c] \in transit[c]
        /\ transit' = [transit EXCEPT ![c] = transit[c] \ {sent[c]}]
    BY DEF Refuse, calls, store
  <1>2. PICK status \in {"RateLimit", "Server", "BadRequest", "NotFound"} :
          reply' = [reply EXCEPT ![c] = [status |-> status, wrote |-> FALSE, saw |-> None]]
    BY DEF Refuse
  <1>3. /\ a = [status |-> status, wrote |-> FALSE, saw |-> None] /\ a \in Replies
        /\ \A d \in Calls \ {c} : reply'[d] = reply[d]
        /\ transit'[c] = transit[c] \ {sent[c]}
        /\ \A d \in Calls \ {c} : transit'[d] = transit[d]
    BY <1>1, <1>2 DEF IInv, Typed, Replies, Statuses
  <1>4. ~a.wrote /\ a.saw = None /\ a.status # "Ok" /\ outcome[c] = None /\ None \notin Calls
    BY <1>1, <1>3, NoneAssumption DEF IInv, TypeOK
  <1> HIDE DEF a
  <1>5. \A d \in Calls : Troubled(d) => Troubled(d)'
    BY <1>1 DEF Troubled
  <1>6. TypeOK'
    BY <1>0, <1>1, <1>3 DEF Frame, IInv, TypeOK
  <1>7. Typed'
    BY <1>0, <1>1, <1>2, <1>3 DEF Frame, IInv, Typed, Transmissions, a
  <1>8. Begun' /\ Once' /\ EarlierReported'
    BY <1>0, <1>1, <1>3 DEF Frame, IInv, Begun, Once, EarlierReported
  <1>9. RepliesHonest'
    BY <1>1, <1>3, <1>4 DEF IInv, RepliesHonest, Once, a
  <1>10. MakersExecuted' /\ EndedOver'
    BY <1>0, <1>1 DEF Frame, IInv, MakersExecuted, EndedOver, Over
  <1>11. OwnDoingReported'
    BY <1>1, <1>3, <1>4 DEF IInv, OwnDoingReported, a
  <1>12. Counted'
    <2> DEFINE S == transit[c] \cup executed[c]
    <2>1. IsFiniteSet(S) /\ Cardinality(S) \in Nat
      BY TransmissionsFinite DEF IInv
    <2>2. transit'[c] \cup executed[c] = S \ {sent[c]} /\ sent[c] \in S
      BY <1>1, <1>3 DEF IInv, Once
    <2>3. Cardinality(S) <= 1 + reports[c] /\ reports[c] \in Nat
      BY DEF IInv, Counted, TypeOK
    <2> HIDE DEF S
    <2>4. Cardinality(S \ {sent[c]}) = Cardinality(S) - 1
      BY <2>1, <2>2, FS_RemoveElement
    <2>5. Cardinality(S \ {sent[c]}) <= reports[c]
          /\ Cardinality(S \ {sent[c]}) <= 1 + reports[c]
      BY <2>1, <2>3, <2>4
    <2>6. Cardinality(transit'[c] \cup executed[c]) <= reports[c]
          /\ Cardinality(transit'[c] \cup executed[c]) <= 1 + reports[c]
      BY <2>2, <2>5
    <2> QED BY <1>0, <1>1, <1>3, <2>6 DEF Frame, IInv, Counted
  <1>13. LateTroubled'
    BY <1>0, <1>1, <1>3, <1>5 DEF Frame, IInv, LateTroubled, Over
  <1>14. WritesStand'
    <2>1. ASSUME NEW d \in Calls, NEW e \in Calls, e = last[place(d)].by, e \in ended[d], ~Mints(d),
                 \/ reply'[d] # None /\ reply'[d].wrote
                 \/ outcome[d] # None /\ outcome[d].wrote
          PROVE  Troubled(e)'
      <3>1. \/ reply[d] # None /\ reply[d].wrote
            \/ outcome[d] # None /\ outcome[d].wrote
        BY <1>3, <1>4, <2>1 DEF a
      <3> QED BY <1>5, <2>1, <3>1 DEF IInv, WritesStand
    <2> QED BY <1>0, <1>1, <2>1 DEF Frame, IInv, TypeOK, WritesStand
  <1>15. FieldsStand'
    BY <1>0, <1>1, <1>3, <1>4 DEF Frame, IInv, FieldsStand, Succeeded, a
  <1> QED BY <1>0, <1>6, <1>7, <1>8, <1>9, <1>10, <1>11, <1>12, <1>13, <1>14, <1>15 DEF IInv

\* A job ends by itself.
LEMMA JobEndsPreserves ==
  ASSUME IInv, NEW p \in DOMAIN last, JobEnds(p)
  PROVE  IInv'
  <1>0. Frame /\ Chosen'
    BY InputKept DEF IInv, JobEnds
  <1>1. /\ UNCHANGED <<pc, sent, outcome, reports, ended, transit, executed, reply, writer, minted>>
        /\ last' = [last EXCEPT ![p] = Held(FALSE, None)]
    BY DEF JobEnds, calls
  <1>2. /\ last' \in [Places -> [found : BOOLEAN, by : Calls \cup {None}]]
        /\ \A q \in Places : last'[q].by = last[q].by \/ last'[q].by = None
    BY <1>1 DEF IInv, Typed, Held
  <1>3. None \notin Calls
    BY NoneAssumption
  <1>4. TypeOK'
    BY <1>0, <1>1, <1>2 DEF Frame, IInv, TypeOK, Typed
  <1>5. Typed'
    BY <1>0, <1>1, <1>2 DEF Frame, IInv, Typed, Transmissions
  <1>6. Begun' /\ Once' /\ EarlierReported' /\ RepliesHonest'
    BY <1>0, <1>1 DEF Frame, IInv, Begun, Once, EarlierReported, RepliesHonest
  <1>7. MakersExecuted'
    BY <1>0, <1>1, <1>2, <1>3 DEF Frame, IInv, MakersExecuted
  <1>8. OwnDoingReported' /\ Counted'
    BY <1>0, <1>1 DEF Frame, IInv, OwnDoingReported, Counted
  <1>9. LateTroubled' /\ EndedOver' /\ FieldsStand'
    BY <1>0, <1>1 DEF Frame, IInv, LateTroubled, EndedOver, FieldsStand, Over, Troubled, Succeeded
  <1>10. WritesStand'
    <2>1. ASSUME NEW d \in Calls, ~Mints(d), last'[place(d)].by \in ended[d],
                 \/ reply[d] # None /\ reply[d].wrote
                 \/ outcome[d] # None /\ outcome[d].wrote
          PROVE  Troubled(last'[place(d)].by)
      <3>1. plan[d] # None
        BY <2>1 DEF IInv, Begun, TypeOK
      <3>2. place(d) \in Places
        BY <3>1, PlacesOfPlans
      <3>3. last'[place(d)].by = last[place(d)].by
        BY <1>2, <1>3, <2>1, <3>2 DEF IInv, TypeOK
      <3> QED BY <2>1, <3>3 DEF IInv, WritesStand
    <2>2. \A e : Troubled(e)' <=> Troubled(e)
      BY <1>1 DEF Troubled
    <2> QED BY <1>0, <1>1, <2>1, <2>2 DEF Frame, WritesStand, Troubled
  <1> QED BY <1>0, <1>4, <1>5, <1>6, <1>7, <1>8, <1>9, <1>10 DEF IInv

\* What working on a request of c may do to the server's resources.
Worked(c, status, wrote) ==
  /\ last' \in [Places -> [found : BOOLEAN, by : Calls \cup {None}]]
  /\ writer' = [p \in Places |-> writer'[p]]
  /\ \A p \in Places : writer'[p] \in [PartsOf(p) -> Calls \cup {None}]
  /\ \A p \in Places : last'[p].by # last[p].by =>
       last'[p].by = c /\ op(c).effect # "read" /\ p[1] = place(c)[1]
  /\ \A p \in Places : \A f \in PartsOf(p) : writer'[p][f] # writer[p][f] =>
       p = place(c) /\ writer'[p][f] = c /\ (op(c).effect = "merge" => f \in keys(c))
  /\ wrote /\ ~Mints(c) => last'[place(c)].by = c
  /\ \/ minted' = minted
     \/ Mints(c) /\ minted' = [minted EXCEPT ![c] = @ + 1]
  /\ op(c).effect = "merge" /\ status = "Ok" /\ ~DryRun(c) =>
       \A f \in keys(c) \cap PartsOf(place(c)) : writer'[place(c)][f] = c

\* Nothing was done.
LEMMA IdleWork ==
  ASSUME IInv, NEW c \in Calls, UNCHANGED store, NEW status, NEW wrote, ~wrote \/ Mints(c),
         op(c).effect # "merge" \/ status # "Ok" \/ DryRun(c)
  PROVE  Worked(c, status, wrote)
  BY DEF IInv, Typed, TypeOK, store, Worked

\* The resource is made, or made anew.
LEMMA HoldsWork ==
  ASSUME IInv, NEW c \in Calls, plan[c] # None, Holds(c), NEW status, NEW wrote,
         op(c).effect \notin {"merge", "read"}
  PROVE  Worked(c, status, wrote)
  <1>1. place(c) \in Places
    BY PlacesOfPlans
  <1>2. last \in [Places -> [found : BOOLEAN, by : Calls \cup {None}]]
        /\ writer = [p \in Places |-> writer[p]]
        /\ (\A p \in Places : writer[p] \in [PartsOf(p) -> Calls \cup {None}])
    BY DEF IInv, Typed, TypeOK
  <1>3. /\ last' = [last EXCEPT ![place(c)] = [found |-> TRUE, by |-> c]]
        /\ writer' = [writer EXCEPT ![place(c)] = [f \in DOMAIN writer[place(c)] |-> c]]
        /\ minted' = minted
    BY DEF Holds, Held
  <1>4. writer' = [p \in Places |-> writer'[p]]
        /\ (\A p \in Places \ {place(c)} : writer'[p] = writer[p])
        /\ writer'[place(c)] = [f \in PartsOf(place(c)) |-> c]
    BY <1>1, <1>2, <1>3
  <1>5. last' \in [Places -> [found : BOOLEAN, by : Calls \cup {None}]]
        /\ (\A p \in Places \ {place(c)} : last'[p] = last[p])
        /\ last'[place(c)].by = c
    BY <1>1, <1>2, <1>3
  <1> QED BY <1>1, <1>2, <1>3, <1>4, <1>5 DEF Worked

\* The resource goes, a tenant with all that is its own.
LEMMA ClearsWork ==
  ASSUME IInv, NEW c \in Calls, plan[c] # None, Clears(c), NEW status, NEW wrote,
         op(c).effect \notin {"merge", "read"}
  PROVE  Worked(c, status, wrote)
  <1>1. place(c) \in Places
    BY PlacesOfPlans
  <1>2. last \in [Places -> [found : BOOLEAN, by : Calls \cup {None}]]
        /\ writer = [p \in Places |-> writer[p]]
        /\ (\A p \in Places : writer[p] \in [PartsOf(p) -> Calls \cup {None}])
    BY DEF IInv, Typed, TypeOK
  <1>3. /\ last' = [p \in Places |->
             IF p = place(c) \/ (place(c)[2] = "tenant" /\ p[1] = place(c)[1])
             THEN [found |-> FALSE, by |-> c] ELSE last[p]]
        /\ writer' = writer /\ minted' = minted
    BY <1>2 DEF Clears, Held
  <1> QED BY <1>1, <1>2, <1>3 DEF Worked

\* A merge makes its caller the last to write the fields it sent, and no others.
LEMMA MergeWork ==
  ASSUME IInv, NEW c \in Calls, plan[c] # None, NEW i, Merge(c, i), NEW status, NEW wrote
  PROVE  Worked(c, status, wrote)
  <1>1. place(c) \in Places
    BY PlacesOfPlans
  <1>2. last \in [Places -> [found : BOOLEAN, by : Calls \cup {None}]]
        /\ writer = [p \in Places |-> writer[p]]
        /\ (\A p \in Places : writer[p] \in [PartsOf(p) -> Calls \cup {None}])
    BY DEF IInv, Typed, TypeOK
  <1>3. /\ last' = [last EXCEPT ![place(c)] = [found |-> TRUE, by |-> c]]
        /\ writer' = [writer EXCEPT ![place(c)] =
             [f \in DOMAIN writer[place(c)] |->
                IF f \in keys(c) THEN c ELSE writer[place(c)][f]]]
        /\ minted' = minted /\ op(c).effect = "merge"
    BY DEF Merge, Held
  <1>4. writer' = [p \in Places |-> writer'[p]]
        /\ (\A p \in Places \ {place(c)} : writer'[p] = writer[p])
        /\ writer'[place(c)] =
             [f \in PartsOf(place(c)) |-> IF f \in keys(c) THEN c ELSE writer[place(c)][f]]
    BY <1>1, <1>2, <1>3
  <1>5. last' \in [Places -> [found : BOOLEAN, by : Calls \cup {None}]]
        /\ (\A p \in Places \ {place(c)} : last'[p] = last[p])
        /\ last'[place(c)].by = c
    BY <1>1, <1>2, <1>3
  <1>6. writer'[place(c)] \in [PartsOf(place(c)) -> Calls \cup {None}]
    BY <1>1, <1>2, <1>4
  <1> QED BY <1>1, <1>2, <1>3, <1>4, <1>5, <1>6 DEF Worked

\* Working on a transmission is one of these.
LEMMA ExecuteWorks ==
  ASSUME IInv, NEW c \in Calls, NEW i \in Transmissions, Execute(c, i)
  PROVE  /\ i \in transit[c] /\ sent[c] > 0 /\ plan[c] # None
         /\ \E status \in Statuses \ {"RateLimit", "BadRequest"}, wrote \in BOOLEAN :
              Executes(c, i, status, wrote) /\ Worked(c, status, wrote)
  <1>1. i \in transit[c]
    BY DEF Execute
  <1>2. sent[c] > 0
    <2>1. i \in 1..sent[c] /\ sent[c] \in Nat
      BY <1>1 DEF IInv, TypeOK
    <2> QED BY <2>1
  <1>3. plan[c] # None
    BY <1>2 DEF IInv, Begun
  <1> DEFINE Done == \E status \in Statuses \ {"RateLimit", "BadRequest"}, wrote \in BOOLEAN :
                       Executes(c, i, status, wrote) /\ Worked(c, status, wrote)
  <1>4. {"Ok", "Server", "NotFound", "Conflict"} \subseteq Statuses \ {"RateLimit", "BadRequest"}
    BY DEF Statuses
  <1>5. ASSUME Read(c, i) PROVE Done
    <2>1. UNCHANGED store /\ (op(c).effect # "merge" \/ DryRun(c))
      BY <1>5 DEF Read
    <2>2. Worked(c, "Ok", FALSE) /\ Worked(c, "NotFound", FALSE)
      BY <2>1, IdleWork
    <2> QED BY <1>4, <1>5, <2>2 DEF Read
  <1>6. ASSUME CreateNamed(c, i) PROVE Done
    <2> DEFINE w == ~last[place(c)].found
    <2>1. w \in BOOLEAN /\ op(c).effect = "create" /\ Confirms(c, i, w)
      BY <1>6 DEF CreateNamed
    <2>2. CASE last[place(c)].found
      <3>1. UNCHANGED store /\ ~w
        BY <1>6, <2>2 DEF CreateNamed
      <3>2. Worked(c, "Ok", w) /\ Worked(c, "Server", w)
        BY <2>1, <3>1, IdleWork
      <3> QED BY <1>4, <2>1, <3>2 DEF Confirms
    <2>3. CASE ~last[place(c)].found
      <3>1. Holds(c)
        BY <1>6, <2>3 DEF CreateNamed
      <3>2. Worked(c, "Ok", w) /\ Worked(c, "Server", w)
        BY <1>3, <2>1, <3>1, HoldsWork
      <3> QED BY <1>4, <2>1, <3>2 DEF Confirms
    <2> QED BY <2>2, <2>3
  <1>7. ASSUME CreateNew(c, i) PROVE Done
    <2>1. /\ Mints(c) /\ Confirms(c, i, TRUE) /\ last' = last /\ writer' = writer
          /\ minted' = [minted EXCEPT ![c] = @ + 1] /\ op(c).effect # "merge"
      BY <1>7 DEF CreateNew, Mints
    <2>2. Worked(c, "Ok", TRUE) /\ Worked(c, "Server", TRUE)
      BY <2>1 DEF Worked, IInv, TypeOK, Typed
    <2> QED BY <1>4, <2>1, <2>2 DEF Confirms
  <1>8. ASSUME Replace(c, i) PROVE Done
    <2>1. Holds(c) /\ Confirms(c, i, TRUE) /\ op(c).effect \notin {"merge", "read"}
      BY <1>8 DEF Replace
    <2>2. Worked(c, "Ok", TRUE) /\ Worked(c, "Server", TRUE)
      BY <1>3, <2>1, HoldsWork
    <2> QED BY <1>4, <2>1, <2>2 DEF Confirms
  <1>9. ASSUME Merge(c, i) PROVE Done
    <2>1. Worked(c, "Ok", TRUE) /\ Worked(c, "Server", TRUE)
      BY <1>3, <1>9, MergeWork
    <2> QED BY <1>4, <1>9, <2>1 DEF Merge, Confirms
  <1>10. ASSUME Clear(c, i) PROVE Done
    <2>1. Clears(c) /\ Confirms(c, i, TRUE) /\ op(c).effect \notin {"merge", "read"}
      BY <1>10 DEF Clear
    <2>2. Worked(c, "Ok", TRUE) /\ Worked(c, "Server", TRUE)
      BY <1>3, <2>1, ClearsWork
    <2> QED BY <1>4, <2>1, <2>2 DEF Confirms
  <1>11. ASSUME Miss(c, i) PROVE Done
    <2> DEFINE s == IF op(c).effect = "sweep" THEN "Ok" ELSE "NotFound"
    <2>1. UNCHANGED store /\ Executes(c, i, s, FALSE)
          /\ (op(c).effect # "merge" \/ s # "Ok") /\ s \in Statuses \ {"RateLimit", "BadRequest"}
      BY <1>4, <1>11 DEF Miss
    <2> HIDE DEF s
    <2>2. Worked(c, s, FALSE)
      BY <2>1, IdleWork
    <2> QED BY <2>1, <2>2
  <1>12. ASSUME Start(c, i) PROVE Done
    <2>1. Holds(c) /\ Confirms(c, i, TRUE) /\ op(c).effect \notin {"merge", "read"}
      BY <1>12 DEF Start
    <2>2. Worked(c, "Ok", TRUE) /\ Worked(c, "Server", TRUE)
      BY <1>3, <2>1, HoldsWork
    <2> QED BY <1>4, <2>1, <2>2 DEF Confirms
  <1>13. ASSUME Exclude(c, i) PROVE Done
    <2>1. UNCHANGED store /\ Confirms(c, i, FALSE) /\ op(c).effect # "merge"
      BY <1>13 DEF Exclude
    <2>2. Worked(c, "Ok", FALSE) /\ Worked(c, "Server", FALSE)
      BY <2>1, IdleWork
    <2> QED BY <1>4, <2>1, <2>2 DEF Confirms
  <1>14. ASSUME Clash(c, i) PROVE Done
    <2>1. UNCHANGED store /\ Executes(c, i, "Conflict", FALSE) /\ op(c).effect # "merge"
      BY <1>14 DEF Clash
    <2>2. Worked(c, "Conflict", FALSE)
      BY <2>1, IdleWork
    <2> QED BY <1>4, <2>1, <2>2
  <1> QED BY <1>1, <1>2, <1>3, <1>5, <1>6, <1>7, <1>8, <1>9, <1>10, <1>11, <1>12, <1>13, <1>14
          DEF Execute

\* What a partial update sends and where: of the fields left out when unset, those it sets.
LEMMA UpdateFacts ==
  ASSUME Chosen, NEW c \in Calls, plan[c] # None, op(c).effect = "merge"
  PROVE  /\ ~DryRun(c) /\ keys(c) \cap op(c).body.optional = Sets(c)
         /\ Sets(c) \subseteq PartsOf(place(c))
  <1>1. /\ plan[c].populated \subseteq op(c).body.fields
        /\ plan[c].op = Ops[plan[c].method] /\ plan[c].method \in Methods
    BY PlansWellFormed DEF WellFormed, op
  <1>2. Fits(op(c))
    BY <1>1, MethodsFit DEF op
  <1>3. keys(c) \cap op(c).body.optional = Sets(c)
    BY <1>1 DEF keys, Encode, Sets
  <1>4. plan[c].method # "cleanup_orphans"
    <2>1. MaintenanceMethods.cleanup_orphans.effect = "sweep"
      BY DEF MaintenanceMethods, Op
    <2> QED BY <2>1, PlansWellFormed, Entries DEF WellFormed, op
  <1>5. Query(plan[c]).dry_run = FALSE
    BY <1>4 DEF Query, ListingQuery, push_filter, NoQuery
  <1>6. PartsOf(place(c)) = op(c).body.fields
    <2>1. place(c)[2] = op(c).place
      BY DEF place, PlaceOf, op
    <2> QED BY <1>2, <2>1 DEF Fits, PartsOf
  <1> QED BY <1>1, <1>3, <1>5, <1>6 DEF DryRun, Sets

\* version() is answered from no resource.
LEMMA VersionReads ==
  ASSUME Chosen, NEW c \in Calls, plan[c] # None, plan[c].method = "version"
  PROVE  op(c).effect = "read"
  <1>1. plan[c].op = ProbeMethods.version
    BY PlansWellFormed, Entries DEF WellFormed
  <1> QED BY <1>1 DEF op, ProbeMethods, Op

\* The server works on a transmission.
LEMMA ExecutePreserves ==
  ASSUME IInv, NEW c \in Calls, NEW i \in Transmissions, Execute(c, i)
  PROVE  IInv'
  <1> DEFINE a == reply'[c]
  <1>1. i \in transit[c] /\ sent[c] > 0 /\ plan[c] # None
    BY ExecuteWorks
  <1>2. PICK status \in Statuses \ {"RateLimit", "BadRequest"}, wrote \in BOOLEAN :
          Executes(c, i, status, wrote) /\ Worked(c, status, wrote)
    BY ExecuteWorks
  <1> DEFINE new == [status |-> status, wrote |-> wrote, saw |-> last[place(c)].by]
  <1>0. Frame /\ Chosen'
    BY <1>2, InputKept DEF IInv, Executes
  <1>3. /\ UNCHANGED <<pc, sent, outcome, reports, ended>>
        /\ transit' = [transit EXCEPT ![c] = transit[c] \ {i}]
        /\ executed' = [executed EXCEPT ![c] = executed[c] \cup {i}]
        /\ reply' = [reply EXCEPT ![c] = IF Awaited(c, i) THEN new ELSE reply[c]]
    BY <1>2 DEF Executes, calls
  <1>4. place(c) \in Places
    BY <1>1, PlacesOfPlans
  <1>5. new \in Replies
    <2>1. last[place(c)].by \in Calls \cup {None}
      BY <1>4 DEF IInv, TypeOK, Typed
    <2> QED BY <2>1 DEF Replies
  <1>6. /\ transit'[c] = transit[c] \ {i} /\ executed'[c] = executed[c] \cup {i}
        /\ i \notin executed[c] /\ transit'[c] \cup executed'[c] = transit[c] \cup executed[c]
        /\ \A d \in Calls \ {c} : /\ transit'[d] = transit[d] /\ executed'[d] = executed[d]
                                  /\ reply'[d] = reply[d]
        /\ a = IF Awaited(c, i) THEN new ELSE reply[c]
    BY <1>1, <1>3 DEF IInv, Typed, Once
  <1>7. /\ new.status = status /\ new.wrote = wrote /\ new.saw = last[place(c)].by
    OBVIOUS
  <1>8. \/ Awaited(c, i) /\ a = new /\ pc[c] = "await" /\ i = sent[c]
        \/ ~Awaited(c, i) /\ a = reply[c] /\ (a # None => i # sent[c])
    BY <1>6 DEF Awaited, IInv, TypeOK
  <1> HIDE DEF a, new
  <1>9. \A d \in Calls : Troubled(d)' <=> Troubled(d)
    BY <1>3 DEF Troubled
  <1>10. Counted'
    <2>1. Cardinality(executed[c] \cup {i}) = Cardinality(executed[c]) + 1
      <3>1. IsFiniteSet(executed[c])
        BY TransmissionsFinite DEF IInv
      <3> QED BY <1>6, <3>1, FS_AddElement
    <2>2. Cardinality(executed'[c]) = Cardinality(executed[c]) + 1
      BY <1>6, <2>1
    <2>3. Cardinality(executed[c]) \in Nat /\ minted[c] \in Nat
          /\ minted[c] <= Cardinality(executed[c])
      BY TransmissionsFinite DEF IInv, Counted
    <2>4. /\ minted'[c] = minted[c] \/ (minted'[c] = minted[c] + 1 /\ Mints(c))
          /\ \A d \in Calls \ {c} : minted'[d] = minted[d]
      BY <1>2 DEF Worked, IInv, TypeOK
    <2>5. minted'[c] \in Nat /\ minted'[c] <= Cardinality(executed'[c])
      BY <2>2, <2>3, <2>4
    <2>6. a # None /\ a.status = "RateLimit" => reply[c] # None /\ reply[c].status = "RateLimit"
      BY <1>7, <1>8
    <2> QED BY <1>0, <1>3, <1>6, <2>4, <2>5, <2>6 DEF Frame, IInv, Counted, a
  <1>11. TypeOK'
    <2>1. minted' \in [Calls -> 0..MaxRetries + 1]
      <3>1. executed'[c] \subseteq Transmissions
        BY <1>6 DEF IInv, Typed
      <3>2. IsFiniteSet(Transmissions) /\ Cardinality(Transmissions) = MaxRetries + 1
        BY RetriesAssumption, FS_Interval DEF Transmissions
      <3>3. Cardinality(executed'[c]) <= MaxRetries + 1 /\ Cardinality(executed'[c]) \in Nat
        BY <3>1, <3>2, FS_Subset, FS_CardinalityType
      <3>4. minted'[c] \in Nat /\ minted'[c] <= Cardinality(executed'[c])
        BY <1>10 DEF Counted
      <3>5. minted'[c] \in 0..MaxRetries + 1
        BY <3>3, <3>4, RetriesAssumption
      <3>6. minted \in [Calls -> 0..MaxRetries + 1]
            /\ \/ minted' = minted
               \/ minted' = [minted EXCEPT ![c] = @ + 1]
        BY <1>2 DEF Worked, IInv, TypeOK
      <3> QED BY <3>5, <3>6
    <2>2. \A d \in Calls : transit'[d] \cup executed'[d] \subseteq 1..sent[d]
      BY <1>1, <1>6 DEF IInv, TypeOK
    <2>3. \A d \in Calls : reply'[d] # None => pc[d] = "await" /\ sent[d] \notin transit'[d]
      BY <1>6, <1>8 DEF IInv, TypeOK, a
    <2>4. /\ \A p \in DOMAIN last' : last'[p] \in [found : BOOLEAN, by : Calls \cup {None}]
          /\ \A p \in DOMAIN writer' : writer'[p] \in [PartsOf(p) -> Calls \cup {None}]
      BY <1>2 DEF Worked
    <2> QED BY <1>3, <2>1, <2>2, <2>3, <2>4 DEF IInv, TypeOK
  <1>12. Typed'
    BY <1>0, <1>2, <1>3, <1>5 DEF Frame, Worked, IInv, Typed, Transmissions
  <1>13. Begun'
    BY <1>0, <1>3 DEF Frame, IInv, Begun
  <1>14. Once' /\ EarlierReported'
    BY <1>3, <1>6 DEF IInv, Once, EarlierReported
  <1>15. RepliesHonest'
    BY <1>3, <1>6, <1>7, <1>8 DEF IInv, RepliesHonest, a
  <1>16. MakersExecuted'
    <2>1. \A d \in Calls : executed[d] # {} \/ d = c => executed'[d] # {}
      BY <1>6
    <2>2. \A p \in Places : last'[p].by = last[p].by \/ last'[p].by = c
      BY <1>2 DEF Worked
    <2> QED BY <1>0, <2>1, <2>2 DEF Frame, IInv, MakersExecuted
  <1>17. OwnDoingReported'
    <2>1. ASSUME a = new, pc[c] = "await", i = sent[c], a.saw = c
          PROVE  reports[c] > 0
      <3>1. last[place(c)].by = c
        BY <1>7, <2>1
      <3>2. executed[c] # {}
        BY <1>4, <3>1 DEF IInv, MakersExecuted
      <3> QED BY <1>6, <2>1, <3>2 DEF IInv, EarlierReported
    <2> QED BY <1>3, <1>6, <1>8, <2>1 DEF IInv, OwnDoingReported, a
  <1>18. LateTroubled'
    BY <1>0, <1>3, <1>6, <1>9 DEF Frame, IInv, LateTroubled, Over
  <1>19. EndedOver'
    BY <1>3 DEF IInv, EndedOver, Over
  <1>20. WritesStand'
    <2>1. ASSUME NEW d \in Calls, NEW e \in Calls, e = last'[place(d)].by, e \in ended[d],
                 ~Mints(d),
                 \/ reply'[d] # None /\ reply'[d].wrote
                 \/ outcome[d] # None /\ outcome[d].wrote
          PROVE  Troubled(e)
      <3>1. plan[d] # None
        BY <1>3, <1>11, <2>1 DEF IInv, Begun, TypeOK
      <3>2. place(d) \in Places
        BY <3>1, PlacesOfPlans
      <3>3. CASE last'[place(d)].by # last[place(d)].by
        <4>1. e = c /\ op(c).effect # "read"
          BY <1>2, <2>1, <3>2, <3>3 DEF Worked
        <4>2. Over(c) /\ transit[c] # {}
          BY <1>1, <2>1, <4>1 DEF IInv, EndedOver
        <4>3. plan[c].method # "version"
          BY <1>1, <4>1, VersionReads DEF IInv
        <4> QED BY <4>1, <4>2, <4>3 DEF IInv, LateTroubled
      <3>4. CASE last'[place(d)].by = last[place(d)].by
        <4>1. CASE \/ reply[d] # None /\ reply[d].wrote
                   \/ outcome[d] # None /\ outcome[d].wrote
          BY <2>1, <3>4, <4>1 DEF IInv, WritesStand
        <4>2. CASE d = c /\ a = new /\ a.wrote
          <5>1. last'[place(c)].by = c
            BY <1>2, <1>7, <2>1, <4>2 DEF Worked
          <5> QED BY <2>1, <4>2, <5>1 DEF IInv, EndedOver
        <4> QED BY <1>6, <1>8, <2>1, <4>1, <4>2 DEF a
      <3> QED BY <3>3, <3>4
    <2>2. \A d \in Calls : ended[d] \subseteq Calls
      BY DEF IInv, TypeOK
    <2> QED BY <1>0, <1>3, <1>9, <2>1, <2>2 DEF Frame, WritesStand
  <1>21. FieldsStand'
    <2>1. ASSUME NEW d \in Calls, Updates(d), NEW f \in Sets(d),
                 \/ reply'[d] # None /\ reply'[d].status = "Ok"
                 \/ Succeeded(d)
          PROVE  writer'[place(d)][f] = d
      <3>1. /\ plan[d] # None /\ f \in PartsOf(place(d)) /\ op(d).effect = "merge" /\ ~DryRun(d)
            /\ f \in keys(d) /\ place(d) \in Places
        BY <2>1, UpdateFacts, PlacesOfPlans DEF IInv, Updates
      <3>2. CASE \/ reply[d] # None /\ reply[d].status = "Ok"
                 \/ Succeeded(d)
        <4>1. writer[place(d)][f] = d
          BY <2>1, <3>2 DEF IInv, FieldsStand
        <4>2. CASE writer'[place(d)][f] # writer[place(d)][f]
          <5>1. writer'[place(d)][f] = c /\ (op(c).effect = "merge" => f \in keys(c))
            BY <1>2, <3>1, <4>2 DEF Worked
          <5>2. CASE c # d
            <6>1. plan[c].method = plan[d].method /\ f \notin plan[c].populated
              BY <1>1, <2>1, <5>2 DEF Updates, Sets
            <6>2. op(c) = op(d)
              BY <1>1, <3>1, <6>1, PlansWellFormed DEF IInv, WellFormed, op
            <6>3. f \notin Sets(c) /\ f \in op(c).body.optional
              BY <2>1, <6>1, <6>2 DEF Sets
            <6>4. f \notin keys(c)
              BY <1>1, <3>1, <6>2, <6>3, UpdateFacts DEF IInv
            <6> QED BY <3>1, <5>1, <6>2, <6>4
          <5> QED BY <5>1, <5>2
        <4> QED BY <4>1, <4>2
      <3>3. CASE d = c /\ a = new /\ a.status = "Ok"
        BY <1>2, <1>7, <2>1, <3>1, <3>3 DEF Worked
      <3> QED BY <1>6, <1>8, <2>1, <3>2, <3>3 DEF a
    <2> QED BY <1>0, <1>3, <2>1 DEF Frame, FieldsStand, Succeeded
  <1> QED BY <1>0, <1>10, <1>11, <1>12, <1>13, <1>14, <1>15, <1>16, <1>17, <1>18, <1>19, <1>20,
             <1>21
          DEF IInv

-----------------------------------------------------------------------------
(* The invariant of the specification *)

\* Nothing changes, nothing breaks.
LEMMA StutterPreserves ==
  ASSUME IInv, UNCHANGED vars
  PROVE  IInv'
  <1>0. Frame /\ Chosen'
    BY InputKept DEF IInv, vars
  <1>1. UNCHANGED <<pc, sent, outcome, reports, ended, transit, executed, reply, last, writer,
                    minted>>
    BY DEF vars, calls, store
  <1>2. TypeOK' /\ Typed'
    BY <1>0, <1>1 DEF Frame, IInv, TypeOK, Typed, Transmissions
  <1>3. Begun' /\ Once' /\ EarlierReported' /\ RepliesHonest'
    BY <1>0, <1>1 DEF Frame, IInv, Begun, Once, EarlierReported, RepliesHonest
  <1>4. MakersExecuted' /\ OwnDoingReported' /\ Counted'
    BY <1>0, <1>1 DEF Frame, IInv, MakersExecuted, OwnDoingReported, Counted
  <1>5. LateTroubled' /\ EndedOver' /\ FieldsStand'
    BY <1>0, <1>1 DEF Frame, IInv, LateTroubled, EndedOver, FieldsStand, Over, Troubled, Succeeded
  <1>6. WritesStand'
    BY <1>0, <1>1 DEF Frame, IInv, WritesStand, Troubled
  <1> QED BY <1>0, <1>2, <1>3, <1>4, <1>5, <1>6 DEF IInv

\* Every step preserves the invariant.
LEMMA NextPreserves ==
  ASSUME IInv, [Next]_vars
  PROVE  IInv'
  <1>1. ASSUME NEW c \in Calls,
               \/ Begin(c) \/ BeginWithoutTenant(c)
               \/ Accept(c) \/ Fail(c) \/ Fault(c) \/ BodyFails(c) \/ Drop(c)
               \/ Refuse(c)
        PROVE  IInv'
    BY <1>1, BeginPreserves, BeginWithoutTenantPreserves, AcceptPreserves, FailPreserves,
       FaultPreserves, BodyFailsPreserves, DropPreserves, RefusePreserves
  <1>2. ASSUME NEW c \in Calls, NEW i \in Transmissions, Execute(c, i)
        PROVE  IInv'
    BY <1>2, ExecutePreserves
  <1>3. ASSUME NEW p \in DOMAIN last, JobEnds(p)
        PROVE  IInv'
    BY <1>3, JobEndsPreserves
  <1>4. CASE UNCHANGED vars
    BY <1>4, StutterPreserves
  <1> QED BY <1>1, <1>2, <1>3, <1>4 DEF Next

\* It holds before anything was sent.
LEMMA InitEstablishes ==
  ASSUME Init
  PROVE  IInv
  <1>1. PICK s \in Scenarios :
          /\ client = s.client /\ plan = s.plan /\ release = s.release
          /\ last = [p \in Places |-> Held(s.found, None)]
          /\ writer = [p \in Places |-> [f \in PartsOf(p) |-> None]]
    BY DEF Init
  <1>2. Chosen
    BY <1>1 DEF Chosen
  <1>3. /\ \A c \in Calls : /\ pc[c] = "idle" /\ sent[c] = 0 /\ transit[c] = {}
                            /\ executed[c] = {} /\ reply[c] = None /\ outcome[c] = None
                            /\ reports[c] = 0 /\ minted[c] = 0 /\ ended[c] = {}
    BY DEF Init
  <1>4. None \notin Calls
    BY NoneAssumption
  <1>5. /\ \A p \in Places : last[p] = [found |-> s.found, by |-> None]
        /\ DOMAIN last = Places /\ s.found \in BOOLEAN
    BY <1>1, ScenariosAssumption DEF Held
  <1>6. TypeOK
    <2>1. /\ pc \in [Calls -> {"idle", "await", "done", "dropped"}]
          /\ sent \in [Calls -> 0..MaxRetries + 1]
          /\ reports \in [Calls -> 0..MaxRetries] /\ minted \in [Calls -> 0..MaxRetries + 1]
          /\ ended \in [Calls -> SUBSET Calls]
      BY RetriesAssumption DEF Init
    <2>2. \A p \in DOMAIN writer : writer[p] \in [PartsOf(p) -> Calls \cup {None}]
      BY <1>1
    <2> QED BY <1>3, <1>5, <2>1, <2>2 DEF TypeOK
  <1>7. Typed
    <2>1. /\ transit \in [Calls -> SUBSET Transmissions]
          /\ executed \in [Calls -> SUBSET Transmissions]
          /\ reply \in [Calls -> Replies \cup {None}]
          /\ outcome \in [Calls -> Outcomes \cup {None}]
      BY DEF Init
    <2>2. last \in [Places -> [found : BOOLEAN, by : Calls \cup {None}]]
      BY <1>1, <1>5 DEF Held
    <2>3. writer = [p \in Places |-> writer[p]]
      BY <1>1
    <2> QED BY <2>1, <2>2, <2>3 DEF Typed
  <1>8. Begun /\ Once /\ EarlierReported /\ RepliesHonest
    BY <1>3 DEF Begun, Once, EarlierReported, RepliesHonest
  <1>9. MakersExecuted /\ OwnDoingReported
    BY <1>3, <1>4, <1>5 DEF MakersExecuted, OwnDoingReported
  <1>10. Counted
    <2>1. Cardinality({}) = 0
      BY FS_EmptySet
    <2>2. \A c \in Calls : executed[c] = {} /\ transit[c] \cup executed[c] = {}
      BY <1>3
    <2>3. ASSUME NEW c \in Calls
          PROVE  /\ minted[c] = 0 /\ reports[c] = 0 /\ reply[c] = None
                 /\ Cardinality(executed[c]) = 0
                 /\ Cardinality(transit[c] \cup executed[c]) = 0
      BY <1>3, <2>1, <2>2
    <2> QED BY <2>3 DEF Counted
  <1>11. LateTroubled /\ EndedOver /\ WritesStand
    BY <1>3, <1>4 DEF LateTroubled, EndedOver, WritesStand, Over
  <1>12. FieldsStand
    BY <1>3 DEF FieldsStand, Succeeded
  <1> QED BY <1>2, <1>6, <1>7, <1>8, <1>9, <1>10, <1>11, <1>12 DEF IInv

\* The inductive invariant of the calls against the server's resources.
THEOREM Invariance == Spec => []IInv
  <1>1. Init => IInv
    BY InitEstablishes
  <1>2. IInv /\ [Next]_vars => IInv'
    BY NextPreserves
  <1> QED BY <1>1, <1>2, PTL DEF Spec

\* The states of Api have the types TypeOK says.
THEOREM TypeCorrect == Spec => []TypeOK
  <1>1. IInv => TypeOK
    BY DEF IInv
  <1> QED BY <1>1, Invariance, PTL

-----------------------------------------------------------------------------
(* What a caller may rely on *)

\* AnswersAreAboutOthers: a call answered without trouble met nothing it did itself.
THEOREM NoAnswerIsItsOwnDoing == Spec => []AnswersAreAboutOthers
  <1>1. IInv => AnswersAreAboutOthers
    BY DEF IInv, OwnDoingReported, AnswersAreAboutOthers, Troubled
  <1> QED BY <1>1, Invariance, PTL

\* AcknowledgedWritesStand: an acknowledged write stands, but for calls in trouble, until a
\* call that had not ended when it began writes again.
THEOREM AcknowledgedWritesAreKept == Spec => []AcknowledgedWritesStand
  <1>1. IInv => AcknowledgedWritesStand
    BY DEF IInv, WritesStand, AcknowledgedWritesStand, Succeeded
  <1> QED BY <1>1, Invariance, PTL

\* CreatesCounted: creations are repeated only as often as a fault was reported, and those
\* that name what they create are not.
THEOREM CreationsAreCounted == Spec => []CreatesCounted
  <1>1. ASSUME IInv, NEW c \in Calls
        PROVE  minted[c] <= 1 + reports[c]
    <2>1. /\ Cardinality(executed[c]) \in Nat
          /\ Cardinality(transit[c] \cup executed[c]) \in Nat
          /\ Cardinality(executed[c]) <= Cardinality(transit[c] \cup executed[c])
      BY <1>1, TransmissionsFinite DEF IInv
    <2>2. /\ minted[c] \in Nat /\ minted[c] <= Cardinality(executed[c])
          /\ Cardinality(transit[c] \cup executed[c]) <= 1 + reports[c]
          /\ reports[c] \in Nat
      BY <1>1 DEF IInv, Counted, TypeOK
    <2> QED BY <2>1, <2>2
  <1>2. ASSUME IInv, NEW c \in Calls, plan[c] # None, op(c).effect = "create",
               "id" \in plan[c].populated
        PROVE  minted[c] = 0
    <2>1. "id" \in op(c).body.fields
      BY <1>2, PlansWellFormed DEF IInv, WellFormed, op
    <2>2. ~Mints(c)
      BY <1>2, <2>1 DEF Mints, Names, keys, Encode
    <2> QED BY <1>2, <2>2 DEF IInv, Counted
  <1>3. IInv => CreatesCounted
    BY <1>1, <1>2 DEF CreatesCounted
  <1> QED BY <1>3, Invariance, PTL

\* PartialUpdatesStand: acknowledged updates of different fields of an index, or of the LLM
\* settings but for provider and model, all stand.
THEOREM PartialUpdatesAreKept == Spec => []PartialUpdatesStand
  <1>1. IInv => PartialUpdatesStand
    <2>1. ASSUME IInv, NEW c \in Calls, Succeeded(c), op(c).effect = "merge",
                 \A d \in Calls \ {c} :
                   plan[d] # None => plan[d].method = plan[c].method
                                     /\ plan[c].populated \cap plan[d].populated = {},
                 NEW f \in plan[c].populated \cap op(c).body.optional
          PROVE  writer[place(c)][f] = c
      <3>1. pc[c] = "done"
        BY <2>1 DEF IInv, TypeOK, Succeeded
      <3>2. plan[c] # None
        BY <2>1, <3>1 DEF IInv, Begun
      <3> QED BY <2>1, <3>2 DEF IInv, FieldsStand, Updates, Sets
    <2> QED BY <2>1 DEF PartialUpdatesStand
  <1> QED BY <1>1, Invariance, PTL

-----------------------------------------------------------------------------
(* Every call is a remote call in the sense of Rpc *)

RpcStep(c) == [R(c)!Next]_(R(c)!vars)

\* Seen as a remote call, c does nothing.
LEMMA RpcStutters ==
  ASSUME NEW c \in Calls, pc'[c] = pc[c], executed'[c] = executed[c], outcome'[c] = outcome[c]
  PROVE  RpcStep(c)
  <1>1. UNCHANGED R(c)!vars
    BY DEF R!vars, Over
  <1> QED BY <1>1 DEF RpcStep

\* The end of c is a return.
LEMMA RpcReturns ==
  ASSUME IInv, NEW c \in Calls, NEW kind \in Kinds, NEW r, Concludes(c, kind, r), ~Over(c),
         executed' = executed, kind = "Ok" => executed[c] # {},
         r.saw \in Calls \cup {None}, r.wrote \in BOOLEAN
  PROVE  \A d \in Calls : RpcStep(d)
  <1>1. /\ pc' = [pc EXCEPT ![c] = "done"]
        /\ outcome' = [outcome EXCEPT ![c] =
             [kind |-> IF kind # "Ok" /\ plan[c].method = "version" THEN "Unknown" ELSE kind,
              saw |-> r.saw, wrote |-> r.wrote]]
    BY DEF Concludes
  <1>2. /\ pc'[c] = "done" /\ \A d \in Calls \ {c} : pc'[d] = pc[d]
        /\ \A d \in Calls \ {c} : outcome'[d] = outcome[d]
        /\ outcome'[c] = [kind |-> IF kind # "Ok" /\ plan[c].method = "version"
                                   THEN "Unknown" ELSE kind,
                          saw |-> r.saw, wrote |-> r.wrote]
    BY <1>1 DEF IInv, TypeOK, Typed
  <1>3. /\ outcome'[c] # None /\ outcome'[c].kind \in Kinds
        /\ outcome'[c].kind = "Ok" => kind = "Ok"
    <2>1. outcome'[c].kind = IF kind # "Ok" /\ plan[c].method = "version"
                             THEN "Unknown" ELSE kind
      BY <1>2
    <2>2. outcome'[c].kind \in Kinds /\ (outcome'[c].kind = "Ok" => kind = "Ok")
      BY <2>1 DEF Kinds
    <2>3. outcome'[c] # None
      BY <1>2, <2>1, <2>2, NoneAssumption
    <2> QED BY <2>2, <2>3
  <1>4. R(c)!Return(outcome'[c].kind)
    BY <1>2, <1>3 DEF R!Return, Over
  <1>5. RpcStep(c)
    BY <1>3, <1>4 DEF RpcStep, R!Next
  <1>6. \A d \in Calls \ {c} : RpcStep(d)
    BY <1>2, RpcStutters
  <1> QED BY <1>5, <1>6

\* Every step is, for every call, a step of its remote call or none.
LEMMA StepsAreRpcs ==
  ASSUME IInv, [Next]_vars
  PROVE  \A c \in Calls : RpcStep(c)
  <1>1. ASSUME UNCHANGED <<pc, executed, outcome>>
        PROVE  \A c \in Calls : RpcStep(c)
    BY <1>1, RpcStutters
  <1>2. ASSUME NEW c \in Calls, Begin(c)
        PROVE  \A d \in Calls : RpcStep(d)
    <2>1. /\ pc[c] = "idle" /\ pc' = [pc EXCEPT ![c] = "await"]
          /\ executed' = executed /\ outcome' = outcome
      BY <1>2 DEF Begin
    <2>2. pc'[c] = "await" /\ \A d \in Calls \ {c} : pc'[d] = pc[d]
      BY <2>1 DEF IInv, TypeOK
    <2>3. R(c)!Call
      BY <2>1, <2>2 DEF R!Call, Over
    <2>4. RpcStep(c)
      BY <2>3 DEF RpcStep, R!Next
    <2> QED BY <2>1, <2>2, <2>4, RpcStutters
  <1>3. ASSUME NEW c \in Calls, NEW i \in Transmissions, Execute(c, i)
        PROVE  \A d \in Calls : RpcStep(d)
    <2>1. /\ i \in transit[c] /\ pc' = pc /\ outcome' = outcome
          /\ executed' = [executed EXCEPT ![c] = @ \cup {i}] /\ sent[c] > 0
      BY <1>3, ExecuteWorks DEF Executes, calls
    <2>2. /\ executed'[c] = executed[c] \cup {i}
          /\ \A d \in Calls \ {c} : executed'[d] = executed[d]
          /\ i \notin executed[c] /\ pc[c] # "idle"
      BY <2>1 DEF IInv, Typed, Once, Begun
    <2>3. R(c)!Execute(i)
      BY <2>1, <2>2 DEF R!Execute, Over
    <2>4. RpcStep(c)
      BY <2>3 DEF RpcStep, R!Next
    <2> QED BY <2>1, <2>2, <2>4, RpcStutters
  <1>4. ASSUME NEW c \in Calls, NEW kind \in Kinds, Concludes(c, kind, NoReply), ~Over(c),
               executed' = executed, kind # "Ok"
        PROVE  \A d \in Calls : RpcStep(d)
    <2>1. NoReply.saw \in Calls \cup {None} /\ NoReply.wrote \in BOOLEAN
      BY DEF NoReply
    <2> QED BY <1>4, <2>1, RpcReturns
  <1>5. ASSUME NEW c \in Calls, BeginWithoutTenant(c) \/ BodyFails(c)
        PROVE  \A d \in Calls : RpcStep(d)
    BY <1>4, <1>5 DEF BeginWithoutTenant, BodyFails, Over, Kinds
  <1>6. ASSUME NEW c \in Calls, Accept(c)
        PROVE  \A d \in Calls : RpcStep(d)
    <2>1. /\ pc[c] = "await" /\ reply[c] # None /\ reply[c].status = "Ok"
          /\ executed' = executed
      BY <1>6 DEF Accept
    <2>2. PICK kind \in {"Ok", "Decode", "DecodeNull"} : Concludes(c, kind, reply[c])
      BY <1>6 DEF Accept
    <2>3. kind \in Kinds /\ executed[c] # {}
      BY <2>1 DEF Kinds, IInv, RepliesHonest
    <2> QED BY <2>1, <2>2, <2>3, ReplyFits, RpcReturns
  <1>7. ASSUME NEW c \in Calls, Fail(c)
        PROVE  \A d \in Calls : RpcStep(d)
    <2>1. /\ pc[c] = "await" /\ reply[c] # None /\ reply[c].status # "Ok"
          /\ executed' = executed
      BY <1>7 DEF Fail
    <2>2. CASE Resend(c)
      BY <1>1, <2>1, <2>2 DEF Resend
    <2>3. CASE Concludes(c, ErrorKind(reply[c].status), reply[c])
      <3>1. ErrorKind(reply[c].status) \in Kinds /\ ErrorKind(reply[c].status) # "Ok"
        BY <2>1, ReplyFits DEF ErrorKind, Statuses, Kinds
      <3> QED BY <2>1, <2>3, <3>1, ReplyFits, RpcReturns
    <2> QED BY <1>7, <2>2, <2>3 DEF Fail
  <1>8. ASSUME NEW c \in Calls, Fault(c)
        PROVE  \A d \in Calls : RpcStep(d)
    <2>1. pc[c] = "await" /\ executed' = executed /\ ~Over(c) /\ "Network" \in Kinds
      BY <1>8 DEF Fault, Over, Kinds
    <2>2. CASE Resend(c)
      BY <1>1, <2>1, <2>2 DEF Resend
    <2>3. CASE Concludes(c, "Network", NoReply)
      BY <1>4, <2>1, <2>3
    <2> QED BY <1>8, <2>2, <2>3 DEF Fault
  <1>9. ASSUME NEW c \in Calls, Drop(c)
        PROVE  \A d \in Calls : RpcStep(d)
    <2>1. /\ pc[c] = "await" /\ pc' = [pc EXCEPT ![c] = "dropped"]
          /\ executed' = executed /\ outcome' = outcome
      BY <1>9 DEF Drop
    <2>2. pc'[c] = "dropped" /\ \A d \in Calls \ {c} : pc'[d] = pc[d]
      BY <2>1 DEF IInv, TypeOK
    <2>3. R(c)!Abandon
      BY <2>1, <2>2 DEF R!Abandon, Over
    <2>4. RpcStep(c)
      BY <2>3 DEF RpcStep, R!Next
    <2> QED BY <2>1, <2>2, <2>4, RpcStutters
  <1>10. ASSUME NEW c \in Calls, Refuse(c)
         PROVE  \A d \in Calls : RpcStep(d)
    BY <1>1, <1>10 DEF Refuse, calls
  <1>11. ASSUME NEW p \in DOMAIN last, JobEnds(p)
         PROVE  \A d \in Calls : RpcStep(d)
    BY <1>1, <1>11 DEF JobEnds, calls
  <1>12. CASE UNCHANGED vars
    BY <1>1, <1>12 DEF vars, calls
  <1> QED BY <1>2, <1>3, <1>5, <1>6, <1>7, <1>8, <1>9, <1>10, <1>11, <1>12 DEF Next

\* CallsImplementRpc: each method is one remote call, whatever is retried, refused, late or
\* dropped.
THEOREM CallsAreRpcs == Spec => CallsImplementRpc
  <1>1. Init => \A c \in Calls : R(c)!Init
    BY DEF Init, R!Init
  <1>2. IInv /\ [Next]_vars => [\A c \in Calls : [R(c)!Next]_(R(c)!vars)]_vars
    BY StepsAreRpcs DEF RpcStep
  <1> QED BY <1>1, <1>2, Invariance, PTL DEF Spec, CallsImplementRpc

-----------------------------------------------------------------------------
(* What the server reads *)

IsText(x) == x = [i \in DOMAIN x |-> x[i]]

\* Escapes are undone.
LEMMA EscapedTextReads ==
  ASSUME NEW x, IsText(x)
  PROVE  ReadText(urlencode(x)) = x
  <1>1. DOMAIN urlencode(x) = DOMAIN x
        /\ \A i \in DOMAIN x : urlencode(x)[i] = [char |-> x[i], escaped |-> x[i] \notin Unreserved]
    BY DEF urlencode
  <1>2. ~ \E i \in DOMAIN urlencode(x) :
            ~urlencode(x)[i].escaped /\ urlencode(x)[i].char \in QueryDelimiters
    <2> SUFFICES ASSUME NEW i \in DOMAIN x
                 PROVE  urlencode(x)[i].escaped \/ urlencode(x)[i].char \notin QueryDelimiters
      BY <1>1
    <2> DEFINE e == x[i] \notin Unreserved
    <2>1. urlencode(x)[i].escaped = e /\ urlencode(x)[i].char = x[i]
      BY <1>1
    <2>2. e \/ x[i] \notin QueryDelimiters
      BY UnreservedAssumption
    <2> HIDE DEF e
    <2> QED BY <2>1, <2>2, Zenon
  <1>3. ReadText(urlencode(x)) = [i \in DOMAIN urlencode(x) |-> urlencode(x)[i].char]
    BY <1>2 DEF ReadText
  <1>4. [i \in DOMAIN urlencode(x) |-> urlencode(x)[i].char] = [i \in DOMAIN x |-> x[i]]
    BY <1>1
  <1> QED BY <1>3, <1>4 DEF IsText

\* A text without delimiters needs no escapes; with one it is lost.
LEMMA LiteralTextReads ==
  ASSUME NEW x, IsText(x)
  PROVE  ReadText(Literally(x)) = IF \E i \in DOMAIN x : x[i] \in QueryDelimiters THEN None ELSE x
  <1>1. DOMAIN Literally(x) = DOMAIN x
        /\ \A i \in DOMAIN x : Literally(x)[i] = [char |-> x[i], escaped |-> FALSE]
    BY DEF Literally
  <1>2. \A i \in DOMAIN x : Literally(x)[i].char = x[i] /\ Literally(x)[i].escaped = FALSE
    BY <1>1
  <1>3. [i \in DOMAIN Literally(x) |-> Literally(x)[i].char] = x
    BY <1>1, <1>2 DEF IsText
  <1> QED BY <1>1, <1>2, <1>3 DEF ReadText

\* A listing of documents is asked for as it was meant.
LEMMA ListingsRead ==
  ASSUME NEW prefix, NEW cursor, \A x \in {prefix, cursor} \ {None, <<>>} : IsText(x)
  PROVE  ReadTexts(ListingQuery(prefix, cursor)) =
           {Param("prefix", x) : x \in {prefix} \ {None, <<>>}} \cup
           {Param("cursor", x) : x \in {cursor} \ {None}}
  <1>1. ListingQuery(prefix, cursor).texts =
          {Param("prefix", urlencode(x)) : x \in {prefix} \ {None, <<>>}} \cup
          {Param("cursor", urlencode(x)) : x \in {cursor} \ {None}}
    BY DEF ListingQuery, NoQuery
  <1>2. IsText(<<>>)
    BY DEF IsText
  <1>3. \A x \in {prefix, cursor} \ {None} : ReadText(urlencode(x)) = x
    BY <1>2, EscapedTextReads
  <1>4. \A name, value : Param(name, value).name = name /\ Param(name, value).value = value
    BY DEF Param
  <1> QED BY <1>1, <1>3, <1>4 DEF ReadTexts

\* A listing of jobs is exactly when its cursor has no delimiters.
LEMMA FiltersRead ==
  ASSUME NEW status, NEW cursor, NEW limit, \A x \in {status, cursor} \ {None} : IsText(x),
         status # None => \A i \in DOMAIN status : status[i] \in Unreserved
  PROVE  LET meant == {Param("status", x) : x \in {status} \ {None}} \cup
                      {Param("cursor", x) : x \in {cursor} \ {None}}
         IN  (ReadTexts(push_filter(status, cursor, limit)) = meant) <=>
             ~(cursor # None /\ \E i \in DOMAIN cursor : cursor[i] \in QueryDelimiters)
  <1> DEFINE q == push_filter(status, cursor, limit)
             meant == {Param("status", x) : x \in {status} \ {None}} \cup
                      {Param("cursor", x) : x \in {cursor} \ {None}}
             lost == cursor # None /\ \E i \in DOMAIN cursor : cursor[i] \in QueryDelimiters
  <1>1. q.texts = {Param("status", Literally(x)) : x \in {status} \ {None}} \cup
                  {Param("cursor", Literally(x)) : x \in {cursor} \ {None}}
    BY DEF push_filter, NoQuery
  <1>2. status # None => ReadText(Literally(status)) = status
    BY LiteralTextReads, UnreservedAssumption
  <1>3. cursor # None => ReadText(Literally(cursor)) = IF lost THEN None ELSE cursor
    BY LiteralTextReads
  <1>4. \A name, value : Param(name, value).name = name /\ Param(name, value).value = value
    BY DEF Param
  <1> HIDE DEF lost
  <1>5. ReadTexts(q) =
          {Param("status", x) : x \in {status} \ {None}} \cup
          {Param("cursor", IF lost THEN None ELSE x) : x \in {cursor} \ {None}}
    BY <1>1, <1>2, <1>3, <1>4 DEF ReadTexts
  <1>6. CASE lost
    <2>1. Param("cursor", None) \in ReadTexts(q)
      BY <1>5, <1>6 DEF lost
    <2>2. Param("cursor", None) \notin meant
      BY <1>4
    <2> QED BY <1>6, <2>1, <2>2 DEF lost
  <1>7. CASE ~lost
    BY <1>5, <1>7 DEF lost
  <1> QED BY <1>6, <1>7

\* The age given to a cleanup arrives.
LEMMA AgesRead ==
  ASSUME NEW min_age \in Nat, NEW dry_run
  PROVE  ReadAge(CleanupQuery(min_age, dry_run)) = min_age
         /\ ReadTexts(CleanupQuery(min_age, dry_run)) = {}
  <1> DEFINE q == CleanupQuery(min_age, dry_run)
  <1>1. /\ q.min_age = (IF min_age = 0 THEN None ELSE format_duration(min_age))
        /\ q.texts = {}
    BY DEF CleanupQuery, NoQuery
  <1>2. format_duration(min_age) # None
    <2>1. Micro \in Nat \ {0} /\ Milli \in Nat \ {0} /\ Second \in Nat \ {0}
      BY Units
    <2>2. /\ min_age \div Micro \in Nat /\ min_age \div Milli \in Nat
          /\ min_age \div Second \in Nat
      BY <2>1, DivRest
    <2>3. CASE min_age % Micro # 0 \/ min_age % Milli # 0 \/ min_age % Second # 0
      <3>1. format_duration(min_age) \in [ns : Nat] \cup [us : Nat] \cup [ms : Nat]
        BY <2>2, <2>3 DEF format_duration
      <3> QED BY <3>1, NoneAssumption
    <2>4. CASE ~(min_age % Micro # 0 \/ min_age % Milli # 0 \/ min_age % Second # 0)
      <3> DEFINE secs == min_age \div Second
      <3>1. format_duration(min_age) = FormatSeconds(secs)
        BY <2>4 DEF format_duration
      <3>2. secs \in Nat
        BY <2>2
      <3> HIDE DEF secs
      <3>3. /\ secs \div 3600 \in Nat /\ secs \div 60 \in Nat /\ secs % 60 \in Nat
            /\ (secs % 3600) \div 60 \in Nat
        BY <3>2
      <3>4. FormatSeconds(secs) \in
              [s : Nat] \cup [m : Nat, s : Nat] \cup [h : Nat, m : Nat, s : Nat]
        BY <3>2, <3>3 DEF FormatSeconds
      <3> QED BY <3>1, <3>4, NoneAssumption
    <2> QED BY <2>3, <2>4
  <1>3. ReadTexts(q) = {}
    BY <1>1 DEF ReadTexts
  <1>4. ReadAge(q) = min_age
    BY <1>1, <1>2, DurationsAreKept DEF ReadAge
  <1> QED BY <1>3, <1>4

\* A request goes to the path of its method below the base URL, slash or not, and is read
\* there unless an argument breaks the path.
LEMMA PathsArrive ==
  ASSUME Chosen, NEW c \in Calls
  PROVE  LET path == Path(ClientOf(client, plan[c]).tenant, plan[c]) IN
         /\ request(c).url.below = client.base.segments
         /\ IF \A i \in DOMAIN path : Harmless(path[i])
            THEN request(c).url.path = path ELSE request(c).url.path # path
  <1> DEFINE path == Path(ClientOf(client, plan[c]).tenant, plan[c])
  <1>1. ClientOf(client, plan[c]).base = client.base
    BY ClientFields DEF ClientOf, with_tenant_id
  <1>2. request(c).url = url(client.base, path)
    BY <1>1 DEF request, Request
  <1>3. LET b == [client.base EXCEPT !.slash = TRUE]
        IN  b.slash = TRUE /\ b.segments = client.base.segments
    BY ClientFields
  <1> HIDE DEF path
  <1>4. request(c).url.below = client.base.segments /\ request(c).url.path = ReadPath(path)
    BY <1>2, <1>3 DEF url, Join
  <1>5. CASE \A i \in DOMAIN path : Harmless(path[i])
    BY <1>4, <1>5 DEF ReadPath, path
  <1>6. CASE ~ \A i \in DOMAIN path : Harmless(path[i])
    <2>1. path # <<>>
      BY <1>6
    <2> QED BY <1>4, <1>6, <2>1 DEF ReadPath, path
  <1> QED BY <1>5, <1>6 DEF path

\* What the query of a plan is meant to say.
Meant(p) ==
  {Param("prefix", x) : x \in {p.prefix} \ {None, <<>>}} \cup
  {Param("cursor", x) : x \in {p.cursor} \ {None}} \cup
  {Param("status", x) : x \in {p.status} \ {None}}

JobListings == {"list_jobs", "list_tenant_jobs"}

\* The server reads a query as it was meant, but for a cursor push_filter does not encode.
LEMMA QueriesRead ==
  ASSUME NEW p, WellFormed(p)
  PROVE  /\ (ReadTexts(Query(p)) = Meant(p)) <=> ~BreaksQuery(p)
         /\ Query(p).limit = p.limit /\ ReadAge(Query(p)) = p.min_age
  <1>1. \A x \in {p.prefix, p.cursor, p.status} \ {None} : IsText(x)
    BY DEF WellFormed, IsText
  <1>2. /\ p.prefix # None => p.method = "list_documents_with_prefix"
        /\ p.cursor # None =>
             p.method \in {"list_documents", "list_documents_with_prefix"} \cup JobListings
        /\ p.status # None =>
             p.method \in JobListings /\ \A i \in DOMAIN p.status : p.status[i] \in Unreserved
        /\ p.limit # None => p.method \in JobListings
        /\ p.min_age \in Nat
        /\ p.min_age # 0 => p.method = "cleanup_orphans"
    BY DEF WellFormed, JobListings
  <1>3. ASSUME NEW q, q.min_age = None PROVE ReadAge(q) = 0
    BY <1>3 DEF ReadAge
  <1>4. CASE p.method = "list_documents"
    <2>1. Query(p) = ListingQuery(<<>>, p.cursor)
      BY <1>4 DEF Query
    <2>2. ReadTexts(Query(p)) =
            {Param("prefix", x) : x \in {<<>>} \ {None, <<>>}} \cup
            {Param("cursor", x) : x \in {p.cursor} \ {None}}
      BY <1>1, <2>1, ListingsRead
    <2>3. p.prefix = None /\ p.status = None /\ p.min_age = 0 /\ p.limit = None /\ ~BreaksQuery(p)
      BY <1>2, <1>4 DEF BreaksQuery, JobListings
    <2>4. ReadTexts(Query(p)) = Meant(p)
      BY <2>2, <2>3 DEF Meant
    <2>5. Query(p).min_age = None /\ Query(p).limit = None
      BY <2>1 DEF ListingQuery, NoQuery
    <2> QED BY <1>3, <2>3, <2>4, <2>5
  <1>5. CASE p.method = "list_documents_with_prefix"
    <2>1. Query(p) = ListingQuery(p.prefix, p.cursor)
      BY <1>5 DEF Query
    <2>2. ReadTexts(Query(p)) =
            {Param("prefix", x) : x \in {p.prefix} \ {None, <<>>}} \cup
            {Param("cursor", x) : x \in {p.cursor} \ {None}}
      BY <1>1, <2>1, ListingsRead
    <2>3. p.status = None /\ p.min_age = 0 /\ p.limit = None /\ ~BreaksQuery(p)
      BY <1>2, <1>5 DEF BreaksQuery, JobListings
    <2>4. ReadTexts(Query(p)) = Meant(p)
      BY <2>2, <2>3 DEF Meant
    <2>5. Query(p).min_age = None /\ Query(p).limit = None
      BY <2>1 DEF ListingQuery, NoQuery
    <2> QED BY <1>3, <2>3, <2>4, <2>5
  <1>6. CASE p.method \in JobListings
    <2>1. Query(p) = push_filter(p.status, p.cursor, p.limit)
      BY <1>6 DEF Query, JobListings
    <2>2. p.prefix = None /\ p.min_age = 0
      BY <1>2, <1>6 DEF JobListings
    <2>3. (ReadTexts(Query(p)) =
             {Param("status", x) : x \in {p.status} \ {None}} \cup
             {Param("cursor", x) : x \in {p.cursor} \ {None}})
          <=> ~(p.cursor # None /\ \E i \in DOMAIN p.cursor : p.cursor[i] \in QueryDelimiters)
      BY <1>1, <1>2, <2>1, FiltersRead
    <2>4. BreaksQuery(p) <=>
            p.cursor # None /\ \E i \in DOMAIN p.cursor : p.cursor[i] \in QueryDelimiters
      BY <1>6 DEF BreaksQuery, JobListings
    <2>5. (ReadTexts(Query(p)) = Meant(p)) <=> ~BreaksQuery(p)
      <3>1. Meant(p) = {Param("status", x) : x \in {p.status} \ {None}} \cup
                       {Param("cursor", x) : x \in {p.cursor} \ {None}}
        BY <2>2 DEF Meant
      <3> QED BY <2>3, <2>4, <3>1
    <2>6. Query(p).min_age = None /\ Query(p).limit = p.limit
      BY <2>1 DEF push_filter, NoQuery
    <2> QED BY <1>3, <2>2, <2>5, <2>6
  <1>7. CASE p.method = "cleanup_orphans"
    <2>1. Query(p) = CleanupQuery(p.min_age, p.dry_run)
      BY <1>7 DEF Query
    <2>2. ReadAge(Query(p)) = p.min_age /\ ReadTexts(Query(p)) = {}
      BY <1>2, <2>1, AgesRead
    <2>3. p.prefix = None /\ p.cursor = None /\ p.status = None /\ p.limit = None
      BY <1>2, <1>7 DEF JobListings
    <2>4. Query(p).limit = None
      BY <2>1 DEF CleanupQuery, NoQuery
    <2> QED BY <2>2, <2>3, <2>4 DEF Meant, BreaksQuery
  <1>8. CASE p.method \notin {"list_documents", "list_documents_with_prefix", "cleanup_orphans"}
                            \cup JobListings
    <2>1. Query(p) = NoQuery
      BY <1>8 DEF Query, JobListings
    <2>2. ReadTexts(Query(p)) = {} /\ Query(p).min_age = None /\ Query(p).limit = None
      BY <2>1 DEF NoQuery, ReadTexts
    <2>3. /\ p.prefix = None /\ p.cursor = None /\ p.status = None /\ p.min_age = 0
          /\ p.limit = None
      BY <1>2, <1>8
    <2> QED BY <1>3, <2>2, <2>3 DEF Meant, BreaksQuery
  <1> QED BY <1>4, <1>5, <1>6, <1>7, <1>8 DEF JobListings

\* RequestsArrive: what leaves the client is the request that was meant, for the tenant
\* meant, but for the path arguments and the job cursors that are not encoded.
THEOREM RequestsAreRead == Spec => []RequestsArrive
  <1>1. ASSUME IInv, NEW c \in Calls, JustSent(c)
        PROVE  LET p == plan[c]
                   tenant == IF p.retarget # None THEN p.retarget ELSE client.tenant
               IN  /\ WellFormed(p) /\ request(c).query = Query(p)
                   /\ ClientOf(client, p).tenant = tenant /\ request(c).tenant = tenant
                   /\ p.op.scope = "own" => tenant # None
    <2>1. plan[c] # None /\ ~MissesTenant(client, plan[c])
      BY <1>1 DEF IInv, Begun, JustSent
    <2>2. WellFormed(plan[c])
      BY <1>1, <2>1, PlansWellFormed DEF IInv
    <2>3. /\ request(c).query = Query(plan[c])
          /\ request(c).tenant = ClientOf(client, plan[c]).tenant
      BY DEF request, Request
    <2>4. "tenant" \in DOMAIN client
      BY <1>1, ClientFields DEF IInv
    <2>5. ClientOf(client, plan[c]).tenant =
            IF plan[c].retarget # None THEN plan[c].retarget ELSE client.tenant
      BY <2>4 DEF ClientOf, with_tenant_id
    <2> QED BY <2>1, <2>2, <2>3, <2>5 DEF MissesTenant
  <1>2. ASSUME IInv, NEW c \in Calls, JustSent(c)
        PROVE  LET r == request(c)
                   p == plan[c]
                   path == Path(ClientOf(client, p).tenant, p)
               IN  /\ r.url.below = client.base.segments
                   /\ IF \A i \in DOMAIN path : Harmless(path[i])
                      THEN /\ r.url.path = path
                           /\ (ReadTexts(r.query) = Meant(p)) <=> ~BreaksQuery(p)
                           /\ r.query.limit = p.limit /\ ReadAge(r.query) = p.min_age
                      ELSE r.url.path # path
    <2>1. Chosen
      BY <1>2 DEF IInv
    <2>2. WellFormed(plan[c]) /\ request(c).query = Query(plan[c])
      BY <1>1, <1>2
    <2> QED BY <2>1, <2>2, PathsArrive, QueriesRead
  <1>3. IInv => RequestsArrive
    BY <1>1, <1>2 DEF RequestsArrive, Meant
  <1> QED BY <1>3, Invariance, PTL

-----------------------------------------------------------------------------
(* Servers of other releases *)

\* A request that sets no newer field, and is not compressed, is understood.
LEMMA OlderServersUnderstand ==
  ASSUME Chosen, NEW c \in Calls, plan[c] # None,
         plan[c].populated \subseteq Known(op(c).body, release),
         ~(client.compress /\ plan[c].large)
  PROVE  Understood(c)
  <1>1. Fits(op(c))
    BY PlansWellFormed, MethodsFit DEF WellFormed, op
  <1>2. Sendable(op(c).body)
    BY <1>1, SentAreSendable DEF Fits
  <1>3. op(c).body.fields \ op(c).body.optional \subseteq Known(op(c).body, release)
    BY <1>2 DEF Sendable, Known
  <1>4. keys(c) \subseteq Known(op(c).body, release)
    BY <1>3 DEF keys, Encode
  <1>5. ~Gzip(client, plan[c])
    BY DEF Gzip
  <1>6. op(c).verb # "GET" => ContentType(op(c))
    BY <1>1 DEF Fits, ContentType
  <1> QED BY <1>4, <1>5, <1>6 DEF Understood

\* What a server of any release answers is decoded, unless it is empty and should not be.
LEMMA RepliesAreDecoded ==
  ASSUME Chosen, NEW c \in Calls, plan[c] # None, NEW empty \in BOOLEAN
  PROVE  Decodes(op(c).reply, empty, Carried(c)) \/ (empty /\ op(c).reply.kind = "struct")
  <1>1. Fits(op(c))
    BY PlansWellFormed, MethodsFit DEF WellFormed, op
  <1>2. Decodable(op(c).reply)
    BY <1>1, ExpectedAreDecodable DEF Fits
  <1>3. CASE op(c).reply.kind \in {"unit", "value"}
    BY <1>3 DEF Decodes
  <1>4. CASE op(c).reply.kind = "struct"
    <2>1. /\ op(c).reply.required \subseteq op(c).reply.fields \ op(c).reply.optional
          /\ \A a \in op(c).reply.added : a.fields \cap op(c).reply.required = {}
      BY <1>2, <1>4 DEF Decodable
    <2>2. op(c).reply.required \subseteq Carried(c)
      BY <2>1 DEF Carried, Known
    <2> QED BY <1>4, <2>2 DEF Decodes
  <1> QED BY <1>2, <1>3, <1>4 DEF Decodable

\* Only what the server does not understand is a bad request, and every success decodes,
\* unless it is empty.
Served ==
  /\ \A c \in Calls :
       reply[c] # None /\ reply[c].status = "BadRequest" => ~Understood(c)
  /\ OlderRepliesDecode

\* Whether the server understands a call depends on the input alone.
LEMMA UnderstoodKept ==
  ASSUME UNCHANGED input, NEW c \in Calls
  PROVE  Understood(c)' <=> Understood(c)
  BY DEF input, Understood, keys, op

\* Steps without new replies or outcomes.
LEMMA ServedStays ==
  ASSUME Served, UNCHANGED input, outcome' = outcome, executed' = executed,
         \A c \in Calls : reply'[c] = reply[c] \/ reply'[c] = None
  PROVE  Served'
  <1>1. \A d \in Calls : op(d)' = op(d)
    BY DEF input, op
  <1> QED BY <1>1, UnderstoodKept DEF Served, OlderRepliesDecode

\* A call that ends with anything but a decoding error leaves Served alone, and so does one
\* that was executed and decodes nothing.
LEMMA ServedConcludes ==
  ASSUME IInv, Served, NEW c \in Calls, NEW kind, kind # "Decode", NEW r, Concludes(c, kind, r),
         kind = "DecodeNull" => op(c).reply.kind = "struct" /\ executed[c] # {},
         UNCHANGED <<input, executed>>
  PROVE  Served'
  <1>1. /\ reply' = [reply EXCEPT ![c] = None]
        /\ outcome' = [outcome EXCEPT ![c] =
             [kind |-> IF kind # "Ok" /\ plan[c].method = "version" THEN "Unknown" ELSE kind,
              saw |-> r.saw, wrote |-> r.wrote]]
    BY DEF Concludes
  <1>2. /\ \A d \in Calls : reply'[d] = reply[d] \/ reply'[d] = None
        /\ \A d \in Calls \ {c} : outcome'[d] = outcome[d]
        /\ outcome'[c].kind # "Decode"
        /\ outcome'[c].kind = "DecodeNull" => op(c).reply.kind = "struct" /\ executed[c] # {}
    BY <1>1 DEF IInv, Typed
  <1>3. \A d \in Calls : op(d)' = op(d)
    BY DEF input, op
  <1> QED BY <1>2, <1>3, UnderstoodKept DEF Served, OlderRepliesDecode

\* Every step preserves Served.
LEMMA ServedKept ==
  ASSUME IInv, Served, [Next]_vars
  PROVE  Served'
  <1>1. ASSUME NEW c \in Calls, Begin(c) \/ Drop(c)
        PROVE  Served'
    <2>1. /\ UNCHANGED input /\ outcome' = outcome /\ executed' = executed
          /\ reply' = reply \/ reply' = [reply EXCEPT ![c] = None]
      BY <1>1 DEF Begin, Drop
    <2> QED BY <2>1, ServedStays DEF IInv, Typed
  <1>2. ASSUME NEW c \in Calls, Resend(c), UNCHANGED <<input, executed>>
        PROVE  Served'
    <2>1. outcome' = outcome /\ reply' = [reply EXCEPT ![c] = None]
      BY <1>2 DEF Resend
    <2> QED BY <1>2, <2>1, ServedStays DEF IInv, Typed
  <1>3. ASSUME NEW c \in Calls, BeginWithoutTenant(c) \/ BodyFails(c)
        PROVE  Served'
    BY <1>3, ServedConcludes DEF BeginWithoutTenant, BodyFails
  <1>4. ASSUME NEW c \in Calls, Fault(c)
        PROVE  Served'
    BY <1>2, <1>4, ServedConcludes DEF Fault
  <1>5. ASSUME NEW c \in Calls, Fail(c)
        PROVE  Served'
    <2>1. pc[c] = "await" /\ reply[c] # None /\ UNCHANGED <<input, executed>>
      BY <1>5 DEF Fail
    <2>2. ErrorKind(reply[c].status) \notin {"Decode", "DecodeNull"}
      BY <2>1, ReplyFits DEF ErrorKind, Statuses
    <2> QED BY <1>2, <1>5, <2>1, <2>2, ServedConcludes DEF Fail
  <1>6. ASSUME NEW c \in Calls, Accept(c)
        PROVE  Served'
    <2>1. /\ pc[c] = "await" /\ UNCHANGED <<input, executed>>
          /\ reply[c] # None /\ reply[c].status = "Ok"
      BY <1>6 DEF Accept
    <2>2. plan[c] # None /\ executed[c] # {}
      BY <2>1 DEF IInv, Begun, RepliesHonest
    <2>3. \/ Concludes(c, "Ok", reply[c])
          \/ op(c).reply.kind = "struct" /\ Concludes(c, "DecodeNull", reply[c])
      <3>1. PICK empty \in BOOLEAN :
              Concludes(c, IF Decodes(op(c).reply, empty, Carried(c)) THEN "Ok"
                           ELSE IF empty THEN "DecodeNull" ELSE "Decode",
                        reply[c])
        BY <1>6 DEF Accept
      <3>2. Decodes(op(c).reply, empty, Carried(c)) \/ (empty /\ op(c).reply.kind = "struct")
        BY <2>2, RepliesAreDecoded DEF IInv
      <3> QED BY <3>1, <3>2
    <2> QED BY <2>1, <2>2, <2>3, ServedConcludes
  <1>7. ASSUME NEW c \in Calls, Refuse(c)
        PROVE  Served'
    <2>1. UNCHANGED input /\ outcome' = outcome /\ executed' = executed
      BY <1>7 DEF Refuse, calls
    <2>2. PICK status \in {"RateLimit", "Server", "BadRequest", "NotFound"} :
            /\ reply' = [reply EXCEPT ![c] = [status |-> status, wrote |-> FALSE, saw |-> None]]
            /\ status = "BadRequest" => ~Understood(c)
      BY <1>7 DEF Refuse
    <2>3. /\ reply'[c].status = "BadRequest" => ~Understood(c)
          /\ \A d \in Calls \ {c} : reply'[d] = reply[d]
      BY <2>2 DEF IInv, Typed
    <2>4. \A d \in Calls : op(d)' = op(d)
      BY <2>1 DEF input, op
    <2> QED BY <2>1, <2>3, <2>4, UnderstoodKept DEF Served, OlderRepliesDecode
  <1>8. ASSUME NEW c \in Calls, NEW i \in Transmissions, Execute(c, i)
        PROVE  Served'
    <2>1. PICK status \in Statuses \ {"RateLimit", "BadRequest"}, wrote \in BOOLEAN :
            Executes(c, i, status, wrote)
      BY <1>8, ExecuteWorks
    <2>2. UNCHANGED input /\ outcome' = outcome
      BY <2>1 DEF Executes, calls
    <2>3. /\ \A d \in Calls \ {c} : reply'[d] = reply[d]
          /\ reply'[c] = reply[c] \/ reply'[c].status = status
          /\ \A d \in Calls : executed[d] \subseteq executed'[d]
      BY <2>1 DEF Executes, IInv, Typed
    <2>4. \A d \in Calls : op(d)' = op(d)
      BY <2>2 DEF input, op
    <2> QED BY <2>1, <2>2, <2>3, <2>4, UnderstoodKept DEF Served, OlderRepliesDecode
  <1>9. ASSUME NEW p \in DOMAIN last, JobEnds(p)
        PROVE  Served'
    <2>1. UNCHANGED input /\ outcome' = outcome /\ reply' = reply /\ executed' = executed
      BY <1>9 DEF JobEnds, calls
    <2> QED BY <2>1, ServedStays
  <1>10. CASE UNCHANGED vars
    <2>1. UNCHANGED input /\ outcome' = outcome /\ reply' = reply /\ executed' = executed
      BY <1>10 DEF vars, calls
    <2> QED BY <2>1, ServedStays
  <1> QED BY <1>1, <1>3, <1>4, <1>5, <1>6, <1>7, <1>8, <1>9, <1>10 DEF Next

\* Only requests that are not understood are malformed, and every reply decodes.
LEMMA ServedInvariance == Spec => []Served
  <1>1. Init => Served
    BY DEF Init, Served, OlderRepliesDecode
  <1>2. IInv /\ Served /\ [Next]_vars => Served'
    BY ServedKept
  <1> QED BY <1>1, <1>2, Invariance, PTL DEF Spec

\* OlderServersServed: no request is malformed for a server of an older release unless its
\* caller set a newer field or asked for compression.
THEOREM OlderServersAreServed == Spec => []OlderServersServed
  <1>1. ASSUME IInv, Served, NEW c \in Calls, reply[c] # None, reply[c].status = "BadRequest",
               plan[c].populated \subseteq Known(op(c).body, release)
        PROVE  client.compress /\ plan[c].large
    <2>1. plan[c] # None
      BY <1>1 DEF IInv, TypeOK, Begun
    <2> QED BY <1>1, <2>1, OlderServersUnderstand DEF IInv, Served
  <1>2. IInv /\ Served => OlderServersServed
    BY <1>1 DEF OlderServersServed
  <1> QED BY <1>2, Invariance, ServedInvariance, PTL

\* OlderRepliesDecode: what a server of any release answers is decoded; only an empty body in
\* the place of one of a fixed form is not, and then the request was executed.
THEOREM OlderRepliesAreDecoded == Spec => []OlderRepliesDecode
  <1>1. Served => OlderRepliesDecode
    BY DEF Served
  <1> QED BY <1>1, ServedInvariance, PTL
=============================================================================
