-------------------------------- MODULE MCApi --------------------------------
(***************************************************************************)
(* Api on small instances: every method on its own, with the arguments,     *)
(* clients and servers that make a difference, and pairs of calls that meet *)
(* at one resource.                                                         *)
(***************************************************************************)
EXTENDS Api, TLC

CONSTANTS c1, c2

\* Characters: "a" and "." mean themselves everywhere, "&" and "#" do not in a query, "/"
\* and "#" not in a path.
MCOrg == <<"a">>
t1 == <<"a">>
t2 == <<"a", "a">>
MCDotSegments == {<<".">>, <<".", ".">>}

Root == [segments |-> <<>>, slash |-> TRUE]
Prefixed == [segments |-> <<<<"proxy">>>>, slash |-> FALSE]
PrefixedSlash == [segments |-> <<<<"proxy">>>>, slash |-> TRUE]

Client(tenant, base, compress) == [tenant |-> tenant, base |-> base, compress |-> compress]
Plain == Client(t1, Root, FALSE)

Call(method, populated) ==
  [method |-> method, op |-> Ops[method], retarget |-> None, named |-> t1,
   args |-> [a \in PathArguments |-> <<"a">>],
   populated |-> populated, large |-> FALSE, prefix |-> None, cursor |-> None,
   status |-> None, limit |-> None, min_age |-> 0, dry_run |-> FALSE]

Current == 8
Releases == 2..Current
Scenario(cl, first, second, rel, found) ==
  [client |-> cl, plan |-> c1 :> first @@ c2 :> second, release |-> rel, found |-> found]
Alone(cl, pl, rel) == Scenario(cl, pl, None, rel, TRUE)

\* The fields set in a body: none, those known to a server of that release, all.
Populations(m, rel) ==
  LET body == Ops[m].body
  IN  {{}, body.optional \cap Known(body, rel), body.optional}

OldServers ==
  UNION {{Alone(Plain, Call(m, pop), rel) : pop \in Populations(m, rel)} :
            m \in Methods, rel \in Releases}

Addresses ==
  {Alone(Client(own, base, FALSE), [Call(m, {}) EXCEPT !.retarget = other], Current) :
     m \in Methods, own \in {t1, None}, other \in {t2, None},
     base \in {Root, Prefixed, PrefixedSlash}}

LargeBodies ==
  {Alone(Client(t1, Root, compress), [Call(m, {}) EXCEPT !.large = TRUE], Current) :
     compress \in BOOLEAN,
     m \in {"add_documents", "import_documents", "sync_documents", "search",
            "upsert_resource", "bulk_delete_documents"}}

\* Arguments that break a path, and some that do not.
Strays ==
  {Alone(Plain, [Call(m, {}) EXCEPT !.args = [@ EXCEPT ![a] = x]], Current) :
     a \in {"index_id", "resource_id", "doc_id", "chunk_id", "job_id", "user_id", "key_id"},
     m \in {"upsert_resource", "get_document", "get_chunk", "get_job", "list_user_indexes",
            "revoke_api_key"},
     x \in {<<>>, <<".">>, <<".", ".">>, <<"a", "/", "a">>, <<"a", "#">>, <<"a", "&">>,
            <<"a", ".">>}}
  \cup
  {Alone(Client(x, Root, FALSE), [Call(m, {}) EXCEPT !.named = x], Current) :
     m \in {"delete_index", "get_tenant", "list_indexes_in_tenant"},
     x \in {<<>>, <<".", ".">>, <<"a", "/">>, <<"&">>}}

Texts == {<<>>, <<"a">>, <<"&">>, <<"a", "&">>, <<"&", "a">>}

Pages ==
  {Alone(Plain, [Call("list_documents_with_prefix", {}) EXCEPT !.prefix = x, !.cursor = y],
         Current) : x \in Texts, y \in Texts \cup {None}}
  \cup
  {Alone(Plain, [Call("list_documents", {}) EXCEPT !.cursor = y], Current) :
     y \in Texts \cup {None}}
  \cup
  {Alone(Plain, [Call(m, {}) EXCEPT !.status = x, !.cursor = y, !.limit = n], Current) :
     m \in {"list_jobs", "list_tenant_jobs"}, x \in {<<"a">>, None}, n \in {None, 0, 5},
     y \in Texts \cup {None, <<"/">>}}

\* Around every change of unit, with Kilo = 10.
Ages ==
  {0, 1, Micro - 1, Micro, Micro + 1, Milli, Milli + Micro, Second, Second + Milli,
   59 * Second, Minute, Minute + Second, 61 * Second + 1, Hour - Second, Hour,
   Hour + Second, Hour + Minute, Hour + Minute + Second, 25 * Hour + 61 * Second}

Cleanups ==
  {Alone(Plain, [Call("cleanup_orphans", {}) EXCEPT !.min_age = age, !.dry_run = dry],
         Current) : age \in Ages, dry \in BOOLEAN}

\* Calls that meet at a resource, or at a tenant and what it holds.
Groups ==
  {<<Call("create_tenant", {"id"}), Call("create_tenant", {}), Call("delete_tenant", {})>>,
   <<Call("upsert_resource", {}), Call("delete_tenant", {})>>,
   <<Call("create_index", {"id"}), Call("update_index", {"name"}),
     Call("update_index", {"description"}), Call("delete_index", {}), Call("get_index", {})>>,
   <<Call("add_documents", {}), Call("add_documents", {"id", "upsert"}),
     Call("clear_index", {}), Call("search", {})>>,
   <<Call("sync_documents", {"resource_id"}), Call("multi_search", {})>>,
   <<Call("compact_index", {}), Call("rebuild_graph", {})>>,
   <<Call("update_llm_settings", {"provider", "base_url"}),
     Call("update_llm_settings", {"temperature"}), Call("delete_llm_settings", {})>>}

\* Every two of a group, the same method twice included, from a server that holds the
\* resource or does not.
Pairs ==
  UNION {{Scenario(Plain, g[i[1]], g[i[2]], Current, found) :
            i \in {j \in (1..Len(g)) \X (1..Len(g)) : j[1] <= j[2]}, found \in BOOLEAN} :
         g \in Groups}

MCScenarios ==
  OldServers \cup Addresses \cup Strays \cup LargeBodies \cup Pages \cup Cleanups \cup Pairs

\* A search with rerank at a server of the release before the field.
MCRerank == {Alone(Plain, Call("search", {"query", "rerank"}), 5)}
=============================================================================
