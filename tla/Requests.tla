------------------------------- MODULE Requests -------------------------------
(***************************************************************************)
(* The request a method of Client sends (src/src/client.rs: with_tenant_id, *)
(* require_tenant, url, request, the body part of send_json; the queries of *)
(* documents.rs and jobs.rs), and what a server reads from it.  A text is a *)
(* sequence of characters.  A path is a sequence of texts, its segments; in *)
(* it a word of the code is a text of one character.                        *)
(***************************************************************************)
EXTENDS Endpoints, Durations

CONSTANTS None,             \* no tenant, no argument
          Org,              \* the organisation that callers name, a text
          Unreserved,       \* the characters that urlencode leaves as they are
          QueryDelimiters,  \* those that end or change a value of a query: & # + %
          PathDelimiters,   \* those that end or change a segment of a path: / \ ? # %
          DotSegments       \* the texts that a path resolves: . and ..

ASSUME UnreservedAssumption == Unreserved \cap QueryDelimiters = {}

\* A client: its tenant, its base URL [segments, slash] and compress_requests.  A plan is
\* a method, its entry in Ops, and its arguments: tenant for with_tenant_id or None, the
\* tenant named, args for the other PathArguments, the fields set in the body, whether the
\* body reaches GZIP_THRESHOLD_BYTES, the query.

\* Mutant: the derived client keeps the tenant it was cloned with.
with_tenant_id_cloned(client, tenant) == client

with_tenant_id(client, tenant) == [client EXCEPT !.tenant = tenant]

ClientOf(client, plan) ==
  IF plan.retarget = None THEN client ELSE with_tenant_id(client, plan.retarget)

\* require_tenant fails: Error::Builder, nothing is sent.
MissesTenant(client, plan) ==
  plan.op.scope = "own" /\ ClientOf(client, plan).tenant = None

\* What the format strings have a {} for.
PathArguments ==
  {"tenant", "named", "org", "index_id", "resource_id", "doc_id", "chunk_id", "job_id",
   "user_id", "key_id"}

Argument(tenant, plan, name) ==
  CASE name = "tenant" -> tenant
    [] name = "named" -> plan.named
    [] name = "org" -> Org
    [] OTHER -> plan.args[name]

Top(scope) ==
  CASE scope = "own" -> <<"v1", "tenants", "tenant">>
    [] scope = "tenant" -> <<"v1", "tenants", "named">>
    [] scope = "org" -> <<"v1", "orgs", "org">>
    [] scope = "server" -> <<>>

\* format!("v1/tenants/{}/...") and its like: the arguments go in as they are.
Path(tenant, plan) ==
  LET form == Top(plan.op.scope) \o plan.op.path IN
  [i \in DOMAIN form |->
     IF form[i] \in PathArguments THEN Argument(tenant, plan, form[i]) ELSE <<form[i]>>]

\* Does this text, as a segment of a path, stay what it is?
Harmless(text) ==
  /\ text # <<>> /\ text \notin DotSegments
  /\ \A i \in DOMAIN text : text[i] \notin PathDelimiters

\* What a path is parsed as; <<>>, which is no method's, stands for whatever a path that
\* was broken is parsed as instead.
ReadPath(path) == IF \A i \in DOMAIN path : Harmless(path[i]) THEN path ELSE <<>>

\* Url::join: a base that does not end in a slash loses its last segment.
Join(base, path) ==
  [below |-> IF base.slash THEN base.segments
             ELSE SubSeq(base.segments, 1, Len(base.segments) - 1),
   path |-> ReadPath(path)]

url(base, path) == Join([base EXCEPT !.slash = TRUE], path)
-----------------------------------------------------------------------------
(* Queries. *)

\* The text as it is; each character not of its own meaning as %XX.
Literally(text) == [i \in DOMAIN text |-> [char |-> text[i], escaped |-> FALSE]]
urlencode(text) ==
  [i \in DOMAIN text |-> [char |-> text[i], escaped |-> text[i] \notin Unreserved]]

Param(name, value) == [name |-> name, value |-> value]
NoQuery == [texts |-> {}, limit |-> None, min_age |-> None, dry_run |-> FALSE]

\* Mutant: the cursor goes into the query as the server gave it.
ListingQueryLiteral(prefix, cursor) ==
  [NoQuery EXCEPT !.texts =
     {Param("prefix", urlencode(x)) : x \in {prefix} \ {None, <<>>}} \cup
     {Param("cursor", Literally(x)) : x \in {cursor} \ {None}}]

ListingQuery(prefix, cursor) ==
  [NoQuery EXCEPT !.texts =
     {Param("prefix", urlencode(x)) : x \in {prefix} \ {None, <<>>}} \cup
     {Param("cursor", urlencode(x)) : x \in {cursor} \ {None}}]

\* Neither the status, a word, nor the limit, a number, needs encoding; the cursor is not
\* encoded either.
push_filter(status, cursor, limit) ==
  [NoQuery EXCEPT !.texts =
     {Param("status", Literally(x)) : x \in {status} \ {None}} \cup
     {Param("cursor", Literally(x)) : x \in {cursor} \ {None}},
                  !.limit = limit]

\* Zero is left out and stands for the server's default.
CleanupQuery(min_age, dry_run) ==
  [NoQuery EXCEPT !.min_age = IF min_age = 0 THEN None ELSE format_duration(min_age),
                  !.dry_run = dry_run]

Query(plan) ==
  CASE plan.method = "list_documents" -> ListingQuery(<<>>, plan.cursor)
    [] plan.method = "list_documents_with_prefix" -> ListingQuery(plan.prefix, plan.cursor)
    [] plan.method \in {"list_jobs", "list_tenant_jobs"} ->
         push_filter(plan.status, plan.cursor, plan.limit)
    [] plan.method = "cleanup_orphans" -> CleanupQuery(plan.min_age, plan.dry_run)
    [] OTHER -> NoQuery

\* A delimiter that is not escaped ends the value or changes it.
ReadText(value) ==
  IF \E i \in DOMAIN value : ~value[i].escaped /\ value[i].char \in QueryDelimiters
  THEN None ELSE [i \in DOMAIN value |-> value[i].char]

ReadTexts(query) == {Param(p.name, ReadText(p.value)) : p \in query.texts}
ReadAge(query) == IF query.min_age = None THEN 0 ELSE ParseDuration(query.min_age)
-----------------------------------------------------------------------------
(* The request. *)

Gzip(client, plan) == client.compress /\ plan.large

\* The header goes out with a body, and without one when the request is to change something.
ContentType(op) == op.body.kind # "nothing" \/ op.verb \in {"POST", "PUT", "PATCH", "DELETE"}

Request(client, plan) ==
  LET op == plan.op
      sender == ClientOf(client, plan)
  IN  [verb |-> op.verb, url |-> url(sender.base, Path(sender.tenant, plan)),
       tenant |-> sender.tenant, query |-> Query(plan),
       keys |-> Encode(op.body, plan.populated), typed |-> ContentType(op),
       gzip |-> Gzip(client, plan)]
=============================================================================
