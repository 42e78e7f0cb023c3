--------------------------------- MODULE Api ---------------------------------
(***************************************************************************)
(* Calls of the methods of Client against one server: the requests they     *)
(* send, the retries of send_json, a server that executes each transmission *)
(* at most once but perhaps late, and what that does to its resources.  The *)
(* retry loop is reduced to what the resources depend on (SendJson has it   *)
(* in full): there are no delays, and a refusal stands for 429 and 503.     *)
(***************************************************************************)
EXTENDS Requests, FiniteSets

CONSTANTS Calls,       \* calls of a method
          MaxRetries,  \* ClientConfig.max_retries
          Scenarios    \* clients, plans, and servers they may meet

ASSUME RetriesAssumption == MaxRetries \in Nat

\* A plan has the arguments its method takes, and sets fields that its body has.
WellFormed(pl) ==
  /\ pl.method \in Methods /\ pl.op = Ops[pl.method]
  /\ pl.populated \subseteq pl.op.body.fields
  /\ pl.prefix # None => pl.method = "list_documents_with_prefix"
  /\ pl.cursor # None =>
       pl.method \in {"list_documents", "list_documents_with_prefix", "list_jobs",
                      "list_tenant_jobs"}
  /\ pl.status # None =>
       /\ pl.method \in {"list_jobs", "list_tenant_jobs"}
       /\ \A i \in DOMAIN pl.status : pl.status[i] \in Unreserved
  /\ pl.limit # None => pl.method \in {"list_jobs", "list_tenant_jobs"}
  /\ \A text \in {pl.prefix, pl.cursor, pl.status} \ {None} :
       text = [i \in DOMAIN text |-> text[i]]
  /\ pl.min_age \in Nat
  /\ pl.min_age # 0 => pl.method = "cleanup_orphans"

ASSUME ScenariosAssumption ==
  \A s \in Scenarios :
    /\ s.found \in BOOLEAN
    /\ DOMAIN s.client = {"tenant", "base", "compress"}
    /\ DOMAIN s.client.base = {"segments", "slash"}
    /\ \A c \in Calls : s.plan[c] # None => WellFormed(s.plan[c])

\* What a call may return.
Kinds ==
  {"Ok", "Decode", "DecodeNull", "Builder", "Network", "RateLimit", "Server", "NotFound",
   "Conflict", "Unknown"}

\* No outcome, reply or text is taken for None.
ASSUME NoneAssumption ==
  /\ None \notin Calls \cup Kinds
  /\ None \notin [kind : Kinds, saw : Calls \cup {None}, wrote : BOOLEAN]
  /\ None \notin [ns : Nat] \cup [us : Nat] \cup [ms : Nat] \cup [s : Nat]
  /\ None \notin [m : Nat, s : Nat] \cup [h : Nat, m : Nat, s : Nat]

VARIABLES client,    \* the client calls are made through, or derived from
          plan,      \* plan[c]: what c calls, or None
          release,   \* the release whose fields the server knows
          pc,        \* pc[c]: "idle", "await", "done" or "dropped"
          sent,      \* sent[c]: transmissions of c's request
          transit,   \* transit[c]: the transmissions the server has not handled
          executed,  \* executed[c]: the transmissions it has executed
          reply,     \* reply[c]: its reply to the last of them, or None
          outcome,   \* outcome[c]: what c returned
          reports,   \* reports[c]: calls of on_retry with "network"
          last,      \* last[p]: does the server hold p, and who last made it so
          writer,    \* writer[p][f]: who last set field f of p
          minted,    \* minted[c]: resources of their own that c created
          ended      \* history: ended[c], the calls that were over when c began

input == <<client, plan, release>>
store == <<last, writer, minted>>
calls == <<pc, sent, outcome, reports, ended>>
vars == <<input, calls, transit, executed, reply, store>>

Transmissions == 1..MaxRetries + 1

op(c) == plan[c].op
request(c) == Request(client, plan[c])
keys(c) == Encode(op(c).body, plan[c].populated)
DryRun(c) == Query(plan[c]).dry_run
-----------------------------------------------------------------------------
(* The server's resources: one of each kind under a tenant, an organisation or the server. *)

OwnerOf(cl, pl) ==
  CASE pl.op.scope = "own" -> ClientOf(cl, pl).tenant
    [] pl.op.scope = "tenant" \/ pl.method = "create_tenant" -> pl.named
    [] pl.op.scope = "org" -> Org
    [] OTHER -> None

PlaceOf(cl, pl) == <<OwnerOf(cl, pl), pl.op.place>>

place(c) == PlaceOf(client, plan[c])

\* The places the calls are about.
Places == {place(c) : c \in {d \in Calls : plan[d] # None}}

PartsOf(p) ==
  CASE p[2] = "index" -> UpdateIndexRequest.fields
    [] p[2] = "settings" -> LlmSettings.fields
    [] OTHER -> {}

Held(found, by) == [found |-> found, by |-> by]

Init ==
  /\ \E s \in Scenarios :
       /\ client = s.client /\ plan = s.plan /\ release = s.release
       /\ last = [p \in Places |-> Held(s.found, None)]
       /\ writer = [p \in Places |-> [f \in PartsOf(p) |-> None]]
  /\ pc = [c \in Calls |-> "idle"]
  /\ sent = [c \in Calls |-> 0]
  /\ transit = [c \in Calls |-> {}]
  /\ executed = [c \in Calls |-> {}]
  /\ reply = [c \in Calls |-> None]
  /\ outcome = [c \in Calls |-> None]
  /\ reports = [c \in Calls |-> 0]
  /\ minted = [c \in Calls |-> 0]
  /\ ended = [c \in Calls |-> {}]
-----------------------------------------------------------------------------
(* The server. *)

\* Unknown fields, compressed bodies, and changes without a Content-Type are bad requests.
Understood(c) ==
  /\ keys(c) \subseteq Known(op(c).body, release)
  /\ ~Gzip(client, plan[c])
  /\ op(c).verb # "GET" => ContentType(op(c))

\* Is the path the one of the method?
Routed(c) ==
  LET tenant == ClientOf(client, plan[c]).tenant
  IN  request(c).url = [below |-> client.base.segments, path |-> Path(tenant, plan[c])]

Awaited(c, i) == pc[c] = "await" /\ i = sent[c]

\* A reply to an earlier transmission, or to a call that is over, goes nowhere.
Executes(c, i, status, wrote) ==
  /\ transit' = [transit EXCEPT ![c] = @ \ {i}]
  /\ executed' = [executed EXCEPT ![c] = @ \cup {i}]
  /\ reply' = [reply EXCEPT ![c] =
       IF Awaited(c, i)
       THEN [status |-> status, wrote |-> wrote, saw |-> last[place(c)].by]
       ELSE @]
  /\ UNCHANGED <<input, calls>>

\* Work done may still be answered with an error.
Confirms(c, i, wrote) == Executes(c, i, "Ok", wrote) \/ Executes(c, i, "Server", wrote)

\* The request is not worked on.  Nothing is at the path of one that strays.
Refuse(c) ==
  /\ pc[c] = "await" /\ sent[c] \in transit[c]
  /\ transit' = [transit EXCEPT ![c] = @ \ {sent[c]}]
  /\ \E status \in IF ~Routed(c) THEN {"RateLimit", "Server", "NotFound"}
                   ELSE IF Understood(c) THEN {"RateLimit", "Server"} ELSE {"BadRequest"} :
       reply' = [reply EXCEPT ![c] =
                   [status |-> status, wrote |-> FALSE, saw |-> None]]
  /\ UNCHANGED <<input, calls, executed, store>>

Holds(c) ==
  /\ last' = [last EXCEPT ![place(c)] = Held(TRUE, c)]
  /\ writer' = [writer EXCEPT ![place(c)] = [f \in DOMAIN @ |-> c]]
  /\ UNCHANGED minted

\* A tenant goes with all that is its own.
Clears(c) ==
  /\ last' = [p \in DOMAIN last |->
       IF p = place(c) \/ (place(c)[2] = "tenant" /\ p[1] = place(c)[1])
       THEN Held(FALSE, c) ELSE last[p]]
  /\ UNCHANGED <<writer, minted>>

Read(c, i) ==
  /\ op(c).effect = "read" \/ DryRun(c)
  /\ \/ Executes(c, i, "Ok", FALSE)
     \/ ~last[place(c)].found /\ Executes(c, i, "NotFound", FALSE)
  /\ UNCHANGED store

\* Does the request say which resource it creates?
Names(c) ==
  \/ op(c).effect = "create" /\ "id" \in keys(c)
  \/ /\ op(c).effect = "ingest"
     /\ \/ "id" \in keys(c) /\ {"upsert", "vector"} \cap keys(c) # {}
        \/ "resource_id" \in keys(c)

\* Without a name every transmission makes a resource of its own.
Mints(c) == op(c).effect \in {"create", "ingest"} /\ ~Names(c)

\* Create or fetch.
CreateNamed(c, i) ==
  /\ op(c).effect = "create" /\ Names(c)
  /\ Confirms(c, i, ~last[place(c)].found)
  /\ IF last[place(c)].found THEN UNCHANGED store ELSE Holds(c)

CreateNew(c, i) ==
  /\ Mints(c)
  /\ Confirms(c, i, TRUE)
  /\ minted' = [minted EXCEPT ![c] = @ + 1]
  /\ UNCHANGED <<last, writer>>

Replace(c, i) ==
  /\ op(c).effect = "replace" \/ (op(c).effect = "ingest" /\ Names(c))
  /\ Confirms(c, i, TRUE)
  /\ Holds(c)

\* The fields in the body overwrite, the others stay.
Merge(c, i) ==
  /\ op(c).effect = "merge" /\ last[place(c)].found
  /\ Confirms(c, i, TRUE)
  /\ last' = [last EXCEPT ![place(c)] = Held(TRUE, c)]
  /\ writer' = [writer EXCEPT ![place(c)] =
                  [f \in DOMAIN @ |-> IF f \in keys(c) THEN c ELSE @[f]]]
  /\ UNCHANGED minted

Clear(c, i) ==
  /\ op(c).effect \in {"remove", "sweep"} /\ last[place(c)].found /\ ~DryRun(c)
  /\ Confirms(c, i, TRUE)
  /\ Clears(c)

\* Nothing there: a removal says so, a sweep counts zero.
Miss(c, i) ==
  /\ op(c).effect \in {"remove", "sweep", "merge"} /\ ~last[place(c)].found /\ ~DryRun(c)
  /\ Executes(c, i, IF op(c).effect = "sweep" THEN "Ok" ELSE "NotFound", FALSE)
  /\ UNCHANGED store

\* A job that runs is a resource that is held.
Start(c, i) ==
  /\ op(c).effect = "start" /\ ~last[place(c)].found
  /\ Confirms(c, i, TRUE)
  /\ Holds(c)

Exclude(c, i) ==
  /\ op(c).effect = "exclude" /\ ~last[place(c)].found
  /\ Confirms(c, i, FALSE)
  /\ UNCHANGED store

Clash(c, i) ==
  /\ op(c).effect \in {"start", "exclude"} /\ last[place(c)].found
  /\ Executes(c, i, "Conflict", FALSE)
  /\ UNCHANGED store

\* The server works on a transmission, whether or not the call still waits.
Execute(c, i) ==
  /\ i \in transit[c] /\ Routed(c) /\ Understood(c)
  /\ \/ Read(c, i) \/ CreateNamed(c, i) \/ CreateNew(c, i) \/ Replace(c, i) \/ Merge(c, i)
     \/ Clear(c, i) \/ Miss(c, i) \/ Start(c, i) \/ Exclude(c, i) \/ Clash(c, i)

JobEnds(p) ==
  /\ p[2] = "graph" /\ last[p].found
  /\ last' = [last EXCEPT ![p] = Held(FALSE, None)]
  /\ UNCHANGED <<input, calls, transit, executed, reply, writer, minted>>
-----------------------------------------------------------------------------
(* The client. *)

Over(c) == pc[c] \in {"done", "dropped"}

Begin(c) ==
  /\ plan[c] # None /\ pc[c] = "idle"
  /\ ~MissesTenant(client, plan[c])
  /\ pc' = [pc EXCEPT ![c] = "await"]
  /\ sent' = [sent EXCEPT ![c] = 1]
  /\ transit' = [transit EXCEPT ![c] = {1}]
  /\ ended' = [ended EXCEPT ![c] = {d \in Calls : Over(d)}]
  /\ UNCHANGED <<input, executed, reply, outcome, reports, store>>

\* version() has no error: it answers that it does not know.
Concludes(c, kind, r) ==
  /\ pc' = [pc EXCEPT ![c] = "done"]
  /\ outcome' = [outcome EXCEPT ![c] =
       [kind |-> IF kind # "Ok" /\ plan[c].method = "version" THEN "Unknown" ELSE kind,
        saw |-> r.saw, wrote |-> r.wrote]]
  /\ reply' = [reply EXCEPT ![c] = None]
  /\ UNCHANGED <<sent, transit>>

NoReply == [saw |-> None, wrote |-> FALSE]

BeginWithoutTenant(c) ==
  /\ plan[c] # None /\ pc[c] = "idle"
  /\ MissesTenant(client, plan[c])
  /\ Concludes(c, "Builder", NoReply)
  /\ UNCHANGED <<input, executed, reports, ended, store>>

\* Mutant: server errors are retried too.
RetryableAlsoServer(status) == status \in {"RateLimit", "Server"}

Retryable(status) == status = "RateLimit"

\* Mutant: max_retries counts from zero.
ResendOnceMore(c) ==
  /\ sent[c] <= MaxRetries + 1
  /\ sent' = [sent EXCEPT ![c] = @ + 1]
  /\ transit' = [transit EXCEPT ![c] = @ \cup {sent[c] + 1}]
  /\ reply' = [reply EXCEPT ![c] = None]
  /\ UNCHANGED <<pc, outcome>>

Resend(c) ==
  /\ sent[c] <= MaxRetries
  /\ sent' = [sent EXCEPT ![c] = @ + 1]
  /\ transit' = [transit EXCEPT ![c] = @ \cup {sent[c] + 1}]
  /\ reply' = [reply EXCEPT ![c] = None]
  /\ UNCHANGED <<pc, outcome>>

\* The fields a server of this release puts into a reply; it may leave optional ones out.
Carried(c) == Known(op(c).reply, release) \ op(c).reply.optional

\* Mutant: the body is decoded whatever the status.
AcceptAnyStatus(c) ==
  /\ pc[c] = "await" /\ reply[c] # None
  /\ Concludes(c, "Ok", reply[c])
  /\ UNCHANGED <<input, executed, reports, ended, store>>

\* request_json and request_empty; an empty body is read as null.
Accept(c) ==
  /\ pc[c] = "await" /\ reply[c] # None /\ reply[c].status = "Ok"
  /\ \E empty \in BOOLEAN :
       Concludes(c, IF Decodes(op(c).reply, empty, Carried(c)) THEN "Ok"
                    ELSE IF empty THEN "DecodeNull" ELSE "Decode",
                 reply[c])
  /\ UNCHANGED <<input, executed, reports, ended, store>>

ErrorKind(status) == IF status = "BadRequest" THEN "Server" ELSE status

Fail(c) ==
  /\ pc[c] = "await" /\ reply[c] # None /\ reply[c].status # "Ok"
  /\ \/ Retryable(reply[c].status) /\ Resend(c)
     \/ ~(Retryable(reply[c].status) /\ sent[c] <= MaxRetries)
        /\ Concludes(c, ErrorKind(reply[c].status), reply[c])
  /\ UNCHANGED <<input, executed, reports, ended, store>>

\* Mutant: of the two copies of the retry, this one forgets the hook.
FaultUnreported(c) ==
  /\ pc[c] = "await"
  /\ Resend(c) \/ (sent[c] > MaxRetries /\ Concludes(c, "Network", NoReply))
  /\ UNCHANGED <<input, executed, reports, ended, store>>

\* A transport error, whatever became of the request: retried, and reported.
Fault(c) ==
  /\ pc[c] = "await"
  /\ \/ Resend(c) /\ reports' = [reports EXCEPT ![c] = @ + 1]
     \/ sent[c] > MaxRetries /\ Concludes(c, "Network", NoReply) /\ UNCHANGED reports
  /\ UNCHANGED <<input, executed, ended, store>>

\* The body of a success cannot be read: not retried.
BodyFails(c) ==
  /\ pc[c] = "await" /\ reply[c] # None /\ reply[c].status = "Ok"
  /\ Concludes(c, "Network", NoReply)
  /\ UNCHANGED <<input, executed, reports, ended, store>>

Drop(c) ==
  /\ pc[c] = "await"
  /\ pc' = [pc EXCEPT ![c] = "dropped"]
  /\ reply' = [reply EXCEPT ![c] = None]
  /\ UNCHANGED <<input, sent, transit, executed, outcome, reports, ended, store>>

Next ==
  \/ \E c \in Calls :
       \/ Begin(c) \/ BeginWithoutTenant(c)
       \/ Accept(c) \/ Fail(c) \/ Fault(c) \/ BodyFails(c) \/ Drop(c)
       \/ Refuse(c) \/ \E i \in Transmissions : Execute(c, i)
  \/ \E p \in DOMAIN last : JobEnds(p)

Spec == Init /\ [][Next]_vars
-----------------------------------------------------------------------------
(* Properties *)

\* What a caller learns of trouble: an on_retry for the network, an Error::Network, or that
\* it dropped the call itself.
Troubled(c) ==
  \/ reports[c] > 0 \/ pc[c] = "dropped"
  \/ outcome[c] # None /\ outcome[c].kind = "Network"

\* A retry sends the same request again.
JustSent(c) == pc[c] = "await" /\ sent[c] = 1 /\ reply[c] = None

Succeeded(c) == outcome[c] # None /\ outcome[c].kind = "Ok"

TypeOK ==
  /\ pc \in [Calls -> {"idle", "await", "done", "dropped"}]
  /\ sent \in [Calls -> 0..MaxRetries + 1]
  /\ \A c \in Calls : transit[c] \cup executed[c] \subseteq 1..sent[c]
  /\ \A c \in Calls : reply[c] # None => pc[c] = "await" /\ sent[c] \notin transit[c]
  /\ \A c \in Calls : outcome[c] # None => pc[c] = "done" /\ outcome[c].kind \in Kinds
  /\ reports \in [Calls -> 0..MaxRetries] /\ minted \in [Calls -> 0..MaxRetries + 1]
  /\ \A p \in DOMAIN last : last[p] \in [found : BOOLEAN, by : Calls \cup {None}]
  /\ \A p \in DOMAIN writer : writer[p] \in [PartsOf(p) -> Calls \cup {None}]
  /\ ended \in [Calls -> SUBSET Calls]

\* A call answered without trouble is answered about others: that the resource exists
\* already ("update", Conflict), is gone already (NotFound, a count of zero) or holds this
\* or that is never its own doing, although its request may have been sent several times.
AnswersAreAboutOthers ==
  \A c \in Calls : outcome[c] # None /\ outcome[c].saw = c => Troubled(c)

\* A write that was acknowledged stands until a call that had not ended when it began
\* writes again.  Only calls whose callers saw trouble come back from the past.
AcknowledgedWritesStand ==
  \A c \in Calls :
    Succeeded(c) /\ outcome[c].wrote /\ ~Mints(c) =>
      LET d == last[place(c)].by IN d \in ended[c] => Troubled(d)

\* tenants.rs:16-17 and its like: a call that names what it creates never creates another,
\* however often it is sent; other creations are repeated only when a fault was reported.
CreatesCounted ==
  \A c \in Calls :
    /\ minted[c] <= 1 + reports[c]
    /\ plan[c] # None /\ op(c).effect = "create" /\ "id" \in plan[c].populated =>
         minted[c] = 0

\* types.rs:177-178, "Only the supplied keys are updated", and settings.rs:26-27: partial
\* updates, of an index or of the LLM settings, that set different fields all stand once
\* acknowledged, in whatever order and however often they arrive.  `provider` and `model`
\* (types.rs:1053-1057) are excepted: they are sent whether or not they are set, and so
\* overwrite what the caller left out.
PartialUpdatesStand ==
  \A c \in Calls :
    /\ Succeeded(c) /\ op(c).effect = "merge"
    /\ \A d \in Calls \ {c} :
         plan[d] # None =>
           plan[d].method = plan[c].method /\ plan[c].populated \cap plan[d].populated = {}
    => \A f \in plan[c].populated \cap op(c).body.optional : writer[place(c)][f] = c

\* CHANGELOG.md, 0.7.0, "pre-0.7 servers (which reject unknown JSON fields) are unaffected"
\* by fields left unset, and 0.5.1: no request is malformed for the server unless its caller
\* set a newer field or asked for compression.  The newer fields include `rerank`, against
\* CHANGELOG.md:116-118: RerankIsSafe below.
OlderServersServed ==
  \A c \in Calls :
    reply[c] # None /\ reply[c].status = "BadRequest" =>
      \/ ~(plan[c].populated \subseteq Known(op(c).body, release))
      \/ client.compress /\ plan[c].large

\* types.rs:5-7: a reply without the fields that came later, and without the optional ones,
\* still decodes.  An empty one does not where the type has a form of its own
\* (client.rs:512-515): then the server had executed the request all the same.
OlderRepliesDecode ==
  \A c \in Calls :
    outcome[c] # None =>
      /\ outcome[c].kind # "Decode"
      /\ outcome[c].kind = "DecodeNull" => op(c).reply.kind = "struct" /\ executed[c] # {}

\* A cursor that push_filter puts into the query as it is, and that does not survive it.
BreaksQuery(pl) ==
  /\ pl.method \in {"list_jobs", "list_tenant_jobs"}
  /\ pl.cursor # None /\ \E i \in DOMAIN pl.cursor : pl.cursor[i] \in QueryDelimiters

\* What leaves the client is the request its caller meant: for the tenant of the client, or
\* the one it was derived for, in the path as in the header (client.rs:327-337), below the
\* base URL with or without its slash, and with the query given.  Exactly the requests with
\* an argument that breaks the path, which no format string encodes (indexes.rs:147-150,
\* apikey.rs:36), are read as others, and of the rest exactly those whose cursor push_filter
\* does not encode.
RequestsArrive ==
  \A c \in Calls :
    JustSent(c) =>
      LET r == request(c)
          p == plan[c]
          tenant == IF p.retarget # None THEN p.retarget ELSE client.tenant
          path == Path(tenant, p)
          meant == {Param("prefix", x) : x \in {p.prefix} \ {None, <<>>}} \cup
                   {Param("cursor", x) : x \in {p.cursor} \ {None}} \cup
                   {Param("status", x) : x \in {p.status} \ {None}}
      IN  /\ r.tenant = tenant /\ (p.op.scope = "own" => tenant # None)
          /\ r.url.below = client.base.segments
          /\ IF \A i \in DOMAIN path : Harmless(path[i])
             THEN /\ r.url.path = path
                  /\ (ReadTexts(r.query) = meant) <=> ~BreaksQuery(p)
                  /\ r.query.limit = p.limit /\ ReadAge(r.query) = p.min_age
             ELSE r.url.path # path

R(c) ==
  INSTANCE Rpc WITH
    Transmissions <- Transmissions,
    Outcomes <- Kinds,
    Success <- "Ok",
    phase <- IF pc[c] = "idle" THEN "new" ELSE IF Over(c) THEN "over" ELSE "open",
    executed <- executed[c],
    outcome <- IF outcome[c] = None THEN None ELSE outcome[c].kind

\* Every method is one remote call.
CallsImplementRpc ==
  /\ \A c \in Calls : R(c)!Init
  /\ [][\A c \in Calls : [R(c)!Next]_(R(c)!vars)]_vars
-----------------------------------------------------------------------------
(* What the documentation says and the code does not do. *)

\* CHANGELOG.md:116-118, "No-op against non-rerank-aware servers" and "safe to roll out
\* unconditionally": a search is not refused as malformed for asking to rerank.
RerankIsSafe ==
  \A c \in Calls :
    reply[c] # None /\ plan[c].populated \subseteq {"query", "rerank"} =>
      reply[c].status # "BadRequest"
=============================================================================
