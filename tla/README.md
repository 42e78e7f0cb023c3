# Verification of the GraphANN Rust client

TLA+ models of the client in `src/`, checked with TLC, with theorems proved by TLAPS.
Line numbers are those of the modelled commit; `PROJECT.json` maps every definition to the
lines it stands for.

## The system

The crate is an asynchronous HTTP client of a search server. A `Client` is a cheap handle
on shared state (`ClientInner`); its methods are called by any number of tasks of a
multi-threaded runtime, and any of the futures they return may be dropped at an await.

| component | source | state it keeps | operations |
|---|---|---|---|
| single-flight coalescer | `singleflight.rs` | map from key to broadcast sender, under an async mutex | `do_call` |
| response cache | `cache.rs` | LRU list of (key, time, response), under a mutex | `get`, `put`, `clear` |
| request retry loop | `client.rs` `send_json`, `classify_error`; `error.rs`; `retry.rs` | per call: attempt counter, sleep, error | one call with its retries |
| search path | `search.rs` | none of its own | `search` = cache, coalescer, request; `multi_search` = request |
| page stream | `pagination.rs`, `documents.rs` | `Idle` (cursor, first call), `Pending` (future), `Done` | `poll_next` |
| request construction, decoding | `client.rs`, `documents.rs`, `jobs.rs` | none | `url`, `request`, `request_json`, `request_empty`, `require_tenant`, `urlencode`, `push_filter`, `format_duration` |
| builder, configuration, derived clients | `client.rs` | the options | builder methods, `build`, `with_tenant_id`, `invalidate_cache` |
| endpoints | `documents.rs`, `indexes.rs`, `tenants.rs`, `jobs.rs`, `org.rs`, `settings.rs`, `apikey.rs`, `cluster.rs`, `health.rs`, `client.rs` | none | 54 methods, one request each |
| blocking client | `blocking.rs` | a runtime | one async method each, run to its end |
| transport | `transport.rs` | reqwest's pool | configuration |
| metrics hooks | `client.rs` | the installed hook | `on_request`, `on_retry`, `on_cache`, `on_coalesced` |
| wire types | `types.rs` | none | serde |
| crate root | `lib.rs` | none | re-exports |

How they interact: a search looks its key up in the cache; on a miss it enters the
coalescer (if configured, which is the default), whose leader runs the request through the
retry loop; every caller the flight answers then fills the cache. `invalidate_cache` may
run at any moment. All other endpoints go straight to the retry loop; `list_documents`
does so once per page, from inside the stream's `poll_next`.

What makes each component correct, and hard to test:

- *Coalescer*: one execution per key at a time; a follower gets its leader's result and no
  other; nobody waits for a message that was already sent or will never be. The hard parts
  are the window between removing a sender and sending, late joiners, and dropped futures.
- *Retry loop*: bounded attempts; the delay the server asked for is honoured; work is
  repeated only when the client cannot know that it was done; the hooks count what was
  sent. The hard parts are answers that race with the timeout, requests executed after the
  client gave them up, and the two copies of the retry decision.
- *Cache*: a lookup returns the last value put, not expired, not cleared; eviction takes
  the least recently used key only. The hard parts are expired entries that still take a
  place and lookups that reorder.
- *Search path*: an answer belongs to the request it is returned for; old answers do not
  come back. The hard part is that a search spans several steps, with invalidations and
  other searches between them.
- *Page stream*: no document twice, none of the undisturbed ones missing, an end. The hard
  parts are a collection that changes between pages, and a consumer that stops awaiting a
  page (a `select!`, a timeout) and comes back.
- *Endpoints*: what a caller is told is true of the server's resources: an acknowledged
  write stands, an error is about somebody else's doing, a creation is not multiplied. The
  hard part is that every method, reading or writing, goes through the same retry loop, so
  a request may be executed several times, and late.
- *Requests and wire types*: the server reads what the method meant, for any base URL,
  tenant, cursor and duration; servers of older releases are served. The hard parts are
  that this is spread over a hundred serde attributes, and that arguments meet the
  delimiters of a URL, which some methods escape and others do not.
- *Derived clients*: a client made by `with_tenant_id` acts for its tenant only and shares
  neither cache nor flights with the one it came from.

The hazards, each at its line and with the properties that watch it, are in `PROJECT.json`.

## Modules

| module | what it is | models |
|---|---|---|
| `Coalescer` | abstract: a flight per key, settled in one step | what `singleflight.rs` promises |
| `SingleFlight` | detailed, implements `Coalescer` | `SingleFlight::do_call` |
| `SingleFlightProofs` | theorems about `SingleFlight` | |
| `Rpc` | abstract: one remote call over an unreliable network | what a request method promises |
| `SendJson` | detailed, implements `Rpc` | `send_json`, `classify_error`, `error.rs`, `retry.rs` |
| `SendJsonProofs` | theorems about `SendJson` | |
| `Lru` | operators on an LRU list | the `lru` crate as `cache.rs` uses it |
| `LruProofs` | lemmas about `Lru` | |
| `TtlMap` | abstract: a bounded map that loses an entry only to expiry, a clear or a put without room | what the cache promises |
| `TtlCache` | detailed, implements `TtlMap`; uses `Lru` | `TtlCache` |
| `TtlCacheProofs` | theorems about `TtlCache`; uses `LruProofs` | |
| `CachedSearch` | composes `SingleFlight` and `Lru` with the server's data | `search`, `cached_search`, `invalidate_cache`, `with_tenant_id` |
| `MCCachedSearch` | symmetry sets for TLC | |
| `CachedSearchProofs` | theorems about `CachedSearch`; uses `SingleFlightProofs`, `LruProofs` | |
| `PageStream` | the stream, its consumer and the server | `pagination.rs`, `list_documents_with_prefix` |
| `PageStreamProofs` | theorems about `PageStream` | |
| `Wire` | the bodies, by their fields and the release that brought them; encoding and decoding | `types.rs` |
| `Durations` | a pure algorithm and its reader | `format_duration` |
| `DurationsProofs` | a theorem about `Durations` | |
| `Endpoints` | the table of the methods; uses `Wire` | all methods of `Client` |
| `Requests` | from a client and a call to the request; uses `Endpoints` and `Durations` | `with_tenant_id`, `url`, `request`, the queries, the body part of `send_json` |
| `Api` | calls of methods against a server's resources; implements `Rpc` call by call | `request_json`, `request_empty`, the loop of `send_json`, `version` |
| `MCApi` | the scenarios for TLC | |
| `ApiProofs` | theorems about `Api` and the modules it uses; uses `DurationsProofs` | |

An operator introduced as "Mutant" is not part of a model. It is the neighbouring
definition with a plausible bug; putting it in that definition's place makes TLC violate a
property, which shows that the property looks at the code. `PROJECT.json` pairs them.

### SingleFlight

A call is one invocation of `do_call`. `pc` is the await or step it stands at: `enter`
(waiting for the map lock), `run` (leader, in `f()`), `publish` (leader, waiting for the
lock again), `send` (sender taken off the map, message not sent yet), `wait` (follower, in
`recv`), `done`, `dropped`. `slot` is the map; a sender is named after the leader that
created its channel. No await lies inside a critical section, so each is one step; `Send`
is a step of its own because the code sends after unlocking. `Drop` is possible at every
await and leaves the map as it is: the code has no guard that would clean up.

The refinement to `Coalescer` settles a flight when its leader takes the sender off the
map: from then on everybody in it is bound to the leader's result, though the message is
sent later, and nobody joins any more.

### SendJson

One call, as calls share nothing here. `wire[i]` is what became of attempt `i`'s request: it
may be executed after the client's timeout (`Execute` asks nothing of `pc`), be lost, or be
refused with 429 or 503. These two are taken as refusals: the server did not do the work.
Any other status may come before or after an execution. Of an error's body the model keeps
whether it is the server's error envelope and whether byte 4096 of its text falls inside a
character; then `trimmed_body` panics, which ends the future (`panicked`). `TransportFails`
is a connection failure, a timeout or a lost answer, which the client cannot tell apart.
Time is in ticks, and `due` remembers the rest of the `Retry-After` of the last answer. The
jitter is a value between half the capped delay and all of it. Requests are abstracted here
(`Requests` has them): building a request succeeds or fails with an error that is never
retried. The failure modelled before the first attempt stands for that of any attempt,
because a request is built from the same values each time.

### Lru, TtlCache

`get`, `put` and `clear` hold the mutex throughout and read the clock under it, so each is
one step. A cache is the sequence of its entries, most recently used first. The history
variable `since` records which other keys were used since a key last was, which is what
an LRU policy is about; it appears in properties only.

### CachedSearch

`SingleFlight` is instantiated, not abstracted: the steps of a search inside `do_call` are
that module's actions on its variables. `epoch` counts the changes of the server's data, and
an answer carries the epoch it was computed from. The request itself is one step
(`Respond`), in which it succeeds with the data of that moment or fails; `SendJson` has the
rest. The configuration is chosen in the initial state, so one run covers the four
combinations of cache and coalescer. The calls in `derived` go through a client made by
`with_tenant_id`, which has neither, next to others through the client it came from, with
the same tenant and key: what keeps them apart is `Has`. Each call is made once; a task that
searches twice is two calls.

### PageStream

`state`, `cursor` and `first` are `StreamState`. `poll_next`'s loop is cut where another
task can act: starting the fetch, and finding it ready. `StopAwaiting` is the consumer
dropping the future of `next()`, which leaves the fetch in `Pending`; `DropStream` drops the
stream. The server is assumed to list in ascending order of ids with the last id of a page
as the cursor, to give a cursor only with a full page, and to leave it out when nothing
follows - or, after a full page, to leave that to the next, empty page.

### Wire, Endpoints, Requests

A body is the set of its fields: `required` ones are always sent and demanded of a reply,
`optional` ones are sent when set (`skip_serializing_if`), `defaulted` ones always sent and
not demanded. That is what decides how another release understands it, and what a partial
update touches. `AddedIn` notes the release that brought a field, from `CHANGELOG.md`; a
server knows the fields up to its own release. Nested bodies count with their fields.

`Endpoints` has one entry per method: verb, whose resource the path names (the client's
tenant, a tenant or an organisation the caller names, or none), the rest of the path, the
bodies, and the effect on the server's resources. Verb, path and bodies are the code's; the
effect is external, taken from what the comments in `src/` say of the endpoint.

`Requests` makes the request of a call: the path below the base URL, the tenant header, the
fields in the body, gzip, Content-Type, and the query. A text is a sequence of characters,
in a query each escaped or not. The arguments of a path go into it as they are, as the
format strings put them there; `ReadPath` is what `Url::join` makes of it, the path itself
where no segment is empty, a dot segment or has a delimiter, and otherwise not that path.
What a broken path reaches instead is not followed: the model's server has nothing there
and answers `NotFound`. `ReadTexts` and `ReadAge` are the server's reading of a query.
Which characters are delimiters is a parameter. The server and `Url::join` are taken to
change the delimiters only; a `%` counts as one although only `%` and two digits change,
and blanks that `Url::join` trims from the end of a path are left out.

### Api

Up to two calls of any method. The client's part is the loop of `send_json` without its
delays: `Begin`, `Fail` (an error answer: send again, or return), `Fault` (a transport
error: send again, or return), `Accept` (decode and return; the body may be empty,
whatever the method expects), `BodyFails`, `Drop`. The
server's part is external: it keeps one resource of each kind for each owner (`last`:
whether it is there and who made it so; `writer`: who last wrote each field of an index or
of settings), handles each transmission at most once, at any time, or refuses it, and may
answer work it did with an error. A transmission that is never handled is a lost one.
`minted` counts resources without a name of their own. `saw` in a reply is whose doing the
server met, and `wrote` whether it did anything: history for the properties.

The properties say what the callers may rely on although nothing makes requests idempotent.
`Troubled` is what a caller learns: an `on_retry` for the network (a hook of the `metrics`
feature; without it, the caller sees only the other two), an `Error::Network`, or that it
dropped the future. `AnswersAreAboutOthers`, `AcknowledgedWritesStand` and
`CreatesCounted` show that without such a sign a call is executed once and in its time, and
that with one only that call's own resource is in doubt. So a retry may repeat a `POST`,
although `error.rs:93-94` calls network errors "safe to retry": the properties say how far,
instead of a run that refutes a phrase.

## Runs

| run | bounds | checks |
|---|---|---|
| `SingleFlightSafety` | 3 calls, 2 keys, 2 results, all droppable | types, one execution, shared results, no closed receiver, no late joiner, refinement, only orphans hang |
| `SingleFlightOrphan` | 2 calls, the first droppable | violation: `EveryCallReturns` |
| `SendJson` | 3 retries, base 1, cap 3, `Retry-After` 0, 5, none or a date | types, duplicates, early errors, delays, hooks, refinement, termination; no deadlock |
| `SendJsonPanic` | same | violation: `ErrorsAreReturned` |
| `SendJsonReports` | same | violation: `RequestsReported` |
| `TtlCache` | 3 keys, 2 values, capacity 2, TTL 1, 5 instants | types, working set, refinement |
| `CachedSearchSafety` | 3 calls, 2 keys, capacity 1, TTL 0, 2 instants, 1 change, at most 1 call derived, all droppable, symmetric | types, own answers, real failures, monotone reads, quiet invalidation, fresh reads through derived clients |
| `CachedSearchLive` | 3 calls, 1 key, none dropped | every search returns |
| `CachedSearchStale` | 2 calls, cache and coalescer on | violation: `InvalidationIsFinal` |
| `PageStream` | 5 documents, 2 per page, 3 edits, 2 ends asked for | types, order, nothing missed, fused, an end |
| `Api` | 2 calls, 1 retry, releases 2 to 8, scenarios of `MCApi` | types, answers, writes, creations, partial updates, older servers both ways, requests arrive, refinement |
| `ApiRerank` | 1 search with `rerank`, release 5 | violation: `RerankIsSafe` |

Why the bounds are enough to be of interest: three calls are a leader, a follower and a
call that comes after or between them, or two generations of one key; two keys let flights
cross. Three retries with base 1 and cap 3 reach the cap in the exponential, and a
`Retry-After` of 5 exceeds it. A capacity below the number of keys evicts; instants beyond
the TTL expire. One change of the data separates old answers from new ones. Five documents
in pages of two are three pages, the last one short, and an edit may fall in each gap.
`MCApi` takes every method with no, the known and all optional fields against every release;
every method with three base URLs and with the client's tenant, another one or none; path
arguments that are empty, a dot segment, or have a delimiter of paths, of queries only or
none; texts with a reserved character first, last, alone or not at all; durations on both sides of each
unit (the ratio of the small units is 10 there and any number in `DurationsProofs`); and
every two calls of a group that meets at a resource, which is there at first or not. One
retry is two transmissions of a call: one late, one answered.

Deadlock is checked where the system has a final state that stutters explicitly
(`SendJson`). It is off for `SingleFlightSafety` and `SingleFlightOrphan`, where a call
behind a dropped leader waits for ever, and for `TtlCache`, `CachedSearch`, `PageStream` and
`Api`, which stop when their bounded inputs (calls, clock, edits, ends) are used up.

### Fairness

Weak fairness is on the client's own steps only: a woken task is polled; an HTTP attempt
ends, since reqwest is given a timeout that covers connecting, the answer and its body
(`transport.rs:52`); attempts are bounded by `max_retries`; a sleep ends as time passes.
Nothing obliges a caller to call, to drop or to poll again, the server to execute, the
network to deliver, or the clock of the cache to advance. `KeepAskingEnds` therefore
has the consumer's persistence as its premise: it asks again and again and finally stops
walking away from what it asked.

## Where the documentation says something else

Five runs expect a violation; each quotes a line of the repository.

1. `SingleFlightOrphan`: "the rest await the same future and receive a cloned result"
   (`singleflight.rs:3-5`). If the leader's future is dropped in `f()`, its sender stays in
   the map, and every present and later caller of that key hangs. `OnlyOrphansHang` shows
   that this is the only way to hang.
2. `SendJsonPanic`: the body of an error is "already truncated to a safe length"
   (`error.rs:63`). `trimmed_body` cuts the text at byte 4096 and panics when a character
   lies across it; the call ends without an error.
3. `SendJsonReports`: `on_request` is "Called once per HTTP request the SDK initiates"
   (`client.rs:47`). When the body of a success cannot be read, the `?` at `client.rs:432`
   leaves `send_json` before the report. `HooksAddUp` shows that nothing else does.
4. `CachedSearchStale`: invalidation keeps post-swap searches from handing back stale
   embeddings (`examples/quickstart.rs:139-140`). A search under way fills the cleared
   cache with its old answer. `QuietInvalidation` shows that an invalidation that meets no
   outstanding search is complete.
5. `ApiRerank`: `rerank` is a "No-op against non-rerank-aware servers" and "safe to roll out
   unconditionally" (`CHANGELOG.md:116-118`; `README.md:49-50` and `types.rs:589-592` say so
   of servers without a reranker). The field goes out whenever it is set, and servers before
   0.7 "reject unknown JSON fields" (`CHANGELOG.md:94-95`), so one older than 0.6 refuses
   the search. `OlderServersServed` shows that only a field the caller set, or compression,
   has this effect.

Other places where the code and a text part are stated as exceptions of properties that hold
otherwise:

- `FailuresAreReal`: callers can branch on `Error::NotFound` (`error.rs:10-12`), but through
  the coalescer, on by default, every error becomes `Error::Other` (`search.rs:86`).
- `PartialUpdatesStand`: only the populated settings overwrite (`settings.rs:26-27`), but the
  provider and the model are sent with every update, as empty strings when unset. Unless the
  server takes these for absent, an update of the temperature overwrites both.
- `EarlyErrorMeansExecuted`: a success whose body cannot be read ends the call with a network
  error and retries left. This is the only early end of a retryable error, and the server has
  executed the request then.
- `RequestsArrive`: path arguments and the cursors of job listings are not encoded. Exactly
  the requests whose arguments have a delimiter are read as others.
- `OlderRepliesDecode`: an empty success body, read as `null` "convenient for `()` returns"
  (`client.rs:513`), is a decoding error for every type with a form of its own, although the
  server executed the request.

## Proofs

TLAPS checks the theorems below for every value of the constants allowed by the named
assumptions (sentinels differ from data; sets and numbers have their types). The runs check
the same properties, and TLC checked the inductive invariants before they were proved.

`SingleFlightProofs`. `OneExecution` is not inductive: it holds because of who owns what.
`IInv` says so: a sender in the map belongs to a leader of that key that has not removed it
yet, or to a dropped one (`SlotsHeldByLeaders`); a live leader's sender is in the map until
it is removed (`LeadersHoldSlots`), so two leaders of a key would be the same call; calls
past a point have a key and a result (`Progressed`); a channel carries a message exactly
when its leader returned (`ChannelsCarryResults`); a follower's leader led the same key,
and a waiting follower of a dropped leader still has its sender in the map
(`FollowersFollowLeaders`). Each action has a preservation lemma with a step for each part.
From `Invariance` follow `TypeCorrect`, `AtMostOneExecution`, `FollowersAgree`,
`ReceiversKeepSenders` and `JoinersMeetOpenFlight`, and `Implements`, the refinement of
`Coalescer`, with a lemma that maps each action to an abstract step or a stutter.

`SendJsonProofs`. The invariant adds to the checked ones how far the attempts have come
(`Standing`) and that a request the client left behind without a refusal left it through a
transport error (`AbandonedInFault`). Lemmas state what the pure parts do for every input:
which statuses are retryable, that classification returns an error, that the backoff is
bounded by the cap (`BackoffBounded`). The theorems are type correctness,
`NoNeedlessDuplicate`, `EarlyErrors`, `SleepsJustified`, `HooksAgree`, `RetryAfterRespected`
and the refinement of `Rpc`.

`PageStreamProofs`. That pages come in order says nothing of the fetch under way, and that
nothing is missed speaks of the end only. `IInv` adds what holds in between: a stream that
is listing has yielded pages only, and fetches at a cursor from the second page on
(`Standing`); everything yielded lies up to the cursor (`YieldedBelowCursor`); every
document that was there throughout and lies up to the cursor was yielded
(`NothingMissedSoFar`); and a page waiting to be delivered holds all such documents between
the two cursors and nothing before them (`ReplyContinues`), since the lowest documents
beyond a cursor are an initial part of them (`LowestIsInitial`). The theorems are type
correctness, `PagesInOrder`, `NothingMissed` and `Fused`, for any documents, page size
and edits; they rest on the server's order as the model states it.

`DurationsProofs`. The text of a duration is read as that duration (`DurationsAreKept`), for
every number of nanoseconds and every ratio of the small units; one case per unit, the
seconds by `SecondsKept`.

`LruProofs`, `TtlCacheProofs`. The lemmas of `LruProofs` say of lists of any length what
`Pop`, `Promote` and `Put` keep: one entry per key, the order of the others, the bound, and
which entry leaves a full list. `WorkingSetKept` speaks of keys that are gone and is not
inductive: `Ahead` adds that the keys ahead of an entry have been used since it was, so that
the entry a full list loses is one since whose use every other place was taken. The
theorems are type correctness (with the bound and one entry per key), `WorkingSetIsKept` and
`CacheImplementsMap`, the refinement of `TtlMap`, for every capacity above 0.

`CachedSearchProofs`. The steps inside `do_call` are actions of `SingleFlight`
(`SearchDrivesCoalescer`), so its invariant is one conjunct and its lemmas are used as they
are; `FlightConstants` shows that replies and errors meet its assumption on constants. The
others tie the stage of a search to its place in the flight (`Staged`), a flight's result to
its leader's own request (`LeadersReport`, `RepliesTimely`), and the cache to the answers put
(`Remembered`). `QuietInvalidation` needs that no reply still awaited is older than the last
quiet invalidation, unless its leader was dropped (`QuietFlights`): such a reply never
arrives. `MonotoneReads` needs `NoCacheOrder`, that flights of a key follow one another: an
open flight's reply is not older than what any result handed out before, or any call that
joins or may join, has seen. The theorems are type correctness, `AnswersAreOwn`,
`FailuresHaveCauses`, `ReadsAreMonotone`, `QuietInvalidationIsComplete` and `DerivedClientsReadFresh`, for any
number of calls and keys, in all four configurations.

`ApiProofs`. What the callers may rely on follows from an account of transmissions: none is
executed twice (`Once`), the earlier ones that were or may be executed were reported
(`EarlierReported`), all that were or may be are one and the reported ones, and no more than
the reported ones after a refusal (`Counted`), and a call that is over and may still be
executed was in trouble (`LateTroubled`). With who last wrote what (`MakersExecuted`), they
give `NoAnswerIsItsOwnDoing`, `AcknowledgedWritesAreKept`, `CreationsAreCounted` and
`PartialUpdatesAreKept`; `OwnDoingReported`,
`WritesStand` and `FieldsStand` state three of these from the reply on, before the caller
has it, since other calls' steps fall in between. `CallsAreRpcs` maps each call to `Rpc`.
`OlderServersAreServed` and `OlderRepliesAreDecoded` come from the tables: for each body that
some method sends, what a release added is optional (`SentAreSendable`), for each reply, it
is not required (`ExpectedAreDecodable`), and each method uses these (`MethodsFit`); a second
invariant, `Served`, carries this to the replies. `RequestsAreRead` is proved of the
operators of `Requests`, for arguments and texts of any length (`EscapedTextReads`,
`LiteralTextReads`), any base URL (`PathsArrive`) and any duration, in both directions: the
requests that are read as others are exactly those with a delimiter where nothing escapes
it. The assumptions say that the scenarios are
well-formed calls of methods (`ScenariosAssumption`), that what `urlencode` leaves alone is no delimiter
(`UnreservedAssumption`), that `None` is none of the values it
is an alternative to (`NoneAssumption`), and that the retries are a number. What the server
does to its resources is the model's.

With these, every invariant, action property and refinement that a run checks is proved.
Model-checked only: liveness under fairness (`OnlyOrphansHang`, `CallReturns`,
`SearchReturns`, `KeepAskingEnds`), which the prover cannot do, as it cannot do `ENABLED` or
induction over data; and the five violations, which are counterexamples. The project has no
recursive operators.

## Not modelled

The blocking client (each method is a `block_on` of the async one; whether that may be
called inside a runtime is tokio's business), the transport (configuration only), the crate
root. Values inside bodies, authentication and extra headers, TLS, the pool, messages (data
the properties do not tell apart); the order of map entries in a cache key, which costs a
hit and no more; saturation and floating point in the backoff; panics other than the one of
`trimmed_body` and dropped futures. Of the builder, only what changes behaviour: its setters
store values. `on_cache` only observes; `on_coalesced` is never called. The metrics hook a
derived client copies is not, either.

## Plan

The models and the theorems planned are there. What could still be added by proof are the
safety parts of the liveness properties: that a follower of a live leader is never without a
step of somebody's to wait for, that a retry loop's remaining steps decrease, and that a
listing's cursor grows with each page that is not the last.
