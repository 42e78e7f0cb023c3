---------------------------- MODULE CachedSearch ----------------------------
(***************************************************************************)
(* Client::cached_search (src/src/search.rs): concurrent searches of one    *)
(* client through the response cache, the single-flight coalescer and the   *)
(* server, with invalidate_cache and changes of the server's data (a model  *)
(* swap, new documents) at any moment.  The coalescer's part of every step  *)
(* is the action of SingleFlight; the cache's part is Lru under its mutex.  *)
(***************************************************************************)
EXTENDS Lru, FiniteSets, FiniteSetsExt

CONSTANTS Calls,        \* calls of search
          Keys,         \* cache keys: path and serialized request
          ErrorKinds,   \* the Error variants a request may end in
          Droppable,    \* the calls whose future may be dropped
          CacheModes,   \* the values of ClientConfig.cache.is_some()
          FlightModes,  \* the values of ClientConfig.singleflight
          MaxDerived,   \* bound on the calls made through derived clients
          Ttl,          \* CacheConfig.ttl, in ticks
          Horizon,      \* bound on the clock, for model checking
          MaxEpoch,     \* bound on the changes of the server's data
          None

ASSUME ConstantsAssumption ==
  /\ CacheModes \subseteq BOOLEAN /\ FlightModes \subseteq BOOLEAN
  /\ Ttl \in Nat /\ Horizon \in Nat /\ MaxEpoch \in Nat /\ MaxDerived \in Nat
  /\ Droppable \subseteq Calls
  /\ None \notin Calls \cup Keys \cup ErrorKinds \cup {"Other"}
  /\ None \notin [key : Keys \cup {None}, epoch : 0..MaxEpoch,
                  err : ErrorKinds \cup {None, "broadcast"}]

VARIABLES slot, pc, key, sub, tx, chan, res,  \* SingleFlight
          cacheOn, sfOn,  \* the configuration the client was built with
          derived,  \* the calls made through a client derived by with_tenant_id
          stage,    \* stage[c]: where c stands in cached_search
          asked,    \* asked[c]: the key c searches for
          fetched,  \* fetched[c]: the reply to c's own request, once the server made it
          answer,   \* answer[c]: what search returned to c
          lru, now, \* the cache, entries [key, at, val], and Instant::now()
          epoch,    \* the state of the server's data
          floor,    \* history: the epochs at the last invalidation, and at the last one
                    \* that found no search outstanding
          before    \* history: before[c], the epoch, floor and the latest epoch returned
                    \* for c's key, when c started

flightVars == <<slot, pc, key, sub, tx, chan, res>>
config == <<cacheOn, sfOn, derived>>
callVars == <<stage, asked, fetched, answer, before>>
vars == <<flightVars, config, callVars, lru, now, epoch, floor>>

Epochs == 0..MaxEpoch

\* The server's answer to k from the data of epoch e; a failed request.
Answer(k, e) == [key |-> k, epoch |-> e, err |-> None]
Failure(k, kind) == [key |-> k, epoch |-> 0, err |-> kind]

Replies == {Answer(k, e) : k \in Keys, e \in Epochs} \cup
           {Failure(k, kind) : k \in Keys, kind \in ErrorKinds}

SF ==
  INSTANCE SingleFlight WITH
    Results <- Replies, BroadcastError <- Failure(None, "broadcast")

Init ==
  /\ SF!Init
  /\ cacheOn \in CacheModes /\ sfOn \in FlightModes
  /\ derived \in {d \in SUBSET Calls : Cardinality(d) <= MaxDerived}
  /\ stage = [c \in Calls |-> "idle"]
  /\ asked = [c \in Calls |-> None]
  /\ fetched = [c \in Calls |-> None]
  /\ answer = [c \in Calls |-> None]
  /\ lru = Empty /\ now = 0
  /\ epoch = 0
  /\ floor = [any |-> 0, quiet |-> 0]
  /\ before = [c \in Calls |-> None]

Goto(c, s) == stage' = [stage EXCEPT ![c] = s]

Expired(entry) == now - entry.at > Ttl

\* The latest epoch that a search for k of the same client as c has returned.
LatestSeen(c, k) ==
  LET epochs == {answer[d].epoch :
                   d \in {e \in Calls : stage[e] = "back" /\ asked[e] = k /\ answer[e].err = None
                                       /\ (e \in derived <=> c \in derived)}}
  IN  Max(epochs \cup {0})

\* Mutant: with_tenant_id keeps the cache and the coalescer of the client it is called on.
HasKept(c, mode) == mode

\* Mutant: build makes a cache and a coalescer although their options turn them off.
HasAlways(c, mode) == c \notin derived

\* with_tenant_id: a derived client starts with neither the cache nor the coalescer.
Has(c, mode) == mode /\ c \notin derived

\* c calls search for k: the history variables note what it may rely on.
Begins(c, k) ==
  /\ stage[c] = "idle"
  /\ asked' = [asked EXCEPT ![c] = k]
  /\ before' = [before EXCEPT ![c] =
                  [at |-> epoch, seen |-> LatestSeen(c, k), any |-> floor.any,
                   quiet |-> floor.quiet]]
  /\ UNCHANGED <<config, fetched, now, epoch, floor>>

\* cache.get: an entry that is there and not expired.
Fresh(k) == k \in CachedKeys(lru) /\ ~Expired(Peek(lru, k))

SearchHit(c, k) ==
  /\ Begins(c, k)
  /\ Has(c, cacheOn) /\ Fresh(k)
  /\ lru' = Promote(lru, k)
  /\ answer' = [answer EXCEPT ![c] = Peek(lru, k).val]
  /\ Goto(c, "back")
  /\ UNCHANGED flightVars

\* No cache, or a miss: an expired entry is popped.
Misses(c, k) ==
  \/ ~Has(c, cacheOn) /\ UNCHANGED lru
  \/ Has(c, cacheOn) /\ ~Fresh(k) /\ lru' = Pop(lru, k)

\* With the coalescer do_call is entered.
SearchToFlight(c, k) ==
  /\ Begins(c, k)
  /\ Has(c, sfOn)
  /\ Misses(c, k)
  /\ Goto(c, "flight")
  /\ SF!Enter(c, k)
  /\ UNCHANGED answer

\* Without it the request is sent.
SearchToDirect(c, k) ==
  /\ Begins(c, k)
  /\ ~Has(c, sfOn)
  /\ Misses(c, k)
  /\ Goto(c, "direct")
  /\ UNCHANGED <<answer, flightVars>>

Search(c, k) == SearchHit(c, k) \/ SearchToFlight(c, k) \/ SearchToDirect(c, k)

\* What the server may reply to c's request now, with the data it has.
ServerReplies(c) ==
  {Answer(asked[c], epoch)} \cup {Failure(asked[c], kind) : kind \in ErrorKinds}

\* All that request_json decides here: c's request succeeds, or fails (after its retries).
Respond(c) ==
  /\ pc[c] = "run" \/ stage[c] = "direct"
  /\ fetched[c] = None
  /\ \E r \in ServerReplies(c) : fetched' = [fetched EXCEPT ![c] = r]
  /\ UNCHANGED <<flightVars, config, stage, asked, answer, before, lru, now>>
  /\ UNCHANGED <<epoch, floor>>

\* Inside do_call: the lock, the leader's work, the broadcast.
FlightStep(c) ==
  /\ \/ SF!Step(c)
     \/ fetched[c] # None /\ SF!Finish(c, fetched[c])
  /\ UNCHANGED <<config, callVars, lru, now, epoch, floor>>

\* Mutant: whatever came back is cached.
RememberAll(c, r) ==
  lru' = IF Has(c, cacheOn) THEN Put(lru, [key |-> asked[c], at |-> now, val |-> r]) ELSE lru

\* Only answers are cached, and only if there is a cache.
Remember(c, r) ==
  lru' = IF Has(c, cacheOn) /\ r.err = None
         THEN Put(lru, [key |-> asked[c], at |-> now, val |-> r]) ELSE lru

\* do_call returned, to the leader or to a follower: every one of them fills the cache.
\* An error comes back as its text, in Error::Other.
FlightReturns(c) ==
  /\ stage[c] = "flight"
  /\ pc[c] = "done"
  /\ Remember(c, res[c])
  /\ answer' = [answer EXCEPT ![c] =
                  IF res[c].err = None THEN res[c] ELSE Failure(asked[c], "Other")]
  /\ Goto(c, "back")
  /\ UNCHANGED <<flightVars, config, asked, fetched, before, now, epoch, floor>>

\* request_json returned: an error keeps its kind.
DirectReturns(c) ==
  /\ stage[c] = "direct"
  /\ fetched[c] # None
  /\ Remember(c, fetched[c])
  /\ answer' = [answer EXCEPT ![c] = fetched[c]]
  /\ Goto(c, "back")
  /\ UNCHANGED <<flightVars, config, asked, fetched, before, now, epoch, floor>>

\* The future is dropped at an await; after do_call or request_json there is none.
Drop(c) ==
  /\ \/ stage[c] = "flight" /\ SF!Drop(c)
     \/ stage[c] = "direct" /\ c \in Droppable /\ UNCHANGED flightVars
  /\ Goto(c, "gone")
  /\ UNCHANGED <<config, asked, fetched, answer, before, lru, now, epoch, floor>>

Outstanding(c) == stage[c] \in {"flight", "direct"}

\* Mutant: only the expired entries go.
InvalidateExpired ==
  /\ lru' = SelectSeq(lru, LAMBDA entry : ~Expired(entry))
  /\ floor' = [any |-> epoch,
               quiet |-> IF \E c \in Calls : Outstanding(c) THEN floor.quiet ELSE epoch]
  /\ UNCHANGED <<flightVars, config, callVars, now, epoch>>

\* Client::invalidate_cache.
Invalidate ==
  /\ lru' = Empty
  /\ floor' = [any |-> epoch,
               quiet |-> IF \E c \in Calls : Outstanding(c) THEN floor.quiet ELSE epoch]
  /\ UNCHANGED <<flightVars, config, callVars, now, epoch>>

\* The server's data change.
Change ==
  /\ epoch < MaxEpoch
  /\ epoch' = epoch + 1
  /\ UNCHANGED <<flightVars, config, callVars, lru, now, floor>>

Tick ==
  /\ now < Horizon
  /\ now' = now + 1
  /\ UNCHANGED <<flightVars, config, callVars, lru, epoch, floor>>

Returns(c) == FlightReturns(c) \/ DirectReturns(c)

Next ==
  \/ \E c \in Calls :
       \/ \E k \in Keys : Search(c, k)
       \/ Respond(c) \/ FlightStep(c) \/ Returns(c) \/ Drop(c)
  \/ Invalidate \/ Change \/ Tick

Spec == Init /\ [][Next]_vars

\* As for SingleFlight: woken tasks run, and every request ends by its timeout.
Fairness ==
  \A c \in Calls : WF_vars(Respond(c)) /\ WF_vars(FlightStep(c)) /\ WF_vars(Returns(c))

FairSpec == Spec /\ Fairness
-----------------------------------------------------------------------------
(* Properties *)

TypeOK ==
  /\ SF!TypeOK
  /\ cacheOn \in BOOLEAN /\ sfOn \in BOOLEAN /\ derived \subseteq Calls
  /\ stage \in [Calls -> {"idle", "flight", "direct", "back", "gone"}]
  /\ asked \in [Calls -> Keys \cup {None}]
  /\ fetched \in [Calls -> Replies \cup {None}]
  /\ answer \in [Calls -> Replies \cup {Failure(k, "Other") : k \in Keys} \cup {None}]
  /\ lru \in Seq([key : Keys, at : 0..now, val : Replies])
  /\ Len(lru) <= Capacity
  /\ now \in Nat /\ epoch \in Epochs
  /\ floor \in [any : Epochs, quiet : Epochs]
  /\ before \in [Calls -> [at : Epochs, seen : Epochs, any : Epochs, quiet : Epochs] \cup {None}]

\* The cache key and the coalescing key keep searches apart: whatever way an answer took
\* (cache, flight of another call, own request), it answers the caller's own request, and
\* nothing but answers to their own key is ever cached, so no error is replayed.
OwnAnswers ==
  /\ \A c \in Calls : stage[c] = "back" => answer[c].key = asked[c]
  /\ \A i \in DOMAIN lru : lru[i].val.key = lru[i].key /\ lru[i].val.err = None

\* Without a cache, coalescing never takes a caller back in time: a search that started
\* after another search for the key had returned sees data at least as recent.
MonotoneReads ==
  \A c \in Calls :
    ~cacheOn /\ stage[c] = "back" /\ answer[c].err = None =>
      answer[c].epoch >= before[c].seen

\* An invalidation that meets no outstanding search is complete: no later search
\* returns data from before it, in any configuration.
QuietInvalidation ==
  \A c \in Calls :
    stage[c] = "back" /\ answer[c].err = None => answer[c].epoch >= before[c].quiet

\* client.rs:338-343: a derived client shares neither cache nor flights, so that its
\* searches never return data from before they started, whatever other clients do.
DerivedReadsFresh ==
  \A c \in derived :
    stage[c] = "back" /\ answer[c].err = None => answer[c].epoch >= before[c].at

\* A search fails only for a request that failed: its own, with the error as it came, or,
\* with the coalescer, a request of its client for its key, never for a flight that was
\* broken up.  Stated exception to error.rs:10-12, "callers can branch on
\* `Error::NotFound`": with the coalescer the kind is lost to Error::Other (search.rs:86),
\* for the leader as well.
FailuresAreReal ==
  \A c \in Calls :
    stage[c] = "back" /\ answer[c].err # None =>
      IF Has(c, sfOn)
      THEN /\ answer[c].err = "Other"
           /\ \E d \in Calls : /\ asked[d] = asked[c] /\ Has(d, sfOn)
                               /\ fetched[d] # None /\ fetched[d].err # None
      ELSE answer[c] = fetched[c]

\* Every search that is not dropped returns, if no leader is dropped.
SearchReturns == \A c \in Calls : Outstanding(c) ~> ~Outstanding(c)
-----------------------------------------------------------------------------
(* What the documentation says and the code does not do. *)

\* examples/quickstart.rs:139-140, "Invalidate the SDK's response cache so post-swap
\* searches don't hand back stale embeddings": a search that starts after an invalidation
\* never returns data from before it.
InvalidationIsFinal ==
  \A c \in Calls :
    stage[c] = "back" /\ answer[c].err = None => answer[c].epoch >= before[c].any
=============================================================================
