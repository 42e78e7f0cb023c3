------------------------------ MODULE TtlCache ------------------------------
(***************************************************************************)
(* TtlCache (src/src/cache.rs).  Every method holds the mutex throughout    *)
(* and reads the clock inside it, so each is one step, and the order of the *)
(* steps is the order in which the tasks obtain the mutex.                  *)
(***************************************************************************)
EXTENDS Lru, FiniteSets

CONSTANTS Keys,     \* cache keys
          Values,   \* cached responses
          Ttl,      \* CacheConfig.ttl, in ticks
          Horizon,  \* bound on the clock, for model checking
          None      \* no answer

ASSUME ConstantsAssumption ==
  /\ Ttl \in Nat /\ Horizon \in Nat
  /\ None \notin Values /\ None \notin [val : Values, at : Nat]
  /\ \A ks \in SUBSET Keys : ks # None

VARIABLES lru,    \* the LruCache: entries [key, at, val]
          now,    \* Instant::now()
          reply,  \* what the last get returned
          since   \* history: since[k], the other keys used since k last was, while
                  \* k's last put is neither cleared nor found expired; None otherwise

vars == <<lru, now, reply, since>>

Init == lru = Empty /\ now = 0 /\ reply = None /\ since = [k \in Keys |-> None]

\* Mutant: an entry as old as the TTL is dropped already.
ExpiredAtTtl(entry) == now - entry.at >= Ttl

Expired(entry) == now - entry.at > Ttl

\* k is used: it counts for every other key, and starts afresh itself.
Used(k) ==
  since' = [j \in Keys |-> IF j = k THEN {}
                           ELSE IF since[j] = None THEN None ELSE since[j] \cup {k}]

\* Mutant: peek where get was meant; a hit does not count as a use.
GetPeeking(k) ==
  /\ k \in CachedKeys(lru)
  /\ ~Expired(Peek(lru, k))
  /\ reply' = Peek(lru, k).val
  /\ Used(k)
  /\ UNCHANGED <<lru, now>>

\* get: a live entry is promoted and its value cloned.
GetLive(k) ==
  /\ k \in CachedKeys(lru)
  /\ ~Expired(Peek(lru, k))
  /\ lru' = Promote(lru, k)
  /\ reply' = Peek(lru, k).val
  /\ Used(k)
  /\ UNCHANGED now

\* get: an expired entry is popped.
GetExpired(k) ==
  /\ k \in CachedKeys(lru)
  /\ Expired(Peek(lru, k))
  /\ lru' = Pop(lru, k)
  /\ reply' = None
  /\ since' = [since EXCEPT ![k] = None]
  /\ UNCHANGED now

\* get: no entry.
GetAbsent(k) ==
  /\ k \notin CachedKeys(lru)
  /\ reply' = None
  /\ UNCHANGED <<lru, now, since>>

\* put: a new entry, stamped with the current time.
PutEntry(k, v) ==
  /\ lru' = Put(lru, [key |-> k, at |-> now, val |-> v])
  /\ Used(k)
  /\ UNCHANGED <<now, reply>>

Clear ==
  /\ lru' = Empty
  /\ since' = [k \in Keys |-> None]
  /\ UNCHANGED <<now, reply>>

Tick ==
  /\ now < Horizon
  /\ now' = now + 1
  /\ UNCHANGED <<lru, reply, since>>

Next ==
  \/ \E k \in Keys :
       GetLive(k) \/ GetExpired(k) \/ GetAbsent(k) \/ \E v \in Values : PutEntry(k, v)
  \/ Clear \/ Tick

Spec == Init /\ [][Next]_vars
-----------------------------------------------------------------------------
(* Properties *)

Entries == [key : Keys, at : Nat, val : Values]

\* The representation invariant of the LRU list: bounded, and one entry per key.
TypeOK ==
  /\ lru \in Seq(Entries)
  /\ Len(lru) <= Capacity
  /\ \A i, j \in DOMAIN lru : lru[i].key = lru[j].key => i = j
  /\ \A i \in DOMAIN lru : lru[i].at <= now
  /\ now \in Nat
  /\ reply \in Values \cup {None}
  /\ since \in [Keys -> (SUBSET Keys) \cup {None}]

\* cache.rs:1 and client.rs:98, "maximum number of entries before LRU eviction": a key is
\* evicted only by as many other keys as the cache has room for, used since it last was.
\* An entry that expired but was not looked up yet still takes a place.
WorkingSetKept ==
  \A k \in Keys :
    since[k] # None /\ k \notin CachedKeys(lru) => Cardinality(since[k]) >= Capacity

\* What the map remembers: the entries of the list, whatever their order.
storeBar ==
  [k \in Keys |-> IF k \in CachedKeys(lru)
                  THEN [val |-> Peek(lru, k).val, at |-> Peek(lru, k).at] ELSE None]

Abstract == INSTANCE TtlMap WITH store <- storeBar

\* A lookup finds the value last put under the key unless that was more than Ttl ago, was
\* cleared or was evicted, and an insertion evicts one entry when the cache is full of
\* other keys, and none otherwise (cache.rs:37-59): nothing expired is handed out, and
\* nothing fresh is lost to a lookup, a promotion or the replacement of a value.
ImplementsMap == Abstract!Spec
=============================================================================
