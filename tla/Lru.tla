-------------------------------- MODULE Lru --------------------------------
(***************************************************************************)
(* The bounded map of the lru crate as cache.rs uses it: peek, get, put,    *)
(* pop and clear of an LruCache.  A cache is the sequence of its entries,   *)
(* most recently used first, at most one entry per key.                     *)
(***************************************************************************)
EXTENDS Integers, Sequences, SequencesExt

CONSTANT Capacity  \* CacheConfig.capacity, a NonZeroUsize

ASSUME CapacityAssumption == Capacity \in Nat \ {0}

Empty == <<>>

CachedKeys(cache) == {cache[i].key : i \in DOMAIN cache}

Position(cache, k) == CHOOSE i \in DOMAIN cache : cache[i].key = k

\* Look without counting as a use.
Peek(cache, k) == cache[Position(cache, k)]

Pop(cache, k) ==
  IF k \in CachedKeys(cache) THEN RemoveAt(cache, Position(cache, k)) ELSE cache

\* A use moves the entry to the front.
Promote(cache, k) ==
  IF k \in CachedKeys(cache) THEN <<Peek(cache, k)>> \o Pop(cache, k) ELSE cache

\* Mutant: nothing is evicted.
PutUnbounded(cache, entry) == <<entry>> \o Pop(cache, entry.key)

\* Replace the key's entry, or make room by dropping the least recently used one.
Put(cache, entry) ==
  LET rest == Pop(cache, entry.key)
  IN  <<entry>> \o (IF Len(rest) < Capacity THEN rest ELSE Front(rest))
=============================================================================
