-------------------------- MODULE TtlCacheProofs --------------------------
(***************************************************************************)
(* Proofs about TtlCache, for every set of keys and values, capacity, time *)
(* to live and horizon.                                                    *)
(***************************************************************************)
EXTENDS TtlCache, LruProofs

\* The keys ahead of an entry in the list have been used since that entry's key was.
Ahead ==
  \A j \in DOMAIN lru :
    /\ since[lru[j].key] # None
    /\ \A i \in 1 .. j - 1 : lru[i].key \in since[lru[j].key]

SinceFinite == \A k \in Keys : since[k] # None => IsFiniteSet(since[k])

\* The inductive invariant.
IInv == TypeOK /\ Ahead /\ SinceFinite /\ WorkingSetKept

-----------------------------------------------------------------------------

\* A use starts the key's own count afresh and adds the key to the others'.
LEMMA UsedProperties ==
  ASSUME TypeOK, SinceFinite, NEW k \in Keys, Used(k)
  PROVE  /\ since' \in [Keys -> (SUBSET Keys) \cup {None}]
         /\ since'[k] = {} /\ since'[k] # None
         /\ \A j \in Keys \ {k} :
              /\ since[j] = None <=> since'[j] = None
              /\ since[j] # None => since'[j] = since[j] \cup {k}
         /\ SinceFinite'
  <1>1. \A j \in Keys \ {k} : /\ since[j] = None <=> since'[j] = None
                              /\ since[j] # None => since'[j] = since[j] \cup {k}
    BY ConstantsAssumption DEF TypeOK, Used
  <1>2. since'[k] = {} /\ since'[k] # None
    BY ConstantsAssumption DEF TypeOK, Used
  <1>3. since' \in [Keys -> (SUBSET Keys) \cup {None}]
    BY DEF TypeOK, Used
  <1>4. ASSUME NEW j \in Keys, since'[j] # None PROVE IsFiniteSet(since'[j])
    <2>1. CASE j = k
      BY <1>2, <2>1, FS_EmptySet
    <2>2. CASE j # k
      <3>1. IsFiniteSet(since[j]) /\ since'[j] = since[j] \cup {k}
        BY <1>1, <1>4, <2>2 DEF SinceFinite
      <3> QED BY <3>1, FS_AddElement
    <2> QED BY <2>1, <2>2
  <1> QED BY <1>1, <1>2, <1>3, <1>4 DEF SinceFinite

\* A use never lowers the count of another key.
LEMMA UsedCounts ==
  ASSUME TypeOK, SinceFinite, NEW k \in Keys, Used(k), NEW j \in Keys \ {k}, since[j] # None
  PROVE  Cardinality(since[j]) \in Nat /\ Cardinality(since'[j]) >= Cardinality(since[j])
  <1>1. since'[j] = since[j] \cup {k} /\ IsFiniteSet(since[j])
    BY UsedProperties DEF SinceFinite
  <1>2. Cardinality(since[j]) \in Nat
    BY <1>1, FS_CardinalityType
  <1>3. Cardinality(since[j] \cup {k}) =
          IF k \in since[j] THEN Cardinality(since[j]) ELSE Cardinality(since[j]) + 1
    BY <1>1, FS_AddElement
  <1> QED BY <1>1, <1>2, <1>3

\* The entry of a key that is looked up or put is the first, and the entries after it
\* are older entries in their old order: what that does to the keys ahead of each.
LEMMA AheadAfterUse ==
  ASSUME IInv, NEW k \in Keys, Used(k), NEW rest \in Seq(Entries), NEW e \in Entries,
         e.key = k, Distinct(rest), k \notin CachedKeys(rest), lru' = <<e>> \o rest,
         \A i \in DOMAIN rest : \E m \in DOMAIN lru : rest[i] = lru[m],
         \A i, j \in DOMAIN rest :
           i < j => \E m, n \in DOMAIN lru : m < n /\ rest[i] = lru[m] /\ rest[j] = lru[n]
  PROVE  Ahead'
  <1>1. Len(lru') = Len(rest) + 1 /\ lru' \in Seq(Entries) /\ lru'[1] = e
        /\ \A i \in 2 .. Len(rest) + 1 : i - 1 \in DOMAIN rest /\ lru'[i] = rest[i - 1]
    BY Headed
  <1>2. TypeOK /\ Ahead /\ SinceFinite
    BY DEF IInv
  <1> SUFFICES ASSUME NEW j \in DOMAIN lru'
               PROVE  /\ since'[lru'[j].key] # None
                      /\ \A i \in 1 .. j - 1 : lru'[i].key \in since'[lru'[j].key]
    BY DEF Ahead
  <1>3. CASE j = 1
    BY <1>1, <1>2, <1>3, UsedProperties
  <1>4. CASE j # 1
    <2> DEFINE q == rest[j - 1].key
    <2>1. j \in 2 .. Len(rest) + 1 /\ j - 1 \in DOMAIN rest /\ lru'[j] = rest[j - 1]
      BY <1>1, <1>4
    <2>2. q \in Keys \ {k}
      <3>1. rest[j - 1] \in Entries
        BY <2>1
      <3>2. q \in CachedKeys(rest)
        BY <2>1, Zenon DEF CachedKeys
      <3> QED BY <3>1, <3>2 DEF Entries
    <2>3. PICK n \in DOMAIN lru : rest[j - 1] = lru[n]
      BY <2>1
    <2>4. since[q] # None
      BY <1>2, <2>3 DEF Ahead
    <2>5. since'[q] # None /\ since'[q] = since[q] \cup {k}
      BY <1>2, <2>2, <2>4, UsedProperties
    <2>6. ASSUME NEW i \in 1 .. j - 1 PROVE lru'[i].key \in since'[q]
      <3>1. CASE i = 1
        BY <1>1, <2>5, <3>1
      <3>2. CASE i # 1
        <4>1. i - 1 \in DOMAIN rest /\ lru'[i] = rest[i - 1] /\ i - 1 < j - 1
          BY <1>1, <2>1, <3>2
        <4>2. PICK m, p \in DOMAIN lru :
                m < p /\ rest[i - 1] = lru[m] /\ rest[j - 1] = lru[p]
          BY <2>1, <4>1
        <4>3. lru[m].key \in since[lru[p].key]
          <5>1. m \in 1 .. p - 1
            BY <1>2, <4>2 DEF TypeOK
          <5> QED BY <1>2, <4>2, <5>1 DEF Ahead
        <4> QED BY <2>5, <4>1, <4>2, <4>3
      <3> QED BY <3>1, <3>2
    <2> QED BY <2>1, <2>5, <2>6
  <1> QED BY <1>3, <1>4

-----------------------------------------------------------------------------
(* The invariant is preserved, action by action *)

\* The invariant holds of the empty cache.
LEMMA InitEstablishes ==
  Init => IInv
  <1> SUFFICES ASSUME Init PROVE IInv
    OBVIOUS
  <1>1. TypeOK
    BY ConstantsAssumption, CapacityAssumption DEF Init, TypeOK, Empty
  <1>2. Ahead /\ SinceFinite /\ WorkingSetKept
    BY DEF Init, Ahead, SinceFinite, WorkingSetKept, Empty
  <1> QED BY <1>1, <1>2 DEF IInv

\* A use of k by which no cached key leaves keeps the working set.
LEMMA KeptByUse ==
  ASSUME TypeOK, SinceFinite, WorkingSetKept, NEW k \in Keys, Used(k),
         k \in CachedKeys(lru'), CachedKeys(lru) \subseteq CachedKeys(lru')
  PROVE  WorkingSetKept'
  <1> SUFFICES ASSUME NEW j \in Keys, since'[j] # None, j \notin CachedKeys(lru')
               PROVE  Cardinality(since'[j]) >= Capacity
    BY DEF WorkingSetKept
  <1>1. j \in Keys \ {k} /\ j \notin CachedKeys(lru)
    OBVIOUS
  <1>2. since[j] # None
    BY <1>1, UsedProperties
  <1>3. Cardinality(since[j]) >= Capacity /\ Cardinality(since[j]) \in Nat
        /\ Cardinality(since'[j]) >= Cardinality(since[j])
    BY <1>1, <1>2, UsedCounts DEF WorkingSetKept
  <1>4. Cardinality(since'[j]) \in Nat
    BY <1>1, <1>2, UsedProperties, FS_CardinalityType DEF SinceFinite
  <1> QED BY <1>3, <1>4, CapacityAssumption

\* A hit moves its entry to the front.
LEMMA GetLivePreserves ==
  ASSUME IInv, NEW k \in Keys, GetLive(k)
  PROVE  IInv'
  <1> DEFINE rest == Pop(lru, k)
             e == Peek(lru, k)
  <1>1. TypeOK /\ Ahead /\ SinceFinite /\ WorkingSetKept /\ k \in CachedKeys(lru)
        /\ Used(k) /\ lru' = <<e>> \o rest /\ now' = now /\ reply' = e.val
    BY DEF IInv, GetLive, Promote
  <1>2. lru \in Seq(Entries) /\ Distinct(lru) /\ Len(lru) <= Capacity
    BY <1>1 DEF TypeOK, Distinct
  <1>3. \E m \in DOMAIN lru : e = lru[m] /\ e.key = k
    BY <1>1, PositionFinds DEF Peek
  <1>4. e \in Entries /\ e.at <= now
    BY <1>1, <1>2, <1>3 DEF TypeOK
  <1>5. /\ rest \in Seq(Entries) /\ Len(rest) = Len(lru) - 1 /\ Distinct(rest)
        /\ CachedKeys(rest) = CachedKeys(lru) \ {k}
        /\ \A i \in DOMAIN rest : \E m \in DOMAIN lru : rest[i] = lru[m]
        /\ \A i, j \in DOMAIN rest :
             i < j => \E m, n \in DOMAIN lru : m < n /\ rest[i] = lru[m] /\ rest[j] = lru[n]
    BY <1>1, <1>2, PopProperties
  <1> HIDE DEF rest, e
  <1>6. /\ lru' \in Seq(Entries) /\ Len(lru') = Len(lru) /\ Distinct(lru')
        /\ CachedKeys(lru') = CachedKeys(lru)
        /\ lru'[1] = e /\ \A i \in 2 .. Len(rest) + 1 :
                             i - 1 \in DOMAIN rest /\ lru'[i] = rest[i - 1]
    <2>1. /\ lru' \in Seq(Entries) /\ Len(lru') = Len(rest) + 1 /\ Distinct(lru')
          /\ CachedKeys(lru') = CachedKeys(rest) \cup {e.key}
          /\ lru'[1] = e /\ \A i \in 2 .. Len(rest) + 1 :
                               i - 1 \in DOMAIN rest /\ lru'[i] = rest[i - 1]
      BY <1>1, <1>3, <1>4, <1>5, Headed
    <2>2. Len(rest) + 1 = Len(lru)
      BY <1>2, <1>5
    <2>3. CachedKeys(lru') = CachedKeys(lru)
      <3>1. e.key = k /\ k \in CachedKeys(lru)
        BY <1>1, <1>3
      <3>2. CachedKeys(lru') = (CachedKeys(lru) \ {k}) \cup {k}
        BY <1>5, <2>1, <3>1
      <3> QED BY <3>1, <3>2
    <2> QED BY <2>1, <2>2, <2>3, Zenon
  <1>7. Ahead'
    BY <1>1, <1>3, <1>4, <1>5, AheadAfterUse
  <1>8. SinceFinite' /\ since' \in [Keys -> (SUBSET Keys) \cup {None}]
    BY <1>1, UsedProperties
  <1>9. WorkingSetKept'
    BY <1>1, <1>6, KeptByUse
  <1>10. TypeOK'
    <2>1. ASSUME NEW i \in DOMAIN lru' PROVE lru'[i].at <= now
      <3>1. CASE i = 1
        BY <1>4, <1>6, <3>1
      <3>2. CASE i # 1
        <4>1. i - 1 \in DOMAIN rest /\ lru'[i] = rest[i - 1]
          BY <1>2, <1>5, <1>6, <3>2
        <4> QED BY <1>1, <1>5, <4>1 DEF TypeOK
      <3> QED BY <3>1, <3>2
    <2>2. reply' \in Values
      BY <1>1, <1>4 DEF Entries
    <2> QED BY <1>1, <1>2, <1>6, <1>8, <2>1, <2>2 DEF TypeOK, Distinct
  <1> QED BY <1>7, <1>8, <1>9, <1>10 DEF IInv

\* A put leaves room for its entry and evicts the last one at most.
LEMMA PutEntryPreserves ==
  ASSUME IInv, NEW k \in Keys, NEW v \in Values, PutEntry(k, v)
  PROVE  IInv'
  <1> DEFINE old == Pop(lru, k)
             e == [key |-> k, at |-> now, val |-> v]
             rest == Kept(lru, e)
  <1>1. TypeOK /\ Ahead /\ SinceFinite /\ WorkingSetKept
        /\ Used(k) /\ lru' = <<e>> \o rest /\ now' = now /\ reply' = reply
    BY DEF IInv, PutEntry, Put, Kept
  <1>2. lru \in Seq(Entries) /\ Distinct(lru) /\ Len(lru) <= Capacity
    BY <1>1 DEF TypeOK, Distinct
  <1>3. e \in Entries /\ e.key = k /\ e.at = now
    BY <1>1 DEF TypeOK, Entries
  <1>4. /\ old \in Seq(Entries) /\ Len(old) <= Len(lru) /\ Distinct(old)
        /\ CachedKeys(old) = CachedKeys(lru) \ {k}
        /\ \A i \in DOMAIN old : \E m \in DOMAIN lru : old[i] = lru[m]
        /\ \A i, j \in DOMAIN old :
             i < j => \E m, n \in DOMAIN lru : m < n /\ old[i] = lru[m] /\ old[j] = lru[n]
    <2>1. /\ old \in Seq(Entries) /\ Distinct(old)
          /\ CachedKeys(old) = CachedKeys(lru) \ {k}
          /\ \A i \in DOMAIN old : \E m \in DOMAIN lru : old[i] = lru[m]
          /\ \A i, j \in DOMAIN old :
               i < j => \E m, n \in DOMAIN lru : m < n /\ old[i] = lru[m] /\ old[j] = lru[n]
      BY <1>2, PopProperties
    <2>2. Len(old) = IF k \in CachedKeys(lru) THEN Len(lru) - 1 ELSE Len(lru)
      BY <1>2, PopProperties
    <2>3. Len(old) <= Len(lru)
      BY <1>2, <2>2
    <2> QED BY <2>1, <2>3, Zenon
  <1>5. /\ rest \in Seq(Entries) /\ Len(rest) < Capacity /\ Len(rest) <= Len(old)
        /\ \A i \in 1 .. Len(rest) : rest[i] = old[i]
        /\ Len(rest) < Len(old) => Len(old) = Capacity /\ Len(rest) = Capacity - 1
    BY <1>2, <1>3, KeptPrefix
  <1> HIDE DEF old, rest, e
  <1>6. \A i \in DOMAIN rest : i \in DOMAIN old /\ rest[i] = old[i]
    BY <1>4, <1>5
  <1>7. /\ Distinct(rest) /\ k \notin CachedKeys(rest)
        /\ \A i \in DOMAIN rest : \E m \in DOMAIN lru : rest[i] = lru[m]
        /\ \A i, j \in DOMAIN rest :
             i < j => \E m, n \in DOMAIN lru : m < n /\ rest[i] = lru[m] /\ rest[j] = lru[n]
    BY <1>2, <1>3, KeptProperties DEF rest
  <1>8. /\ lru' \in Seq(Entries) /\ Len(lru') = Len(rest) + 1 /\ Distinct(lru')
        /\ CachedKeys(lru') = CachedKeys(rest) \cup {k}
        /\ lru'[1] = e /\ \A i \in 2 .. Len(rest) + 1 :
                             i - 1 \in DOMAIN rest /\ lru'[i] = rest[i - 1]
    BY <1>1, <1>3, <1>5, <1>7, Headed
  <1>9. Ahead'
    BY <1>1, <1>3, <1>5, <1>7, AheadAfterUse
  <1>10. SinceFinite' /\ since' \in [Keys -> (SUBSET Keys) \cup {None}]
    BY <1>1, UsedProperties
  <1>11. WorkingSetKept'
    <2>1. CASE Len(rest) = Len(old)
      <3>1. CachedKeys(rest) = CachedKeys(old)
        <4>1. DOMAIN rest = DOMAIN old
          BY <1>4, <1>5, <2>1
        <4> QED BY <1>6, <4>1, Zenon DEF CachedKeys
      <3>2. k \in CachedKeys(lru') /\ CachedKeys(lru) \subseteq CachedKeys(lru')
        BY <1>4, <1>8, <3>1
      <3> QED BY <1>1, <3>2, KeptByUse
    <2>2. CASE Len(rest) < Len(old)
      <3> SUFFICES ASSUME NEW j \in Keys, since'[j] # None, j \notin CachedKeys(lru')
                   PROVE  Cardinality(since'[j]) >= Capacity
        BY DEF WorkingSetKept
      <3>1. j \in Keys \ {k}
        BY <1>8
      <3>2. since[j] # None /\ since'[j] = since[j] \cup {k}
        BY <1>1, <3>1, UsedProperties
      <3>3. IsFiniteSet(since'[j]) /\ Cardinality(since'[j]) \in Nat
        BY <1>10, FS_CardinalityType DEF SinceFinite
      \* It left the cache earlier, and its count has not gone down.
      <3>4. CASE j \notin CachedKeys(lru)
        <4>1. Cardinality(since[j]) >= Capacity /\ Cardinality(since[j]) \in Nat
              /\ Cardinality(since'[j]) >= Cardinality(since[j])
          BY <1>1, <3>1, <3>2, <3>4, UsedCounts DEF WorkingSetKept
        <4> QED BY <3>3, <4>1, CapacityAssumption
      \* It is the one evicted: the keys of the new list have all been used since.
      <3>5. CASE j \in CachedKeys(lru)
        <4>1. Len(old) = Capacity /\ Len(rest) = Capacity - 1 /\ Len(lru') = Capacity
          BY <1>5, <1>8, <2>2, CapacityAssumption
        <4>2. old[Capacity].key = j
          <5>1. PICK i \in DOMAIN old : old[i].key = j
            <6>1. j \in CachedKeys(old)
              BY <1>4, <3>1, <3>5
            <6> QED BY <6>1, Zenon DEF CachedKeys
          <5>2. i = Capacity
            <6>1. CASE i \in 1 .. Len(rest)
              <7>1. i \in DOMAIN rest /\ rest[i].key = j
                BY <1>5, <5>1, <6>1
              <7>2. j \in CachedKeys(rest)
                BY <7>1 DEF CachedKeys
              <7> QED BY <1>8, <7>2
            <6>2. CASE i \notin 1 .. Len(rest)
              BY <1>4, <4>1, <5>1, <6>2, CapacityAssumption
            <6> QED BY <6>1, <6>2
          <5> QED BY <5>1, <5>2
        <4> DEFINE f == [i \in 1 .. Capacity |-> lru'[i].key]
        <4>3. ASSUME NEW i \in 1 .. Capacity PROVE lru'[i].key \in since'[j]
          <5>1. CASE i = 1
            BY <1>3, <1>8, <3>2, <5>1
          <5>2. CASE i # 1
            <6>1. i - 1 \in DOMAIN rest /\ lru'[i] = rest[i - 1]
              BY <1>8, <4>1, <5>2, CapacityAssumption
            <6>2. i - 1 \in DOMAIN old /\ lru'[i] = old[i - 1]
              BY <1>6, <6>1
            <6>3. Capacity \in DOMAIN old /\ i - 1 < Capacity
              BY <1>4, <4>1, CapacityAssumption
            <6>4. PICK m, n \in DOMAIN lru :
                    m < n /\ old[i - 1] = lru[m] /\ old[Capacity] = lru[n]
              BY <1>4, <6>2, <6>3
            <6>5. lru[m].key \in since[lru[n].key]
              <7>1. m \in 1 .. n - 1
                BY <1>2, <6>4
              <7> QED BY <1>1, <6>4, <7>1 DEF Ahead
            <6> QED BY <3>2, <4>2, <6>2, <6>4, <6>5
          <5> QED BY <5>1, <5>2
        <4>4. f \in Injection(1 .. Capacity, since'[j])
          <5>1. f \in [1 .. Capacity -> since'[j]]
            BY <4>3
          <5>2. \A m, n \in 1 .. Capacity : f[m] = f[n] => m = n
            BY <1>8, <4>1 DEF Distinct
          <5> QED BY <5>1, <5>2 DEF Injection, IsInjective
        <4>5. Cardinality(1 .. Capacity) <= Cardinality(since'[j])
          <5> HIDE DEF f
          <5> QED BY <3>3, <4>4, FS_Injection
        <4>6. Cardinality(1 .. Capacity) = Capacity
          BY CapacityAssumption, FS_Interval
        <4> QED BY <4>5, <4>6, CapacityAssumption, <3>3
      <3> QED BY <3>4, <3>5
    <2> QED BY <1>4, <1>5, <2>1, <2>2
  <1>12. TypeOK'
    <2>1. ASSUME NEW i \in DOMAIN lru' PROVE lru'[i].at <= now
      <3>1. CASE i = 1
        BY <1>1, <1>3, <1>8, <3>1 DEF TypeOK
      <3>2. CASE i # 1
        <4>1. i - 1 \in DOMAIN rest /\ lru'[i] = rest[i - 1]
          BY <1>5, <1>8, <3>2
        <4> QED BY <1>1, <1>7, <4>1 DEF TypeOK
      <3> QED BY <3>1, <3>2
    <2>2. Len(lru') <= Capacity
      BY <1>5, <1>8, CapacityAssumption
    <2> QED BY <1>1, <1>8, <1>10, <2>1, <2>2 DEF TypeOK, Distinct
  <1> QED BY <1>9, <1>10, <1>11, <1>12 DEF IInv

\* An expired entry leaves the list.
LEMMA GetExpiredPreserves ==
  ASSUME IInv, NEW k \in Keys, GetExpired(k)
  PROVE  IInv'
  <1>1. TypeOK /\ Ahead /\ SinceFinite /\ WorkingSetKept
        /\ lru' = Pop(lru, k) /\ now' = now /\ reply' = None
        /\ since' = [since EXCEPT ![k] = None]
    BY DEF IInv, GetExpired
  <1>2. lru \in Seq(Entries) /\ Distinct(lru) /\ Len(lru) <= Capacity
    BY <1>1 DEF TypeOK, Distinct
  <1>3. /\ lru' \in Seq(Entries) /\ Distinct(lru')
        /\ CachedKeys(lru') = CachedKeys(lru) \ {k}
        /\ \A i \in DOMAIN lru' : \E m \in DOMAIN lru : lru'[i] = lru[m]
        /\ \A i, j \in DOMAIN lru' :
             i < j => \E m, n \in DOMAIN lru : m < n /\ lru'[i] = lru[m] /\ lru'[j] = lru[n]
    BY <1>1, <1>2, PopProperties
  <1>4. Len(lru') <= Capacity
    <2>1. Len(lru') = IF k \in CachedKeys(lru) THEN Len(lru) - 1 ELSE Len(lru)
      BY <1>1, <1>2, PopProperties
    <2> QED BY <1>2, <2>1, CapacityAssumption
  <1>5. since' \in [Keys -> (SUBSET Keys) \cup {None}] /\ since'[k] = None
        /\ \A j \in Keys \ {k} : since'[j] = since[j]
    BY <1>1 DEF TypeOK
  <1>6. Ahead'
    <2> SUFFICES ASSUME NEW j \in DOMAIN lru'
                 PROVE  /\ since'[lru'[j].key] # None
                        /\ \A i \in 1 .. j - 1 : lru'[i].key \in since'[lru'[j].key]
      BY DEF Ahead
    <2>1. lru'[j].key \in Keys \ {k}
      <3>1. lru'[j] \in Entries
        BY <1>3
      <3>2. lru'[j].key \in CachedKeys(lru')
        BY Zenon DEF CachedKeys
      <3> QED BY <1>3, <3>1, <3>2 DEF Entries
    <2>2. since'[lru'[j].key] = since[lru'[j].key]
      BY <1>5, <2>1
    <2>3. since[lru'[j].key] # None
      BY <1>1, <1>3 DEF Ahead
    <2>4. ASSUME NEW i \in 1 .. j - 1 PROVE lru'[i].key \in since[lru'[j].key]
      <3>1. i \in DOMAIN lru' /\ i < j
        BY <1>3
      <3>2. PICK m, n \in DOMAIN lru : m < n /\ lru'[i] = lru[m] /\ lru'[j] = lru[n]
        BY <1>3, <3>1
      <3>3. m \in 1 .. n - 1
        BY <1>2, <3>2
      <3> QED BY <1>1, <3>2, <3>3 DEF Ahead
    <2> QED BY <2>2, <2>3, <2>4
  <1>7. SinceFinite'
    BY <1>1, <1>5 DEF SinceFinite
  <1>8. WorkingSetKept'
    BY <1>1, <1>3, <1>5 DEF WorkingSetKept
  <1>9. TypeOK'
    <2>1. \A i \in DOMAIN lru' : lru'[i].at <= now'
      BY <1>1, <1>3 DEF TypeOK
    <2> QED BY <1>1, <1>3, <1>4, <1>5, <2>1 DEF TypeOK, Distinct
  <1> QED BY <1>6, <1>7, <1>8, <1>9 DEF IInv

\* Clearing leaves nothing.
LEMMA ClearPreserves ==
  ASSUME IInv, Clear
  PROVE  IInv'
  <1>1. TypeOK /\ lru' = <<>> /\ since' = [k \in Keys |-> None] /\ now' = now /\ reply' = reply
    BY DEF IInv, Clear, Empty
  <1>2. TypeOK'
    BY <1>1, CapacityAssumption DEF TypeOK
  <1>3. Ahead' /\ SinceFinite' /\ WorkingSetKept'
    BY <1>1 DEF Ahead, SinceFinite, WorkingSetKept
  <1> QED BY <1>2, <1>3 DEF IInv

\* Every step preserves the invariant.
LEMMA NextPreserves ==
  IInv /\ [Next]_vars => IInv'
  <1> SUFFICES ASSUME IInv, [Next]_vars PROVE IInv'
    OBVIOUS
  <1>1. CASE \E k \in Keys : GetAbsent(k)
    <2>1. UNCHANGED <<lru, now, since>> /\ reply' = None
      BY <1>1 DEF GetAbsent
    <2> QED BY <2>1 DEF IInv, TypeOK, Ahead, SinceFinite, WorkingSetKept, CachedKeys
  <1>2. CASE Tick
    <2>1. UNCHANGED <<lru, reply, since>> /\ now' = now + 1
      BY <1>2 DEF Tick
    <2>2. TypeOK /\ lru \in Seq(Entries)
      BY DEF IInv, TypeOK
    <2>3. \A i \in DOMAIN lru : lru[i].at <= now + 1
      <3> SUFFICES ASSUME NEW i \in DOMAIN lru PROVE lru[i].at <= now + 1
        OBVIOUS
      <3>1. lru[i] \in Entries /\ lru[i].at <= now /\ now \in Nat
        BY <2>2 DEF TypeOK
      <3> QED BY <3>1 DEF Entries
    <2>4. TypeOK'
      BY <2>1, <2>2, <2>3 DEF TypeOK
    <2>5. Ahead' /\ SinceFinite' /\ WorkingSetKept'
      BY <2>1 DEF IInv, Ahead, SinceFinite, WorkingSetKept, CachedKeys
    <2> QED BY <2>4, <2>5 DEF IInv
  <1>3. CASE UNCHANGED vars
    BY <1>3 DEF vars, IInv, TypeOK, Ahead, SinceFinite, WorkingSetKept, CachedKeys
  <1> QED BY <1>1, <1>2, <1>3, GetLivePreserves, GetExpiredPreserves, PutEntryPreserves,
             ClearPreserves DEF Next

\* The inductive invariant of the cache.
LEMMA Invariance ==
  Spec => []IInv
  BY InitEstablishes, NextPreserves, PTL DEF Spec

\* The representation invariant of the LRU list: it is bounded by the capacity, holds one
\* entry per key and no entry from the future.
THEOREM TypeCorrect ==
  Spec => []TypeOK
  <1>1. IInv => TypeOK
    BY DEF IInv
  <1> QED BY <1>1, Invariance, PTL

\* A key leaves the cache only for as many other keys as it has room for, each used since
\* the key last was (WorkingSetKept: cache.rs:1, client.rs:98).
THEOREM WorkingSetIsKept ==
  Spec => []WorkingSetKept
  <1>1. IInv => WorkingSetKept
    BY DEF IInv
  <1> QED BY <1>1, Invariance, PTL
-----------------------------------------------------------------------------
(* Refinement of TtlMap *)

\* What is stored is a record, not the missing entry.
LEMMA StoredIsSome ==
  ASSUME TypeOK
  PROVE  /\ CachedKeys(lru) \subseteq Keys
         /\ \A k \in CachedKeys(lru) : storeBar[k] # None
         /\ \A k \in Keys \ CachedKeys(lru) : storeBar[k] = None
         /\ \A v \in Values : [val |-> v, at |-> now] # None
  <1>1. CachedKeys(lru) \subseteq Keys
    <2>1. \A i \in DOMAIN lru : lru[i] \in Entries
      BY DEF TypeOK
    <2>2. \A x \in Entries : x.key \in Keys
      BY DEF Entries
    <2> QED BY <2>1, <2>2, Zenon DEF CachedKeys
  <1>2. ASSUME NEW k \in CachedKeys(lru) PROVE storeBar[k] # None
    <2>1. Peek(lru, k) \in Entries
      BY PositionFinds DEF TypeOK, Peek
    <2>2. storeBar[k] = [val |-> Peek(lru, k).val, at |-> Peek(lru, k).at]
      BY <1>1 DEF storeBar
    <2> QED BY <2>1, <2>2, ConstantsAssumption DEF Entries
  <1>3. \A k \in Keys \ CachedKeys(lru) : storeBar[k] = None
    BY DEF storeBar
  <1>4. \A v \in Values : [val |-> v, at |-> now] # None
    BY ConstantsAssumption DEF TypeOK
  <1> QED BY <1>1, <1>2, <1>3, <1>4

\* The map has an entry per cached key, so as many as the list is long.
LEMMA SizeIsLength ==
  ASSUME TypeOK
  PROVE  Abstract!Size(storeBar) = Len(lru)
  <1>1. {k \in Keys : storeBar[k] # None} = CachedKeys(lru)
    BY StoredIsSome
  <1>2. Cardinality(CachedKeys(lru)) = Len(lru)
    BY KeysCounted DEF TypeOK, Distinct
  <1>3. Abstract!Size(storeBar) = Cardinality({k \in Keys : storeBar[k] # None})
    BY Zenon DEF Abstract!Size, Abstract!Cardinality, Cardinality
  <1> QED BY <1>1, <1>2, <1>3

\* The empty list is the empty map.
LEMMA InitMaps ==
  Init => Abstract!Init
  BY DEF Init, Abstract!Init, storeBar, CachedKeys, Empty

\* Promoting k's live entry: the map has it, young enough, and stays as it is.
LEMMA GetLiveMaps ==
  ASSUME IInv, NEW k \in Keys, GetLive(k)
  PROVE  Abstract!Hit(k)
  <1>1. lru \in Seq(Entries) /\ Distinct(lru) /\ now \in Nat
    BY DEF IInv, TypeOK, Distinct
  <1>2. k \in CachedKeys(lru) /\ lru' = Promote(lru, k) /\ now' = now
        /\ ~(now - Peek(lru, k).at > Ttl) /\ reply' = Peek(lru, k).val
    BY DEF GetLive, Expired
  <1>3. storeBar[k] = [val |-> Peek(lru, k).val, at |-> Peek(lru, k).at]
    BY <1>2 DEF storeBar
  <1>4. storeBar[k] # None
    BY <1>2, StoredIsSome DEF IInv
  <1>5. ~(now - storeBar[k].at > Ttl) /\ reply' = storeBar[k].val
    BY <1>2, <1>3
  <1>6. storeBar' = storeBar
    BY <1>1, <1>2, PromoteLooksUp DEF storeBar
  <1> QED BY <1>2, <1>4, <1>5, <1>6 DEF Abstract!Hit, Abstract!Expired

\* An expired entry is a miss, and the map forgets the key.
LEMMA GetExpiredMaps ==
  ASSUME IInv, NEW k \in Keys, GetExpired(k)
  PROVE  Abstract!Miss(k)
  <1>1. lru \in Seq(Entries) /\ Distinct(lru)
    BY DEF IInv, TypeOK, Distinct
  <1>2. k \in CachedKeys(lru) /\ lru' = Pop(lru, k) /\ reply' = None /\ now' = now
        /\ now - Peek(lru, k).at > Ttl
    BY DEF GetExpired, Expired
  <1>3. /\ Distinct(lru') /\ CachedKeys(lru') = CachedKeys(lru) \ {k}
        /\ \A i \in DOMAIN lru' : \E m \in DOMAIN lru : lru'[i] = lru[m]
    BY <1>1, <1>2, PopProperties
  <1>4. \A j \in CachedKeys(lru') : Peek(lru', j) = Peek(lru, j)
    BY <1>1, <1>3, PeekKept
  <1>5. storeBar' = [storeBar EXCEPT ![k] = None]
    BY <1>3, <1>4 DEF storeBar
  <1>6. now - storeBar[k].at > Ttl
    <2>1. storeBar[k] = [val |-> Peek(lru, k).val, at |-> Peek(lru, k).at]
      BY <1>2 DEF storeBar
    <2> QED BY <1>2, <2>1
  <1> QED BY <1>2, <1>5, <1>6 DEF Abstract!Miss, Abstract!Expired

\* No entry is a miss, and the map forgets nothing.
LEMMA GetAbsentMaps ==
  ASSUME NEW k \in Keys, GetAbsent(k)
  PROVE  Abstract!Miss(k)
  <1>1. k \notin CachedKeys(lru) /\ lru' = lru /\ now' = now /\ reply' = None
    BY DEF GetAbsent
  <1>2. storeBar[k] = None
    BY <1>1 DEF storeBar
  <1>3. storeBar' = [storeBar EXCEPT ![k] = None]
    BY <1>1, <1>2 DEF storeBar
  <1> QED BY <1>1, <1>2, <1>3 DEF Abstract!Miss

\* An insertion stores the value and the time; it drops one other entry when the list is
\* full of other keys.
LEMMA PutEntryMaps ==
  ASSUME IInv, IInv', NEW k \in Keys, NEW v \in Values, PutEntry(k, v)
  PROVE  Abstract!Put(k, v)
  <1> DEFINE e == [key |-> k, at |-> now, val |-> v]
             put == Abstract!Stored(k, v)
  <1>1. /\ lru \in Seq(Entries) /\ Distinct(lru) /\ Len(lru) <= Capacity /\ now \in Nat
        /\ Len(lru) \in Nat
    BY DEF IInv, TypeOK, Distinct
  <1>2. lru' = Put(lru, e) /\ now' = now /\ reply' = reply
    BY DEF PutEntry
  <1>3. e \in Entries /\ e.key = k /\ e.val = v /\ e.at = now
    BY <1>1 DEF Entries
  <1> HIDE DEF e
  <1>4. /\ k \in CachedKeys(lru') /\ Peek(lru', k) = e
        /\ \A j \in CachedKeys(lru') \ {k} : j \in CachedKeys(lru) /\ Peek(lru', j) = Peek(lru, j)
    BY <1>1, <1>2, <1>3, PutLooksUp
  <1>5. put \in [Keys -> {put[j] : j \in Keys}] /\ put[k] = [val |-> v, at |-> now]
        /\ \A j \in Keys \ {k} : put[j] = storeBar[j]
    BY DEF Abstract!Stored, storeBar
  <1>6. put[k] # None
    BY <1>5, StoredIsSome DEF IInv
  <1> HIDE DEF put
  <1>7. \A j \in Keys : j \in CachedKeys(lru') => storeBar'[j] = put[j]
    BY <1>3, <1>4, <1>5 DEF storeBar
  <1>8. \A j \in Keys : j \notin CachedKeys(lru') => storeBar'[j] = None
    BY DEF storeBar
  <1>9. Abstract!Size(put) = Cardinality({j \in Keys : put[j] # None})
    BY Zenon DEF Abstract!Size, Abstract!Cardinality, Cardinality
  <1>10. {j \in Keys : put[j] # None} = CachedKeys(lru) \cup {k}
    BY <1>5, <1>6, StoredIsSome DEF IInv
  <1>11. CASE CachedKeys(lru') = CachedKeys(lru) \cup {k}
    <2>1. storeBar' = put
      <3>1. \A j \in Keys : storeBar'[j] = put[j]
        BY <1>5, <1>7, <1>8, <1>10, <1>11
      <3> QED BY <1>5, <3>1 DEF storeBar
    <2>2. Abstract!Size(put) <= Capacity
      <3>1. (Abstract!Size(storeBar) = Len(lru))'
        <4>1. TypeOK'
          BY DEF IInv
        <4> QED BY <4>1, SizeIsLength, PTL
      <3>2. Len(lru') <= Capacity
        BY DEF IInv, TypeOK
      <3> QED BY <2>1, <3>1, <3>2
    <2> QED BY <1>2, <2>1, <2>2 DEF Abstract!Put, put
  <1>12. ASSUME k \notin CachedKeys(lru), Len(lru) = Capacity, NEW j \in CachedKeys(lru),
                CachedKeys(lru') = (CachedKeys(lru) \ {j}) \cup {k}
         PROVE  Abstract!Put(k, v)
    <2>1. j \in Keys \ {k} /\ storeBar[j] # None
      BY <1>12, StoredIsSome DEF IInv
    <2>2. storeBar' = [put EXCEPT ![j] = None]
      <3>1. \A i \in Keys : storeBar'[i] = [put EXCEPT ![j] = None][i]
        BY <1>5, <1>7, <1>8, <1>10, <1>12, <2>1
      <3> QED BY <1>5, <3>1 DEF storeBar
    <2>3. ~(Abstract!Size(put) <= Capacity)
      <3>1. IsFiniteSet(CachedKeys(lru)) /\ Cardinality(CachedKeys(lru)) = Len(lru)
        BY <1>1, KeysCounted
      <3>2. Cardinality(CachedKeys(lru) \cup {k}) = Len(lru) + 1
        BY <1>12, <3>1, FS_AddElement
      <3>3. Abstract!Size(put) = Capacity + 1
        BY <1>9, <1>10, <1>12, <3>2, Zenon
      <3> QED BY <3>3, CapacityAssumption
    <2> QED BY <1>2, <2>1, <2>2, <2>3 DEF Abstract!Put, put
  <1> QED BY <1>1, <1>2, <1>3, <1>11, <1>12, PutEvicts

\* Every step is one of the map's, or a stutter.
LEMMA NextRefines ==
  IInv /\ IInv' /\ [Next]_vars => [Abstract!Next]_Abstract!vars
  <1> SUFFICES ASSUME IInv, IInv', [Next]_vars PROVE [Abstract!Next]_Abstract!vars
    OBVIOUS
  <1>1. CASE \E k \in Keys : GetLive(k) \/ GetExpired(k) \/ GetAbsent(k)
    BY <1>1, GetLiveMaps, GetExpiredMaps, GetAbsentMaps DEF Abstract!Next
  <1>2. CASE \E k \in Keys : \E v \in Values : PutEntry(k, v)
    BY <1>2, PutEntryMaps DEF Abstract!Next
  <1>3. CASE Clear
    <2>1. lru' = <<>> /\ now' = now /\ reply' = reply
      BY <1>3 DEF Clear, Empty
    <2>2. storeBar' = [k \in Keys |-> None]
      BY <2>1 DEF storeBar, CachedKeys
    <2> QED BY <2>1, <2>2 DEF Abstract!Next, Abstract!Clear
  <1>4. CASE Tick
    <2>1. lru' = lru /\ reply' = reply /\ now' = now + 1
      BY <1>4 DEF Tick
    <2> QED BY <2>1 DEF storeBar, Abstract!Next, Abstract!Tick
  <1>5. CASE UNCHANGED vars
    BY <1>5 DEF vars, storeBar, Abstract!vars
  <1> QED BY <1>1, <1>2, <1>3, <1>4, <1>5 DEF Next

\* The cache implements the map: a lookup finds the value last put under the key unless it
\* expired, was cleared or was evicted, and only an insertion that finds the cache full of
\* other keys evicts, one entry.
THEOREM CacheImplementsMap ==
  Spec => ImplementsMap
  BY InitMaps, NextRefines, Invariance, PTL DEF Spec, ImplementsMap, Abstract!Spec
=============================================================================
