----------------------------- MODULE LruProofs -----------------------------
(***************************************************************************)
(* What the operators of Lru do to a list that has one entry per key.       *)
(***************************************************************************)
EXTENDS Lru, FiniteSetTheorems, SequenceTheorems, TLAPS

Distinct(cache) == \A i, j \in DOMAIN cache : cache[i].key = cache[j].key => i = j

\* The position found for a cached key holds an entry of that key.
LEMMA PositionFinds ==
  ASSUME NEW cache, NEW k \in CachedKeys(cache)
  PROVE  Position(cache, k) \in DOMAIN cache /\ cache[Position(cache, k)].key = k
  BY DEF CachedKeys, Position

\* With one entry per key, looking for an entry's key finds that entry.
LEMMA PeekFinds ==
  ASSUME NEW cache, Distinct(cache), NEW i \in DOMAIN cache
  PROVE  Position(cache, cache[i].key) = i /\ Peek(cache, cache[i].key) = cache[i]
  BY DEF Distinct, Position, Peek

\* A list is one entry shorter without its p-th, and the later ones move up.
LEMMA RemoveAtShifts ==
  ASSUME NEW T, NEW s \in Seq(T), NEW p \in 1 .. Len(s)
  PROVE  /\ RemoveAt(s, p) \in Seq(T)
         /\ Len(RemoveAt(s, p)) = Len(s) - 1
         /\ \A i \in 1 .. Len(s) - 1 : RemoveAt(s, p)[i] = IF i < p THEN s[i] ELSE s[i + 1]
  <1> DEFINE a == SubSeq(s, 1, p - 1)
             b == SubSeq(s, p + 1, Len(s))
  <1>1. a \in Seq(T) /\ Len(a) = p - 1 /\ \A i \in 1 .. p - 1 : a[i] = s[i]
    OBVIOUS
  <1>2. b \in Seq(T) /\ Len(b) = Len(s) - p /\ \A i \in 1 .. Len(s) - p : b[i] = s[p + i]
    OBVIOUS
  <1>3. RemoveAt(s, p) = a \o b
    BY DEF RemoveAt
  <1> HIDE DEF a, b
  <1>4. a \o b \in Seq(T)
    BY <1>1, <1>2
  <1>6. Len(a \o b) = Len(s) - 1
    <2>1. Len(a \o b) = Len(a) + Len(b)
      BY <1>1, <1>2, ConcatProperties
    <2>2. Len(a) + Len(b) = Len(s) - 1
      BY <1>1, <1>2
    <2> QED BY <2>1, <2>2
  <1>5. ASSUME NEW i \in 1 .. Len(s) - 1
        PROVE  (a \o b)[i] = IF i < p THEN s[i] ELSE s[i + 1]
    BY <1>1, <1>2
  <1> QED BY <1>3, <1>4, <1>5, <1>6

\* Removing a key's entry keeps the others and their order.
LEMMA PopProperties ==
  ASSUME NEW T, NEW s \in Seq(T), Distinct(s), NEW k
  PROVE  /\ Pop(s, k) \in Seq(T)
         /\ Len(Pop(s, k)) = IF k \in CachedKeys(s) THEN Len(s) - 1 ELSE Len(s)
         /\ Distinct(Pop(s, k))
         /\ CachedKeys(Pop(s, k)) = CachedKeys(s) \ {k}
         /\ \A i \in DOMAIN Pop(s, k) : \E m \in DOMAIN s : Pop(s, k)[i] = s[m]
         /\ \A i, j \in DOMAIN Pop(s, k) :
              i < j => \E m, n \in DOMAIN s : m < n /\ Pop(s, k)[i] = s[m] /\ Pop(s, k)[j] = s[n]
  <1>1. CASE k \notin CachedKeys(s)
    BY <1>1 DEF Pop, CachedKeys
  <1>2. CASE k \in CachedKeys(s)
    <2> DEFINE p == Position(s, k)
               r == Pop(s, k)
    <2>1. p \in 1 .. Len(s) /\ s[p].key = k
      BY <1>2, PositionFinds
    <2>2. r \in Seq(T) /\ Len(r) = Len(s) - 1
          /\ \A i \in 1 .. Len(s) - 1 : r[i] = IF i < p THEN s[i] ELSE s[i + 1]
      BY <1>2, <2>1, RemoveAtShifts DEF Pop
    <2> HIDE DEF p, r
    <2>3. Distinct(r)
      <3> SUFFICES ASSUME NEW i \in DOMAIN r, NEW j \in DOMAIN r, r[i].key = r[j].key
                   PROVE  i = j
        BY DEF Distinct
      <3> DEFINE m == IF i < p THEN i ELSE i + 1
                 n == IF j < p THEN j ELSE j + 1
      <3>1. m \in DOMAIN s /\ n \in DOMAIN s /\ s[m].key = s[n].key
        BY <2>1, <2>2
      <3>2. m = n
        BY <3>1 DEF Distinct
      <3> QED BY <2>1, <2>2, <3>2
    <2>4. CachedKeys(r) = CachedKeys(s) \ {k}
      <3>1. ASSUME NEW i \in DOMAIN r PROVE r[i].key \in CachedKeys(s) \ {k}
        BY <2>1, <2>2 DEF Distinct, CachedKeys
      <3>2. ASSUME NEW m \in DOMAIN s, s[m].key # k PROVE s[m].key \in CachedKeys(r)
        <4>1. CASE m < p
          <5>1. m \in DOMAIN r /\ r[m] = s[m]
            BY <2>1, <2>2, <4>1
          <5> QED BY <5>1 DEF CachedKeys
        <4>2. CASE m > p
          <5>1. m - 1 \in DOMAIN r /\ r[m - 1] = s[m]
            BY <2>1, <2>2, <4>2
          <5> QED BY <5>1 DEF CachedKeys
        <4> QED BY <2>1, <3>2, <4>1, <4>2
      <3> QED BY <3>1, <3>2 DEF CachedKeys
    <2>5. \A i \in DOMAIN r : \E m \in DOMAIN s : r[i] = s[m]
      BY <2>1, <2>2
    <2>6. \A i, j \in DOMAIN r :
            i < j => \E m, n \in DOMAIN s : m < n /\ r[i] = s[m] /\ r[j] = s[n]
      <3> SUFFICES ASSUME NEW i \in DOMAIN r, NEW j \in DOMAIN r, i < j
                   PROVE  \E m, n \in DOMAIN s : m < n /\ r[i] = s[m] /\ r[j] = s[n]
        OBVIOUS
      <3> DEFINE m == IF i < p THEN i ELSE i + 1
                 n == IF j < p THEN j ELSE j + 1
      <3>1. m \in DOMAIN s /\ n \in DOMAIN s /\ m < n /\ r[i] = s[m] /\ r[j] = s[n]
        BY <2>1, <2>2
      <3> QED BY <3>1
    <2> QED BY <1>2, <2>2, <2>3, <2>4, <2>5, <2>6 DEF r
  <1> QED BY <1>1, <1>2

\* A list's keys are as many as its entries.
LEMMA KeysCounted ==
  ASSUME NEW T, NEW s \in Seq(T), Distinct(s)
  PROVE  IsFiniteSet(CachedKeys(s)) /\ Cardinality(CachedKeys(s)) = Len(s)
  <1> DEFINE f == [i \in 1 .. Len(s) |-> s[i].key]
  <1>1. f \in Bijection(1 .. Len(s), CachedKeys(s))
    <2>1. f \in [1 .. Len(s) -> CachedKeys(s)]
      BY DEF CachedKeys
    <2>2. ASSUME NEW i \in 1 .. Len(s), NEW j \in 1 .. Len(s), f[i] = f[j] PROVE i = j
      BY <2>2 DEF Distinct
    <2>3. ASSUME NEW k \in CachedKeys(s) PROVE \E i \in 1 .. Len(s) : f[i] = k
      BY DEF CachedKeys
    <2> QED BY <2>1, <2>2, <2>3 DEF Bijection, Injection, Surjection, IsInjective
  <1>2. IsFiniteSet(1 .. Len(s)) /\ Cardinality(1 .. Len(s)) = Len(s)
    <2>1. Len(s) \in Nat /\ 1 \in Int /\ Len(s) \in Int
      OBVIOUS
    <2>2. IsFiniteSet(1 .. Len(s))
          /\ Cardinality(1 .. Len(s)) = IF 1 > Len(s) THEN 0 ELSE Len(s) - 1 + 1
      BY <2>1, FS_Interval, Zenon
    <2> QED BY <2>1, <2>2
  <1> HIDE DEF f
  <1> QED BY <1>1, <1>2, FS_Bijection DEF ExistsBijection

\* What Front keeps: all entries but the last.
LEMMA FrontKeeps ==
  ASSUME NEW T, NEW s \in Seq(T), Len(s) > 0
  PROVE  /\ Front(s) \in Seq(T)
         /\ Len(Front(s)) = Len(s) - 1
         /\ \A i \in 1 .. Len(s) - 1 : Front(s)[i] = s[i]
  <1>1. Front(s) = SubSeq(s, 1, Len(s) - 1)
    BY DEF Front
  <1>2. PICK n \in Nat : n = Len(s) - 1
    OBVIOUS
  <1>3. SubSeq(s, 1, n) \in Seq(T) /\ Len(SubSeq(s, 1, n)) = n
        /\ \A i \in 1 .. n : SubSeq(s, 1, n)[i] = s[i]
    BY <1>2
  <1> QED BY <1>1, <1>2, <1>3, Zenon

\* A list headed by an entry of another key keeps one entry per key.
LEMMA Headed ==
  ASSUME NEW T, NEW s \in Seq(T), Distinct(s), NEW e \in T, e.key \notin CachedKeys(s)
  PROVE  /\ <<e>> \o s \in Seq(T)
         /\ Len(<<e>> \o s) = Len(s) + 1
         /\ Distinct(<<e>> \o s)
         /\ CachedKeys(<<e>> \o s) = CachedKeys(s) \cup {e.key}
         /\ (<<e>> \o s)[1] = e
         /\ \A i \in DOMAIN s : (<<e>> \o s)[i + 1] = s[i]
         /\ \A i \in 2 .. Len(s) + 1 : i - 1 \in DOMAIN s /\ (<<e>> \o s)[i] = s[i - 1]
  <1> DEFINE t == <<e>> \o s
  <1>1. t \in Seq(T) /\ Len(t) = Len(s) + 1
    OBVIOUS
  <1>2. t[1] = e
    OBVIOUS
  <1>3. \A i \in 2 .. Len(s) + 1 : i - 1 \in DOMAIN s /\ t[i] = s[i - 1]
    OBVIOUS
  <1> HIDE DEF t
  <1>4. \A i \in DOMAIN s : t[i + 1] = s[i]
    BY <1>1, <1>3
  <1>5. Distinct(t)
    <2> SUFFICES ASSUME NEW i \in DOMAIN t, NEW j \in DOMAIN t, t[i].key = t[j].key
                 PROVE  i = j
      BY DEF Distinct
    <2>1. \A m \in 2 .. Len(s) + 1 : t[m].key \in CachedKeys(s)
      BY <1>3 DEF CachedKeys
    <2>2. CASE i = 1 \/ j = 1
      BY <1>1, <1>2, <2>1, <2>2
    <2>3. CASE i # 1 /\ j # 1
      <3>1. i - 1 \in DOMAIN s /\ j - 1 \in DOMAIN s /\ s[i - 1].key = s[j - 1].key
        BY <1>1, <1>3, <2>3
      <3>2. i - 1 = j - 1
        BY <3>1 DEF Distinct
      <3> QED BY <1>1, <3>2
    <2> QED BY <2>2, <2>3
  <1>6. CachedKeys(t) = CachedKeys(s) \cup {e.key}
    <2>1. ASSUME NEW i \in DOMAIN t PROVE t[i].key \in CachedKeys(s) \cup {e.key}
      BY <1>1, <1>2, <1>3 DEF CachedKeys
    <2>2. e.key \in CachedKeys(t)
      BY <1>1, <1>2 DEF CachedKeys
    <2>3. ASSUME NEW i \in DOMAIN s PROVE s[i].key \in CachedKeys(t)
      <3>1. i + 1 \in DOMAIN t /\ t[i + 1] = s[i]
        BY <1>1, <1>4
      <3> QED BY <3>1 DEF CachedKeys
    <2> QED BY <2>1, <2>2, <2>3 DEF CachedKeys
  <1> QED BY <1>1, <1>2, <1>3, <1>4, <1>5, <1>6 DEF t

\* What an insertion keeps: the other keys' entries, but for the last when there is no room.
Kept(cache, entry) ==
  LET rest == Pop(cache, entry.key)
  IN  IF Len(rest) < Capacity THEN rest ELSE Front(rest)

\* The entries kept are a prefix of the others, and all of them unless the list was full.
LEMMA KeptPrefix ==
  ASSUME NEW T, NEW s \in Seq(T), Distinct(s), Len(s) <= Capacity, NEW e \in T
  PROVE  LET old  == Pop(s, e.key)
             rest == Kept(s, e)
         IN  /\ rest \in Seq(T) /\ Len(rest) < Capacity /\ Len(rest) <= Len(old)
             /\ \A i \in 1 .. Len(rest) : rest[i] = old[i]
             /\ Len(rest) < Len(old) => Len(old) = Capacity /\ Len(rest) = Capacity - 1
  <1> DEFINE old  == Pop(s, e.key)
             rest == Kept(s, e)
  <1>1. old \in Seq(T) /\ Len(old) <= Len(s)
    <2>1. old \in Seq(T) /\ Len(old) = IF e.key \in CachedKeys(s) THEN Len(s) - 1 ELSE Len(s)
      BY PopProperties
    <2> QED BY <2>1
  <1>2. CASE Len(old) < Capacity
    <2>1. rest = old
      BY <1>2 DEF Kept
    <2> QED BY <1>1, <1>2, <2>1
  <1>3. CASE ~(Len(old) < Capacity)
    <2>1. rest = Front(old)
      BY <1>3 DEF Kept
    <2> HIDE DEF old, rest
    <2>2. Len(old) = Capacity /\ Len(old) > 0
      BY <1>1, <1>3, CapacityAssumption
    <2>3. Front(old) \in Seq(T) /\ Len(Front(old)) = Len(old) - 1
          /\ \A i \in 1 .. Len(old) - 1 : Front(old)[i] = old[i]
      BY <1>1, <2>2, FrontKeeps
    <2>4. rest \in Seq(T) /\ Len(rest) = Capacity - 1 /\ \A i \in 1 .. Len(rest) : rest[i] = old[i]
      BY <2>1, <2>2, <2>3
    <2>5. Len(rest) < Capacity /\ Len(rest) <= Len(old)
      BY <2>2, <2>4, CapacityAssumption
    <2> QED BY <2>2, <2>4, <2>5 DEF old, rest
  <1> QED BY <1>2, <1>3

\* An insertion keeps entries of other keys, in their order and one per key.
LEMMA KeptProperties ==
  ASSUME NEW T, NEW s \in Seq(T), Distinct(s), Len(s) <= Capacity, NEW e \in T
  PROVE  LET rest == Kept(s, e)
         IN  /\ rest \in Seq(T) /\ Distinct(rest) /\ e.key \notin CachedKeys(rest)
             /\ \A i \in DOMAIN rest : \E m \in DOMAIN s : rest[i] = s[m]
             /\ \A i, j \in DOMAIN rest :
                  i < j => \E m, n \in DOMAIN s : m < n /\ rest[i] = s[m] /\ rest[j] = s[n]
  <1> DEFINE old  == Pop(s, e.key)
             rest == Kept(s, e)
  <1>1. /\ old \in Seq(T) /\ Distinct(old)
        /\ CachedKeys(old) = CachedKeys(s) \ {e.key}
        /\ \A i \in DOMAIN old : \E m \in DOMAIN s : old[i] = s[m]
        /\ \A i, j \in DOMAIN old :
             i < j => \E m, n \in DOMAIN s : m < n /\ old[i] = s[m] /\ old[j] = s[n]
    BY PopProperties
  <1>2. rest \in Seq(T) /\ Len(rest) <= Len(old) /\ \A i \in 1 .. Len(rest) : rest[i] = old[i]
    BY KeptPrefix
  <1> HIDE DEF old, rest
  <1>3. \A i \in DOMAIN rest : i \in DOMAIN old /\ rest[i] = old[i]
    BY <1>1, <1>2
  <1>4. Distinct(rest)
    BY <1>1, <1>3 DEF Distinct
  <1>5. e.key \notin CachedKeys(rest)
    <2>1. CachedKeys(rest) \subseteq CachedKeys(old)
      BY <1>3, Zenon DEF CachedKeys
    <2> QED BY <1>1, <2>1
  <1>6. \A i \in DOMAIN rest : \E m \in DOMAIN s : rest[i] = s[m]
    BY <1>1, <1>3
  <1>7. \A i, j \in DOMAIN rest :
          i < j => \E m, n \in DOMAIN s : m < n /\ rest[i] = s[m] /\ rest[j] = s[n]
    BY <1>1, <1>3
  <1> QED BY <1>2, <1>4, <1>5, <1>6, <1>7 DEF rest

\* A key whose entry came from another list is looked up there with the same result.
LEMMA PeekKept ==
  ASSUME NEW c, NEW d, Distinct(c), Distinct(d), NEW k \in CachedKeys(d),
         \A i \in DOMAIN d : d[i].key = k => \E m \in DOMAIN c : d[i] = c[m]
  PROVE  k \in CachedKeys(c) /\ Peek(d, k) = Peek(c, k)
  <1>1. PICK i \in DOMAIN d : d[i].key = k
    BY DEF CachedKeys
  <1>2. PICK m \in DOMAIN c : d[i] = c[m]
    BY <1>1
  <1>3. Peek(d, k) = d[i] /\ Peek(c, k) = c[m]
    BY <1>1, <1>2, PeekFinds
  <1> QED BY <1>1, <1>2, <1>3 DEF CachedKeys

\* Promoting a key keeps the entries, one per key.
LEMMA PromoteKeeps ==
  ASSUME NEW T, NEW s \in Seq(T), Distinct(s), NEW k \in CachedKeys(s)
  PROVE  /\ Promote(s, k) \in Seq(T) /\ Len(Promote(s, k)) = Len(s)
         /\ Distinct(Promote(s, k))
         /\ CachedKeys(Promote(s, k)) = CachedKeys(s)
         /\ \A i \in DOMAIN Promote(s, k) : \E m \in DOMAIN s : Promote(s, k)[i] = s[m]
  <1> DEFINE rest == Pop(s, k)
             e == Peek(s, k)
             t == Promote(s, k)
  <1>1. \E m \in DOMAIN s : e = s[m] /\ e.key = k
    BY PositionFinds DEF Peek
  <1>2. e \in T
    BY <1>1
  <1>3. /\ rest \in Seq(T) /\ Distinct(rest) /\ CachedKeys(rest) = CachedKeys(s) \ {k}
        /\ \A i \in DOMAIN rest : \E m \in DOMAIN s : rest[i] = s[m]
    BY PopProperties
  <1>4. t = <<e>> \o rest
    BY DEF Promote
  <1> HIDE DEF rest, e, t
  <1>5. /\ t \in Seq(T) /\ Len(t) = Len(rest) + 1 /\ Distinct(t)
        /\ CachedKeys(t) = CachedKeys(rest) \cup {e.key}
        /\ t[1] = e /\ \A i \in 2 .. Len(rest) + 1 : i - 1 \in DOMAIN rest /\ t[i] = rest[i - 1]
    BY <1>1, <1>2, <1>3, <1>4, Headed
  <1>6. CachedKeys(t) = CachedKeys(s)
    <2>1. e.key = k
      BY <1>1
    <2>2. CachedKeys(t) = (CachedKeys(s) \ {k}) \cup {k}
      BY <1>3, <1>5, <2>1
    <2> QED BY <2>2
  <1>7. ASSUME NEW i \in DOMAIN t PROVE \E m \in DOMAIN s : t[i] = s[m]
    BY <1>1, <1>3, <1>5
  <1>8. Len(t) = Len(s)
    <2>1. Len(rest) = Len(s) - 1
      BY PopProperties DEF rest
    <2> QED BY <1>5, <2>1
  <1> QED BY <1>5, <1>6, <1>7, <1>8 DEF t

\* Promoting a key changes no lookup.
LEMMA PromoteLooksUp ==
  ASSUME NEW T, NEW s \in Seq(T), Distinct(s), NEW k \in CachedKeys(s)
  PROVE  /\ CachedKeys(Promote(s, k)) = CachedKeys(s)
         /\ \A j \in CachedKeys(s) : Peek(Promote(s, k), j) = Peek(s, j)
  <1>1. /\ Distinct(Promote(s, k)) /\ CachedKeys(Promote(s, k)) = CachedKeys(s)
        /\ \A i \in DOMAIN Promote(s, k) : \E m \in DOMAIN s : Promote(s, k)[i] = s[m]
    BY PromoteKeeps
  <1> QED BY <1>1, PeekKept

\* An insertion changes no other key's lookup, except that some keys may be gone.
LEMMA PutLooksUp ==
  ASSUME NEW T, NEW s \in Seq(T), Distinct(s), Len(s) <= Capacity, NEW e \in T
  PROVE  /\ e.key \in CachedKeys(Put(s, e)) /\ Peek(Put(s, e), e.key) = e
         /\ \A j \in CachedKeys(Put(s, e)) \ {e.key} :
              j \in CachedKeys(s) /\ Peek(Put(s, e), j) = Peek(s, j)
  <1> DEFINE rest == Kept(s, e)
             t == Put(s, e)
  <1>1. t = <<e>> \o rest
    BY DEF Put, Kept
  <1>2. /\ rest \in Seq(T) /\ Distinct(rest) /\ e.key \notin CachedKeys(rest)
        /\ \A i \in DOMAIN rest : \E m \in DOMAIN s : rest[i] = s[m]
    BY KeptProperties
  <1> HIDE DEF rest, t
  <1>3. /\ t \in Seq(T) /\ Len(t) = Len(rest) + 1 /\ Distinct(t)
        /\ CachedKeys(t) = CachedKeys(rest) \cup {e.key}
        /\ t[1] = e /\ \A i \in 2 .. Len(rest) + 1 : i - 1 \in DOMAIN rest /\ t[i] = rest[i - 1]
    BY <1>1, <1>2, Headed
  <1>4. e.key \in CachedKeys(t)
    BY <1>3
  <1>5. Peek(t, e.key) = e
    <2>1. 1 \in DOMAIN t
      BY <1>2, <1>3
    <2> QED BY <1>3, <2>1, PeekFinds
  <1>6. ASSUME NEW j \in CachedKeys(t) \ {e.key}
        PROVE  j \in CachedKeys(s) /\ Peek(t, j) = Peek(s, j)
    <2>1. ASSUME NEW i \in DOMAIN t, t[i].key = j PROVE \E m \in DOMAIN s : t[i] = s[m]
      BY <1>2, <1>3, <2>1
    <2> QED BY <1>3, <2>1, PeekKept
  <1> QED BY <1>4, <1>5, <1>6 DEF t

\* An insertion adds its key, and drops one other only for a new key in a full list.
LEMMA PutEvicts ==
  ASSUME NEW T, NEW s \in Seq(T), Distinct(s), Len(s) <= Capacity, NEW e \in T
  PROVE  \/ CachedKeys(Put(s, e)) = CachedKeys(s) \cup {e.key}
         \/ /\ e.key \notin CachedKeys(s) /\ Len(s) = Capacity
            /\ \E j \in CachedKeys(s) : CachedKeys(Put(s, e)) = (CachedKeys(s) \ {j}) \cup {e.key}
  <1> DEFINE old  == Pop(s, e.key)
             rest == Kept(s, e)
  <1>1. Put(s, e) = <<e>> \o rest
    BY DEF Put, Kept
  <1>2. /\ old \in Seq(T) /\ Distinct(old)
        /\ Len(old) = IF e.key \in CachedKeys(s) THEN Len(s) - 1 ELSE Len(s)
        /\ CachedKeys(old) = CachedKeys(s) \ {e.key}
    BY PopProperties
  <1>3. /\ rest \in Seq(T) /\ Len(rest) <= Len(old) /\ \A i \in 1 .. Len(rest) : rest[i] = old[i]
        /\ Len(rest) < Len(old) => Len(old) = Capacity /\ Len(rest) = Capacity - 1
    BY KeptPrefix
  <1>4. Distinct(rest) /\ e.key \notin CachedKeys(rest)
    BY KeptProperties
  <1> HIDE DEF old, rest
  <1>5. CachedKeys(Put(s, e)) = CachedKeys(rest) \cup {e.key}
    BY <1>1, <1>3, <1>4, Headed
  <1>6. CASE Len(rest) = Len(old)
    <2>1. CachedKeys(rest) = CachedKeys(old)
      BY <1>2, <1>3, <1>6 DEF CachedKeys
    <2> QED BY <1>2, <1>5, <2>1
  <1>7. CASE Len(rest) < Len(old)
    <2>1. e.key \notin CachedKeys(s) /\ Len(s) = Capacity /\ Len(old) = Capacity
      BY <1>2, <1>3, <1>7, CapacityAssumption
    <2>2. Capacity \in DOMAIN old /\ Len(rest) = Capacity - 1
      BY <1>2, <1>3, <1>7, <2>1, CapacityAssumption
    <2> DEFINE j == old[Capacity].key
    <2>3. j \in CachedKeys(old)
      BY <2>2 DEF CachedKeys
    <2>4. CachedKeys(rest) = CachedKeys(old) \ {j}
      <3>1. ASSUME NEW i \in DOMAIN rest PROVE rest[i].key \in CachedKeys(old) \ {j}
        <4>1. i \in DOMAIN old /\ rest[i] = old[i] /\ i # Capacity
          BY <1>2, <1>3, <2>1, <2>2
        <4> QED BY <1>2, <2>2, <4>1 DEF CachedKeys, Distinct
      <3>2. ASSUME NEW i \in DOMAIN old, old[i].key # j PROVE old[i].key \in CachedKeys(rest)
        <4>1. i \in DOMAIN rest /\ rest[i] = old[i]
          BY <1>2, <1>3, <2>1, <2>2, <3>2
        <4> QED BY <4>1 DEF CachedKeys
      <3> QED BY <3>1, <3>2 DEF CachedKeys
    <2> QED BY <1>2, <1>5, <2>1, <2>3, <2>4
  <1> QED BY <1>2, <1>3, <1>6, <1>7

\* An insertion keeps the bound and one entry per key, and every entry is old or the new one.
LEMMA PutKeeps ==
  ASSUME NEW T, NEW s \in Seq(T), Distinct(s), Len(s) <= Capacity, NEW e \in T
  PROVE  /\ Put(s, e) \in Seq(T) /\ Len(Put(s, e)) <= Capacity /\ Distinct(Put(s, e))
         /\ \A i \in DOMAIN Put(s, e) : Put(s, e)[i] = e \/ \E m \in DOMAIN s : Put(s, e)[i] = s[m]
  <1> DEFINE rest == Kept(s, e)
             t == Put(s, e)
  <1>1. t = <<e>> \o rest
    BY DEF Put, Kept
  <1>2. /\ rest \in Seq(T) /\ Distinct(rest) /\ e.key \notin CachedKeys(rest)
        /\ \A i \in DOMAIN rest : \E m \in DOMAIN s : rest[i] = s[m]
    BY KeptProperties
  <1>3. Len(rest) < Capacity
    BY KeptPrefix
  <1> HIDE DEF rest, t
  <1>4. /\ t \in Seq(T) /\ Len(t) = Len(rest) + 1 /\ Distinct(t)
        /\ t[1] = e /\ \A i \in 2 .. Len(rest) + 1 : i - 1 \in DOMAIN rest /\ t[i] = rest[i - 1]
    BY <1>1, <1>2, Headed
  <1>5. Len(t) <= Capacity
    BY <1>2, <1>3, <1>4, CapacityAssumption
  <1>6. ASSUME NEW i \in DOMAIN t PROVE t[i] = e \/ \E m \in DOMAIN s : t[i] = s[m]
    BY <1>2, <1>4
  <1> QED BY <1>4, <1>5, <1>6 DEF t
=============================================================================
