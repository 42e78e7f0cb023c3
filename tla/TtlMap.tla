------------------------------- MODULE TtlMap -------------------------------
(***************************************************************************)
(* What a response cache promises, with no recency order: a lookup returns  *)
(* the value last put under the key unless that is more than Ttl ago, was   *)
(* cleared, or was evicted; and an insertion evicts one other entry, when   *)
(* it would not fit, and none otherwise.                                    *)
(***************************************************************************)
EXTENDS Integers, FiniteSets

CONSTANTS Keys, Values, Capacity, Ttl,
          None  \* no entry, no answer

VARIABLES store,  \* store[k]: the value last put under k and when, or None
          now,    \* the clock
          reply   \* what the last lookup returned

vars == <<store, now, reply>>

Init == store = [k \in Keys |-> None] /\ now = 0 /\ reply = None

Size(s) == Cardinality({k \in Keys : s[k] # None})

Stored(k, v) == [store EXCEPT ![k] = [val |-> v, at |-> now]]

\* Which other entry has to go is not said.
Put(k, v) ==
  /\ IF Size(Stored(k, v)) <= Capacity
     THEN store' = Stored(k, v)
     ELSE \E j \in Keys \ {k} :
            store[j] # None /\ store' = [Stored(k, v) EXCEPT ![j] = None]
  /\ UNCHANGED <<now, reply>>

Expired(k) == now - store[k].at > Ttl

Hit(k) ==
  /\ store[k] # None
  /\ ~Expired(k)
  /\ reply' = store[k].val
  /\ UNCHANGED <<store, now>>

Miss(k) ==
  /\ store[k] # None => Expired(k)
  /\ reply' = None
  /\ store' = [store EXCEPT ![k] = None]
  /\ UNCHANGED now

Clear == store' = [k \in Keys |-> None] /\ UNCHANGED <<now, reply>>

Tick == now' = now + 1 /\ UNCHANGED <<store, reply>>

Next ==
  \/ \E k \in Keys : Hit(k) \/ Miss(k) \/ \E v \in Values : Put(k, v)
  \/ Clear \/ Tick

Spec == Init /\ [][Next]_vars
=============================================================================
