----------------------------- MODULE Coalescer -----------------------------
(***************************************************************************)
(* What a single-flight coalescer promises, with no map, lock or channel:  *)
(* calls for a key join the key's open flight; one atomic step settles the *)
(* flight, fixing the same result for every call still in it and closing   *)
(* it to later calls; a settled call then returns that result.  SingleFlight *)
(* implements this specification.                                          *)
(***************************************************************************)
CONSTANTS Calls,    \* invocations of do_call
          Keys,     \* request keys
          Results,  \* what the coalesced work may return
          None      \* no result yet

VARIABLES flight,   \* flight[k]: the calls that joined k's open flight
          status,   \* status[c]: how far call c is
          outcome   \* outcome[c]: the result fixed for c

vars == <<flight, status, outcome>>

Init ==
  /\ flight = [k \in Keys |-> {}]
  /\ status = [c \in Calls |-> "new"]
  /\ outcome = [c \in Calls |-> None]

Join(c, k) ==
  /\ status[c] = "new"
  /\ status' = [status EXCEPT ![c] = "joined"]
  /\ flight' = [flight EXCEPT ![k] = @ \cup {c}]
  /\ UNCHANGED outcome

\* Calls that left keep no claim on the flight's result.
Settle(k, r) ==
  LET served == {c \in flight[k] : status[c] = "joined"}
  IN  /\ served # {}
      /\ flight' = [flight EXCEPT ![k] = {}]
      /\ status' = [c \in Calls |-> IF c \in served THEN "settled" ELSE status[c]]
      /\ outcome' = [c \in Calls |-> IF c \in served THEN r ELSE outcome[c]]

Return(c) ==
  /\ status[c] = "settled"
  /\ status' = [status EXCEPT ![c] = "returned"]
  /\ UNCHANGED <<flight, outcome>>

\* The caller gives up; what it was told, if anything, is forgotten.
Leave(c) ==
  /\ status[c] \in {"new", "joined", "settled"}
  /\ status' = [status EXCEPT ![c] = "left"]
  /\ outcome' = [outcome EXCEPT ![c] = None]
  /\ UNCHANGED flight

Next ==
  \/ \E c \in Calls : Return(c) \/ Leave(c) \/ \E k \in Keys : Join(c, k)
  \/ \E k \in Keys, r \in Results : Settle(k, r)

Spec == Init /\ [][Next]_vars
=============================================================================
