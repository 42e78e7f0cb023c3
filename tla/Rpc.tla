-------------------------------- MODULE Rpc --------------------------------
(***************************************************************************)
(* What a caller of Client::send_json may rely on, with no attempts, sleeps *)
(* or network: each of a bounded number of transmissions of the request may *)
(* be executed by the server at most once, at any time after the call       *)
(* started (also after it ended); the call ends once; and it ends with      *)
(* success only if the server executed the request.                         *)
(***************************************************************************)
CONSTANTS Transmissions,  \* the transmissions a call may make
          Outcomes,       \* what a call may return
          Success,        \* the outcome that reports success
          None            \* no outcome: not returned yet, or abandoned

VARIABLES phase,     \* "new", "open" or "over"
          executed,  \* the transmissions the server has executed
          outcome    \* what the call returned

vars == <<phase, executed, outcome>>

Init == phase = "new" /\ executed = {} /\ outcome = None

Call == phase = "new" /\ phase' = "open" /\ UNCHANGED <<executed, outcome>>

\* The server does not know, or care, whether the caller still waits.
Execute(t) ==
  /\ phase # "new"
  /\ t \notin executed
  /\ executed' = executed \cup {t}
  /\ UNCHANGED <<phase, outcome>>

Return(r) ==
  /\ phase # "over"
  /\ r = Success => executed # {}
  /\ phase' = "over"
  /\ outcome' = r
  /\ UNCHANGED executed

Abandon == phase = "open" /\ phase' = "over" /\ UNCHANGED <<executed, outcome>>

Next ==
  \/ Call
  \/ \E t \in Transmissions : Execute(t)
  \/ \E r \in Outcomes : Return(r)
  \/ Abandon

Spec == Init /\ [][Next]_vars
=============================================================================
