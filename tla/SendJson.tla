------------------------------ MODULE SendJson ------------------------------
(***************************************************************************)
(* One call of Client::send_json (src/src/client.rs): the retry loop, with  *)
(* the errors it classifies, the sleeps between attempts and the metrics    *)
(* hooks, against a server that may execute a request late (after the       *)
(* client's timeout) and a network that may lose it or its answer.  The     *)
(* client shares no state between calls, so one call stands for all.        *)
(***************************************************************************)
EXTENDS Integers, FiniteSets

CONSTANTS MaxRetries,   \* ClientConfig.max_retries
          RetryBase,    \* ClientConfig.retry_base, in ticks
          RetryCap,     \* ClientConfig.retry_cap, in ticks
          Statuses,     \* the HTTP statuses the server may answer with
          RetryAfters,  \* the delta-seconds values of a Retry-After header, in ticks
          HttpDate,     \* a Retry-After header in the HTTP-date form
          Cancellable,  \* may the caller drop the future?
          None          \* no header, no error

ASSUME ConstantsAssumption ==
  /\ MaxRetries \in Nat /\ RetryBase \in Nat /\ RetryCap \in Nat
  /\ Statuses \subseteq Nat /\ RetryAfters \subseteq Nat
  /\ HttpDate \notin RetryAfters /\ None \notin RetryAfters
  /\ Cancellable \in BOOLEAN

VARIABLES pc,       \* where the future stands: its await, or over
          attempt,  \* the loop's counter
          wait,     \* ticks left of tokio::time::sleep(delay)
          result,   \* [kind, retryAfter] of the error, or kind "Ok"
          wire,     \* wire[i]: what became of the request of attempt i
          requests, \* calls of MetricsHook::on_request
          retries,  \* calls of MetricsHook::on_retry
          due,      \* history: ticks left of the Retry-After the server asked for
          faults    \* history: attempts that ended in a transport error

clientVars == <<pc, attempt, wait, result, requests, retries, due, faults>>
vars == <<pc, attempt, wait, result, wire, requests, retries, due, faults>>

Attempts == 0..MaxRetries
-----------------------------------------------------------------------------
(* Errors: classify_error, trimmed_body, is_retryable, retry_after, parse_retry_after. *)

Kinds == {"Auth", "Authorization", "NotFound", "Conflict", "PayloadTooLarge",
          "RateLimit", "ServiceUnavailable", "Server"}

IsSuccess(status) == status \in 200..299

\* Only the integer form is parsed.
ParseRetryAfter(header) == IF header \in RetryAfters THEN header ELSE None

Kind(status) ==
  CASE status = 401 -> "Auth"
    [] status = 403 -> "Authorization"
    [] status = 404 -> "NotFound"
    [] status = 409 -> "Conflict"
    [] status = 413 -> "PayloadTooLarge"
    [] status = 429 -> "RateLimit"
    [] status = 503 -> "ServiceUnavailable"
    [] OTHER -> "Server"

\* Mutant: the Retry-After of 503 answers is not kept.
ClassifyDropping503(status, header) ==
  [kind |-> Kind(status),
   retryAfter |-> IF status = 429 THEN ParseRetryAfter(header) ELSE None]

\* The duration is kept by the two variants that have a field for it.
ClassifyError(status, header) ==
  [kind |-> Kind(status),
   retryAfter |-> IF status \in {429, 503} THEN ParseRetryAfter(header) ELSE None]

\* The body of an error answer: does it parse as the server's error envelope, and does
\* byte 4096 of its text fall inside a character?
Bodies == [enveloped : BOOLEAN, split : BOOLEAN]

\* classify_error slices the text at that byte, unless the envelope has the message; the
\* kind Server keeps the body all the same.
ClassifyPanics(status, body) ==
  body.split /\ (Kind(status) = "Server" \/ ~body.enveloped)

Ok == [kind |-> "Ok", retryAfter |-> None]
NetworkError == [kind |-> "Network", retryAfter |-> None]
\* Error::Url, Decode or Io, before anything is sent.
LocalError == [kind |-> "Local", retryAfter |-> None]

\* Mutant: every server error counts as retryable.
RetryableAlsoServer(e) ==
  e.kind \in {"RateLimit", "ServiceUnavailable", "Network", "Server"}

IsRetryable(e) == e.kind \in {"RateLimit", "ServiceUnavailable", "Network"}

Errors == [kind : Kinds \cup {"Network", "Local"}, retryAfter : RetryAfters \cup {None}]

ASSUME NoneIsNoResult == None \notin Errors \cup {Ok}
-----------------------------------------------------------------------------
(* Delays: backoff_with_jitter. *)

Lesser(a, b) == IF a < b THEN a ELSE b

\* 1u64 << attempt.min(10)
Factor(n) == <<1, 2, 4, 8, 16, 32, 64, 128, 256, 512, 1024>>[Lesser(n, 10) + 1]

Capped(n) == Lesser(RetryBase * Factor(n), RetryCap)

\* Mutant: the cap is applied to the base, before the exponential.
BackoffUncapped(n) ==
  LET raw == Lesser(RetryBase, RetryCap) * Factor(n) IN (raw \div 2)..raw

\* The jitter factor lies between 0.5 and 1; which one is a hash of n.
Backoff(n) == (Capped(n) \div 2)..Capped(n)

\* err.retry_after().unwrap_or_else(backoff); a network error carries none.
Delays(e) == IF e.retryAfter # None THEN {e.retryAfter} ELSE Backoff(attempt)
-----------------------------------------------------------------------------
Init ==
  /\ pc = "idle"
  /\ attempt = 0
  /\ wait = 0
  /\ result = None
  /\ wire = [i \in Attempts |-> "unsent"]
  /\ requests = 0
  /\ retries = 0
  /\ due = 0
  /\ faults = {}

Transmit(i) == wire' = [wire EXCEPT ![i] = "flying"]

\* The first pass of the loop: the request is built and sent.
Begin ==
  /\ pc = "idle"
  /\ pc' = "await"
  /\ Transmit(0)
  /\ UNCHANGED <<attempt, wait, result, requests, retries, due, faults>>

\* Building it fails (url join, serialization, gzip): `?` before anything is sent.
BuildFails ==
  /\ pc = "idle"
  /\ pc' = "done"
  /\ result' = LocalError
  /\ UNCHANGED <<attempt, wait, wire, requests, retries, due, faults>>

\* Mutant: the counter is compared after the increment it has not had yet.
MayRetryOneMore(e) == attempt <= MaxRetries /\ IsRetryable(e)

\* Mutant: max_retries counts the first request, too.
MayRetryOneFewer(e) == attempt + 1 < MaxRetries /\ IsRetryable(e)

MayRetry(e) == attempt < MaxRetries /\ IsRetryable(e)

\* Mutant: an error that is not retried is returned without the report.
GiveUpUnreported(e) ==
  /\ ~MayRetry(e)
  /\ pc' = "done"
  /\ result' = e
  /\ UNCHANGED <<attempt, wait, requests, retries>>

\* Mutant: running out of attempts is taken for an empty answer.
GiveUpAsOk(e) ==
  /\ ~MayRetry(e)
  /\ pc' = "done"
  /\ result' = Ok
  /\ requests' = requests + 1
  /\ UNCHANGED <<attempt, wait, retries>>

\* Report the retry, then sleep.
Retry(e) ==
  /\ MayRetry(e)
  /\ pc' = "sleep"
  /\ wait' \in Delays(e)
  /\ retries' = retries + 1
  /\ UNCHANGED <<attempt, result, requests>>

\* Report the request, then return the error.
GiveUp(e) ==
  /\ ~MayRetry(e)
  /\ pc' = "done"
  /\ result' = e
  /\ requests' = requests + 1
  /\ UNCHANGED <<attempt, wait, retries>>

\* The head of a success answer arrives; its body is still to be read.
Success ==
  /\ pc = "await"
  /\ wire[attempt] = "executed"
  /\ \E status \in Statuses : IsSuccess(status)
  /\ pc' = "body"
  /\ UNCHANGED <<attempt, wait, result, wire, requests, retries, due, faults>>

\* resp.bytes().await? on a success: report and return the body.
ReadBody ==
  /\ pc = "body"
  /\ pc' = "done"
  /\ result' = Ok
  /\ requests' = requests + 1
  /\ UNCHANGED <<attempt, wait, wire, retries, due, faults>>

\* The same await fails: `?` leaves the loop, with neither a retry nor a report.
BodyFails ==
  /\ pc = "body"
  /\ pc' = "done"
  /\ result' = NetworkError
  /\ faults' = faults \cup {attempt}
  /\ UNCHANGED <<attempt, wait, wire, requests, retries, due>>

\* An error answer (its body is read with unwrap_or_default, so reading cannot fail).
\* The server refuses work with 429 and 503; other errors may follow an execution.
Answers(status) ==
  /\ pc = "await"
  /\ ~IsSuccess(status)
  /\ \/ wire[attempt] = "flying" /\ wire' = [wire EXCEPT ![attempt] = "refused"]
     \/ wire[attempt] = "executed" /\ status \notin {429, 503} /\ UNCHANGED wire

\* The answer is classified.
ErrorAnswer(status, header, body) ==
  /\ Answers(status)
  /\ ~ClassifyPanics(status, body)
  /\ LET e == ClassifyError(status, header) IN Retry(e) \/ GiveUp(e)
  /\ due' = IF status \in {429, 503} /\ header \in RetryAfters THEN header ELSE 0
  /\ UNCHANGED faults

\* Classifying it panics; the future is over.
AnswerPanics(status, body) ==
  /\ Answers(status)
  /\ ClassifyPanics(status, body)
  /\ pc' = "panicked"
  /\ UNCHANGED <<attempt, wait, result, requests, retries, due, faults>>

\* Connection failure, timeout or lost answer: the client cannot tell which.
TransportFails ==
  /\ pc = "await"
  /\ Retry(NetworkError) \/ GiveUp(NetworkError)
  /\ faults' = faults \cup {attempt}
  /\ due' = 0
  /\ UNCHANGED wire

\* A tick of the clock; only a sleeping call minds.
Tick ==
  /\ pc = "sleep"
  /\ wait > 0
  /\ wait' = wait - 1
  /\ due' = IF due > 0 THEN due - 1 ELSE 0
  /\ UNCHANGED <<pc, attempt, result, wire, requests, retries, faults>>

\* Mutant: instead of `continue` the call starts over, with counters of its own.
WakeStartsOver ==
  /\ pc = "sleep"
  /\ wait = 0
  /\ attempt' = 0 /\ retries' = 0 /\ faults' = {}
  /\ pc' = "await"
  /\ wire' = [i \in Attempts |-> IF i = 0 THEN "flying" ELSE "unsent"]
  /\ UNCHANGED <<wait, result, requests, due>>

\* The sleep is over: count the attempt and go round the loop.
Wake ==
  /\ pc = "sleep"
  /\ wait = 0
  /\ attempt' = attempt + 1
  /\ pc' = "await"
  /\ Transmit(attempt + 1)
  /\ UNCHANGED <<wait, result, requests, retries, due, faults>>

\* The caller drops the future at one of its awaits.
Cancel ==
  /\ Cancellable
  /\ pc \in {"await", "body", "sleep"}
  /\ pc' = "cancelled"
  /\ UNCHANGED <<attempt, wait, result, wire, requests, retries, due, faults>>

\* The server executes a request it received, whether or not the client still waits.
Execute(i) ==
  /\ wire[i] = "flying"
  /\ wire' = [wire EXCEPT ![i] = "executed"]
  /\ UNCHANGED clientVars

\* A request never reaches the server.
Lose(i) ==
  /\ wire[i] = "flying"
  /\ wire' = [wire EXCEPT ![i] = "lost"]
  /\ UNCHANGED clientVars

Over == pc \in {"done", "cancelled", "panicked"}

Answered ==
  \/ Success
  \/ TransportFails
  \/ \E s \in Statuses, b \in Bodies :
       \/ \E h \in RetryAfters \cup {None, HttpDate} : ErrorAnswer(s, h, b)
       \/ AnswerPanics(s, b)

Next ==
  \/ Begin \/ BuildFails
  \/ Answered
  \/ ReadBody \/ BodyFails
  \/ Tick \/ Wake \/ Cancel
  \/ \E i \in Attempts : Execute(i) \/ Lose(i)
  \/ Over /\ UNCHANGED vars

Spec == Init /\ [][Next]_vars

\* Every await of the loop ends: reqwest's timeout covers the answer and its body,
\* and time passes.  Nothing obliges the caller, the server or the network.
Fairness ==
  WF_vars(Answered) /\ WF_vars(ReadBody \/ BodyFails) /\ WF_vars(Tick) /\ WF_vars(Wake)

FairSpec == Spec /\ Fairness
-----------------------------------------------------------------------------
(* Properties *)

PCs == {"idle", "await", "body", "sleep", "done", "cancelled", "panicked"}

TypeOK ==
  /\ pc \in PCs
  /\ attempt \in Attempts
  /\ wait \in Nat
  /\ result \in Errors \cup {None, Ok}
  /\ wire \in [Attempts -> {"unsent", "flying", "executed", "refused", "lost"}]
  /\ requests \in Nat
  /\ retries \in Nat
  /\ due \in Nat
  /\ faults \subseteq Attempts

\* A request the server executed is sent again only after a transport error: the status
\* classification (client.rs:445-471) alone never makes the server work twice.
DuplicatesNeedFault ==
  \A i \in Attempts : wire[i] = "executed" /\ i < attempt => i \in faults

\* README.md:132-133, "falls back to exponential backoff ... on retryable transport /
\* status errors": a retryable error is returned when the retries are used up, or for a
\* request the server executed (a body that cannot be read, client.rs:432).
EarlyErrorMeansExecuted ==
  pc = "done" /\ IsRetryable(result) => attempt = MaxRetries \/ wire[attempt] = "executed"

\* retry.rs:3-4, "honour `Retry-After` exactly when present, otherwise use exponential
\* backoff": a sleep is the server's delay, uncapped, or no longer than retry_cap.
WaitJustified ==
  pc = "sleep" => wait = due \/ (due = 0 /\ wait <= RetryCap)

\* No request leaves before the delay the server asked for with the previous answer.
RetryAfterHonoured ==
  [][\A i \in Attempts : wire[i] = "unsent" /\ wire'[i] # "unsent" => due = 0]_vars

\* The call returns the error of a body that could not be read, or one like it.
MayHaveLostBody == result = NetworkError /\ wire[attempt] = "executed"

\* client.rs:47-50, on_request "once per HTTP request the SDK initiates (after retries)",
\* on_retry "when the SDK retries": a retry is reported before each new request, in order,
\* and the request once, when the call returns and not before.  Stated exception: the
\* body of a success that cannot be read (client.rs:432) ends the call without the report;
\* RequestsReported is the claim without it.
HooksAddUp ==
  /\ {i \in Attempts : wire[i] # "unsent"} =
       IF pc = "idle" \/ result = LocalError THEN {} ELSE 0..attempt
  /\ \/ retries = attempt /\ pc # "sleep"
     \/ retries = attempt + 1 /\ pc \in {"sleep", "cancelled"}
  /\ requests <= (IF pc = "done" /\ result # LocalError THEN 1 ELSE 0)
  /\ pc = "done" /\ requests = 0 => result = LocalError \/ MayHaveLostBody

\* Every call ends: it returns, or its caller drops it.
CallReturns == (pc # "idle") ~> Over
-----------------------------------------------------------------------------
(* Refinement: the retry loop is one remote call. *)

phaseBar == IF pc = "idle" THEN "new" ELSE IF Over THEN "over" ELSE "open"
executedBar == {i \in Attempts : wire[i] = "executed"}

Abstract ==
  INSTANCE Rpc WITH
    Transmissions <- Attempts,
    Outcomes <- Errors \cup {Ok},
    Success <- Ok,
    phase <- phaseBar,
    executed <- executedBar,
    outcome <- result

\* send_json implements the abstract remote call: success means the server executed it,
\* each transmission executes at most once, and a call ends once.
ImplementsRpc == Abstract!Spec
-----------------------------------------------------------------------------
(* What the documentation says and the code does not do. *)

\* error.rs:63, "already truncated to a safe length": every error answer becomes an error
\* of the call.
ErrorsAreReturned == pc # "panicked"

\* client.rs:47, on_request is "called once per HTTP request the SDK initiates (after
\* retries)": a call that sent something and returned was reported.
RequestsReported == pc = "done" /\ wire[0] # "unsent" => requests = 1
=============================================================================
