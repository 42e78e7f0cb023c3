--------------------------- MODULE SendJsonProofs ---------------------------
(***************************************************************************)
(* Machine-checked proofs about SendJson, for every retry budget, back-off, *)
(* set of statuses and set of Retry-After values.                          *)
(***************************************************************************)
EXTENDS SendJson, TLAPS

-----------------------------------------------------------------------------
(* The delays and the error classes. *)

\* Only 429 and 503 answers are retried.
LEMMA RetryableStatuses ==
  ASSUME NEW s, NEW h, IsRetryable(ClassifyError(s, h))
  PROVE  s \in {429, 503}
  BY DEF IsRetryable, ClassifyError, Kind

\* classify_error builds one of the listed errors.
LEMMA ClassifyErrorType ==
  ASSUME NEW s, NEW h
  PROVE  ClassifyError(s, h) \in Errors
  BY DEF ClassifyError, Errors, Kinds, Kind, ParseRetryAfter

\* The exponential factor of every attempt is a positive number.
LEMMA FactorPositive ==
  ASSUME NEW n \in Nat
  PROVE  Factor(n) \in Nat
<1>1. Lesser(n, 10) \in 0..10
  BY DEF Lesser
<1> QED
  BY <1>1 DEF Factor

\* backoff_with_jitter never exceeds retry_cap, whatever the attempt.
LEMMA BackoffBounded ==
  ASSUME NEW n \in Nat
  PROVE  Backoff(n) \subseteq 0..RetryCap
<1>1. RetryBase * Factor(n) \in Nat
  BY FactorPositive, ConstantsAssumption
<1>2. Capped(n) \in 0..RetryCap
  BY <1>1, ConstantsAssumption DEF Capped, Lesser
<1> QED
  BY <1>2, ConstantsAssumption DEF Backoff

-----------------------------------------------------------------------------
(* The inductive invariant. *)

\* Where the loop may stand: the body of an executed request, a sleep only with a
\* retry left, nothing owed to the server before the first answer.
Standing ==
  /\ pc = "idle" => due = 0 /\ attempt = 0 /\ faults = {}
  /\ pc = "body" => wire[attempt] = "executed"
  /\ pc = "sleep" => attempt < MaxRetries
  /\ result = LocalError => pc = "done" /\ attempt = 0

\* A request that was given up on while it might still execute ended in a fault.
AbandonedInFault ==
  \A i \in Attempts :
    /\ wire[i] \in {"flying", "executed"}
    /\ i < attempt \/ (i = attempt /\ pc = "sleep")
    => i \in faults

IInv ==
  /\ TypeOK
  /\ Standing
  /\ AbandonedInFault
  /\ WaitJustified
  /\ HooksAddUp
  /\ EarlyErrorMeansExecuted

\* The loop has not started: no request, no sleep, no report.
LEMMA InitEstablishes == Init => IInv
  BY ConstantsAssumption, NoneIsNoResult
  DEF Init, IInv, TypeOK, PCs, Standing, AbandonedInFault, WaitJustified, HooksAddUp,
      EarlyErrorMeansExecuted, Attempts, Errors, LocalError

\* Retry and GiveUp, for a retryable error that is still to be waited for.
LEMMA RetryWaits ==
  ASSUME IInv, NEW e \in Errors, Retry(e)
  PROVE  /\ attempt < MaxRetries
         /\ wait' \in Nat
         /\ e.retryAfter # None => wait' = e.retryAfter
         /\ e.retryAfter = None => wait' <= RetryCap
<1>1. attempt \in Nat
  BY ConstantsAssumption DEF IInv, TypeOK, Attempts
<1>2. Backoff(attempt) \subseteq 0..RetryCap
  BY <1>1, BackoffBounded
<1> QED
  BY <1>1, <1>2, ConstantsAssumption DEF Retry, MayRetry, Delays, Errors

\* Preservation when the first request is sent.
LEMMA BeginPreserves ==
  ASSUME IInv, Begin
  PROVE  IInv'
<1>1. TypeOK'
  BY DEF Begin, Transmit, IInv, TypeOK, PCs
<1>2. Standing'
  BY DEF Begin, IInv, Standing
<1>3. AbandonedInFault'
  BY DEF Begin, Transmit, IInv, Standing, AbandonedInFault
<1>4. WaitJustified'
  BY DEF Begin, WaitJustified
<1>5. HooksAddUp'
  BY DEF Begin, Transmit, IInv, TypeOK, Standing, HooksAddUp
<1>6. EarlyErrorMeansExecuted'
  BY DEF Begin, EarlyErrorMeansExecuted
<1> QED
  BY <1>1, <1>2, <1>3, <1>4, <1>5, <1>6 DEF IInv

\* Preservation when the request cannot be built.
LEMMA BuildFailsPreserves ==
  ASSUME IInv, BuildFails
  PROVE  IInv'
<1>1. TypeOK'
  BY DEF BuildFails, Errors, LocalError, IInv, TypeOK, PCs
<1>2. Standing'
  BY DEF BuildFails, IInv, Standing
<1>3. AbandonedInFault'
  BY DEF BuildFails, IInv, AbandonedInFault
<1>4. WaitJustified'
  BY DEF BuildFails, WaitJustified
<1>5. HooksAddUp'
  BY DEF BuildFails, IInv, TypeOK, HooksAddUp
<1>6. EarlyErrorMeansExecuted'
  BY DEF BuildFails, LocalError, IsRetryable, EarlyErrorMeansExecuted
<1> QED
  BY <1>1, <1>2, <1>3, <1>4, <1>5, <1>6 DEF IInv

\* Preservation when a success answer arrives.
LEMMA SuccessPreserves ==
  ASSUME IInv, Success
  PROVE  IInv'
<1>1. TypeOK'
  BY DEF Success, IInv, TypeOK, PCs
<1>2. Standing'
  BY DEF Success, IInv, Standing
<1>3. AbandonedInFault'
  BY DEF Success, IInv, AbandonedInFault
<1>4. WaitJustified'
  BY DEF Success, WaitJustified
<1>5. HooksAddUp'
  BY DEF Success, IInv, HooksAddUp
<1>6. EarlyErrorMeansExecuted'
  BY DEF Success, EarlyErrorMeansExecuted
<1> QED
  BY <1>1, <1>2, <1>3, <1>4, <1>5, <1>6 DEF IInv

\* Preservation when the body of a success is read.
LEMMA ReadBodyPreserves ==
  ASSUME IInv, ReadBody
  PROVE  IInv'
<1>1. TypeOK'
  BY DEF ReadBody, IInv, TypeOK, PCs
<1>2. Standing'
  BY DEF ReadBody, Ok, LocalError, Standing
<1>3. AbandonedInFault'
  BY DEF ReadBody, IInv, AbandonedInFault
<1>4. WaitJustified'
  BY DEF ReadBody, WaitJustified
<1>5. HooksAddUp'
  BY DEF ReadBody, Ok, LocalError, IInv, TypeOK, Standing, HooksAddUp
<1>6. EarlyErrorMeansExecuted'
  BY DEF ReadBody, Ok, IsRetryable, EarlyErrorMeansExecuted
<1> QED
  BY <1>1, <1>2, <1>3, <1>4, <1>5, <1>6 DEF IInv

\* Preservation when reading the body fails.
LEMMA BodyFailsPreserves ==
  ASSUME IInv, BodyFails
  PROVE  IInv'
<1>1. TypeOK'
  BY DEF BodyFails, Errors, NetworkError, IInv, TypeOK, PCs
<1>2. Standing'
  BY DEF BodyFails, NetworkError, LocalError, Standing
<1>3. AbandonedInFault'
  BY DEF BodyFails, IInv, AbandonedInFault
<1>4. WaitJustified'
  BY DEF BodyFails, WaitJustified
<1>5. HooksAddUp'
  BY DEF BodyFails, NetworkError, LocalError, IInv, TypeOK, Standing, HooksAddUp,
         MayHaveLostBody
<1>6. EarlyErrorMeansExecuted'
  BY DEF BodyFails, IInv, Standing, EarlyErrorMeansExecuted
<1> QED
  BY <1>1, <1>2, <1>3, <1>4, <1>5, <1>6 DEF IInv

\* Preservation when an error answer is classified.
LEMMA ErrorAnswerPreserves ==
  ASSUME IInv, NEW s \in Statuses, NEW h, NEW b, ErrorAnswer(s, h, b)
  PROVE  IInv'
<1> DEFINE e == ClassifyError(s, h)
<1>1. e \in Errors
  BY ClassifyErrorType
<1>2. MayRetry(e) => s \in {429, 503}
  BY RetryableStatuses DEF MayRetry
<1>3. ASSUME Retry(e)
      PROVE  /\ attempt < MaxRetries
             /\ wait' \in Nat
             /\ e.retryAfter # None => wait' = e.retryAfter
             /\ e.retryAfter = None => wait' <= RetryCap
  BY <1>1, <1>3, RetryWaits
<1>4. e.retryAfter = IF s \in {429, 503} /\ h \in RetryAfters THEN h ELSE None
  BY DEF ClassifyError, ParseRetryAfter
<1>5. e # LocalError
  BY DEF ClassifyError, Kind, LocalError
<1> HIDE DEF e
<1>6. TypeOK'
  <2>1. wire' \in [Attempts -> {"unsent", "flying", "executed", "refused", "lost"}]
    BY DEF ErrorAnswer, Answers, IInv, TypeOK
  <2>2. due' \in Nat
    BY ConstantsAssumption DEF ErrorAnswer
  <2>3. UNCHANGED <<attempt, faults>>
    BY DEF ErrorAnswer, Answers, Retry, GiveUp
  <2>4. CASE Retry(e)
    BY <1>3, <2>1, <2>2, <2>3, <2>4 DEF Retry, IInv, TypeOK, PCs
  <2>5. CASE GiveUp(e)
    BY <1>1, <2>1, <2>2, <2>3, <2>5 DEF GiveUp, IInv, TypeOK, PCs
  <2> QED
    BY <2>4, <2>5 DEF ErrorAnswer, Answers, e
<1>7. Standing'
  BY <1>1, <1>2, <1>3, <1>4, <1>5 DEF ErrorAnswer, Answers, Retry, GiveUp, e, IInv, Standing
<1>8. AbandonedInFault'
  BY <1>1, <1>2, <1>3, <1>4, <1>5, ConstantsAssumption
  DEF ErrorAnswer, Answers, Retry, GiveUp, e, IInv, TypeOK, AbandonedInFault
<1>9. WaitJustified'
  BY <1>1, <1>2, <1>3, <1>4, <1>5, ConstantsAssumption
  DEF ErrorAnswer, Answers, GiveUp, e, WaitJustified
<1>10. HooksAddUp'
  BY <1>1, <1>2, <1>3, <1>4, <1>5, ConstantsAssumption
  DEF ErrorAnswer, Answers, Retry, GiveUp, e, IInv, TypeOK, HooksAddUp
<1>11. EarlyErrorMeansExecuted'
  BY ConstantsAssumption
  DEF ErrorAnswer, Retry, GiveUp, MayRetry, IInv, TypeOK, Attempts,
      EarlyErrorMeansExecuted
<1> QED
  BY <1>6, <1>7, <1>8, <1>9, <1>10, <1>11 DEF IInv

\* Preservation when an error answer cannot be classified.
LEMMA AnswerPanicsPreserves ==
  ASSUME IInv, NEW s \in Statuses, NEW b, AnswerPanics(s, b)
  PROVE  IInv'
<1>1. TypeOK'
  BY DEF AnswerPanics, Answers, IInv, TypeOK, PCs
<1>2. Standing'
  BY DEF AnswerPanics, Answers, IInv, Standing
<1>3. AbandonedInFault'
  BY DEF AnswerPanics, Answers, IInv, TypeOK, AbandonedInFault
<1>4. WaitJustified'
  BY DEF AnswerPanics, WaitJustified
<1>5. HooksAddUp'
  BY DEF AnswerPanics, Answers, IInv, TypeOK, HooksAddUp
<1>6. EarlyErrorMeansExecuted'
  BY DEF AnswerPanics, EarlyErrorMeansExecuted
<1> QED
  BY <1>1, <1>2, <1>3, <1>4, <1>5, <1>6 DEF IInv

\* Preservation when a transport error ends an attempt.
LEMMA TransportFailsPreserves ==
  ASSUME IInv, TransportFails
  PROVE  IInv'
<1>1. NetworkError \in Errors /\ NetworkError.retryAfter = None /\ NetworkError # LocalError
  BY DEF NetworkError, Errors, LocalError
<1>2. ASSUME Retry(NetworkError)
      PROVE  attempt < MaxRetries /\ wait' \in Nat /\ wait' <= RetryCap
  BY <1>1, <1>2, RetryWaits
<1>3. TypeOK'
  BY <1>1, <1>2 DEF TransportFails, Retry, GiveUp, IInv, TypeOK, PCs
<1>4. Standing'
  BY <1>1, <1>2 DEF TransportFails, Retry, GiveUp, IInv, Standing
<1>5. AbandonedInFault'
  BY <1>1, <1>2 DEF TransportFails, Retry, GiveUp, IInv, AbandonedInFault
<1>6. WaitJustified'
  BY <1>1, <1>2 DEF TransportFails, GiveUp, WaitJustified
<1>7. HooksAddUp'
  BY <1>1, <1>2 DEF TransportFails, Retry, GiveUp, IInv, TypeOK, Standing, HooksAddUp
<1>8. EarlyErrorMeansExecuted'
  BY ConstantsAssumption
  DEF TransportFails, Retry, GiveUp, MayRetry, IInv, TypeOK, Attempts,
      EarlyErrorMeansExecuted
<1> QED
  BY <1>3, <1>4, <1>5, <1>6, <1>7, <1>8 DEF IInv

\* Preservation when a sleeping call lets time pass.
LEMMA TickPreserves ==
  ASSUME IInv, Tick
  PROVE  IInv'
<1>1. TypeOK'
  BY DEF Tick, IInv, TypeOK
<1>2. Standing'
  BY DEF Tick, IInv, Standing
<1>3. AbandonedInFault'
  BY DEF Tick, IInv, AbandonedInFault
<1>4. WaitJustified'
  BY ConstantsAssumption DEF Tick, IInv, TypeOK, WaitJustified
<1>5. HooksAddUp'
  BY DEF Tick, IInv, HooksAddUp
<1>6. EarlyErrorMeansExecuted'
  BY DEF Tick, EarlyErrorMeansExecuted
<1> QED
  BY <1>1, <1>2, <1>3, <1>4, <1>5, <1>6 DEF IInv

\* Preservation when the next request is sent.
LEMMA WakePreserves ==
  ASSUME IInv, Wake
  PROVE  IInv'
<1>1. TypeOK'
  BY ConstantsAssumption DEF Wake, Transmit, IInv, TypeOK, PCs, Standing, Attempts
<1>2. Standing'
  BY DEF Wake, IInv, Standing
<1>3. AbandonedInFault'
  BY DEF Wake, Transmit, IInv, TypeOK, AbandonedInFault, Attempts
<1>4. WaitJustified'
  BY DEF Wake, WaitJustified
<1>5. HooksAddUp'
  BY ConstantsAssumption
  DEF Wake, Transmit, IInv, TypeOK, Standing, HooksAddUp, Attempts
<1>6. EarlyErrorMeansExecuted'
  BY DEF Wake, EarlyErrorMeansExecuted
<1> QED
  BY <1>1, <1>2, <1>3, <1>4, <1>5, <1>6 DEF IInv

\* Preservation when the future is dropped.
LEMMA CancelPreserves ==
  ASSUME IInv, Cancel
  PROVE  IInv'
<1>1. TypeOK'
  BY DEF Cancel, IInv, TypeOK, PCs
<1>2. Standing'
  BY DEF Cancel, IInv, Standing
<1>3. AbandonedInFault'
  BY DEF Cancel, IInv, AbandonedInFault
<1>4. WaitJustified'
  BY DEF Cancel, WaitJustified
<1>5. HooksAddUp'
  BY DEF Cancel, IInv, HooksAddUp
<1>6. EarlyErrorMeansExecuted'
  BY DEF Cancel, EarlyErrorMeansExecuted
<1> QED
  BY <1>1, <1>2, <1>3, <1>4, <1>5, <1>6 DEF IInv

\* Preservation when the server executes a request.
LEMMA ExecutePreserves ==
  ASSUME IInv, NEW i \in Attempts, Execute(i)
  PROVE  IInv'
<1>1. TypeOK'
  BY DEF Execute, clientVars, IInv, TypeOK
<1>2. Standing'
  BY DEF Execute, clientVars, IInv, Standing
<1>3. AbandonedInFault'
  BY DEF Execute, clientVars, IInv, AbandonedInFault
<1>4. WaitJustified'
  BY DEF Execute, clientVars, IInv, WaitJustified
<1>5. HooksAddUp'
  BY DEF Execute, clientVars, IInv, TypeOK, HooksAddUp, MayHaveLostBody
<1>6. EarlyErrorMeansExecuted'
  BY DEF Execute, clientVars, IInv, TypeOK, EarlyErrorMeansExecuted
<1> QED
  BY <1>1, <1>2, <1>3, <1>4, <1>5, <1>6 DEF IInv

\* Preservation when the network loses a request.
LEMMA LosePreserves ==
  ASSUME IInv, NEW i \in Attempts, Lose(i)
  PROVE  IInv'
<1>1. TypeOK'
  BY DEF Lose, clientVars, IInv, TypeOK
<1>2. Standing'
  BY DEF Lose, clientVars, IInv, Standing
<1>3. AbandonedInFault'
  BY DEF Lose, clientVars, IInv, AbandonedInFault
<1>4. WaitJustified'
  BY DEF Lose, clientVars, IInv, WaitJustified
<1>5. HooksAddUp'
  BY DEF Lose, clientVars, IInv, TypeOK, HooksAddUp, MayHaveLostBody
<1>6. EarlyErrorMeansExecuted'
  BY DEF Lose, clientVars, IInv, TypeOK, EarlyErrorMeansExecuted
<1> QED
  BY <1>1, <1>2, <1>3, <1>4, <1>5, <1>6 DEF IInv

\* Every step of the specification preserves the invariant.
LEMMA NextPreserves == IInv /\ [Next]_vars => IInv'
<1> SUFFICES ASSUME IInv, [Next]_vars
             PROVE  IInv'
  OBVIOUS
<1>1. CASE UNCHANGED vars
  BY <1>1
  DEF vars, IInv, TypeOK, Standing, AbandonedInFault, WaitJustified, HooksAddUp,
      MayHaveLostBody, EarlyErrorMeansExecuted
<1>2. ASSUME Answered
      PROVE  IInv'
  BY <1>2, SuccessPreserves, TransportFailsPreserves, ErrorAnswerPreserves,
     AnswerPanicsPreserves
  DEF Answered
<1> QED
  BY <1>1, <1>2, BeginPreserves, BuildFailsPreserves, ReadBodyPreserves,
     BodyFailsPreserves, TickPreserves, WakePreserves, CancelPreserves,
     ExecutePreserves, LosePreserves
  DEF Next

-----------------------------------------------------------------------------
(* What send_json guarantees. *)

\* The inductive invariant holds throughout.
THEOREM Invariance == Spec => []IInv
  BY InitEstablishes, NextPreserves, PTL DEF Spec

\* Every variable keeps its type; in particular the counter stays within the budget.
THEOREM TypeCorrect == Spec => []TypeOK
<1>1. IInv => TypeOK
  BY DEF IInv
<1> QED
  BY <1>1, Invariance, PTL

\* For every set of statuses: the server repeats work only after a transport error.
THEOREM NoNeedlessDuplicate == Spec => []DuplicatesNeedFault
<1>1. IInv => DuplicatesNeedFault
  BY DEF IInv, AbandonedInFault, DuplicatesNeedFault
<1> QED
  BY <1>1, Invariance, PTL

\* A retryable error comes back before the last retry only when the server did the work.
THEOREM EarlyErrors == Spec => []EarlyErrorMeansExecuted
<1>1. IInv => EarlyErrorMeansExecuted
  BY DEF IInv
<1> QED
  BY <1>1, Invariance, PTL

\* Every sleep is the server's own delay or within retry_cap.
THEOREM SleepsJustified == Spec => []WaitJustified
<1>1. IInv => WaitJustified
  BY DEF IInv
<1> QED
  BY <1>1, Invariance, PTL

\* A retry is reported before each new request and the request when its call returns, for
\* every retry budget, unless the body of a success is lost.
THEOREM HooksAgree == Spec => []HooksAddUp
<1>1. IInv => HooksAddUp
  BY DEF IInv
<1> QED
  BY <1>1, Invariance, PTL

\* No request is sent while the server's Retry-After has not passed: the sleep that
\* precedes it is the server's delay whenever there is one.
THEOREM RetryAfterRespected == Spec => RetryAfterHonoured
<1>1. IInv /\ [Next]_vars =>
        [\A i \in Attempts : wire[i] = "unsent" /\ wire'[i] # "unsent" => due = 0]_vars
  <2> SUFFICES ASSUME IInv, Next, NEW i \in Attempts, wire[i] = "unsent", wire'[i] # "unsent"
               PROVE  due = 0
    OBVIOUS
  <2>1. Begin \/ Wake
    BY DEF Next, Answered, BuildFails, Success, TransportFails, ErrorAnswer, AnswerPanics,
           Answers, ReadBody, BodyFails, Tick, Cancel, Execute, Lose, IInv, TypeOK, vars
  <2>2. CASE Begin
    BY <2>2 DEF Begin, IInv, Standing
  <2>3. CASE Wake
    BY <2>3 DEF Wake, IInv, WaitJustified
  <2> QED
    BY <2>1, <2>2, <2>3
<1> QED
  BY <1>1, Invariance, PTL DEF Spec, RetryAfterHonoured

-----------------------------------------------------------------------------
(* send_json implements the abstract remote call. *)

\* The initial states map to the abstract initial state.
LEMMA InitRefines == Init => Abstract!Init
  BY DEF Init, Abstract!Init, phaseBar, executedBar, Over

\* Every step maps to an abstract step or to a stutter.
LEMMA NextRefines == IInv /\ IInv' /\ [Next]_vars => [Abstract!Next]_(Abstract!vars)
<1> SUFFICES ASSUME IInv, IInv', [Next]_vars
             PROVE  Abstract!Next \/ UNCHANGED Abstract!vars
  OBVIOUS
<1>1. CASE UNCHANGED vars
  BY <1>1 DEF vars, Abstract!vars, phaseBar, executedBar, Over
<1>2. CASE Begin
  <2>1. UNCHANGED <<executedBar, result>>
    BY <1>2 DEF Begin, Transmit, executedBar, IInv, TypeOK, HooksAddUp
  <2> QED
    BY <1>2, <2>1 DEF Begin, Abstract!Next, Abstract!Call, phaseBar, Over
<1>3. CASE Success \/ Tick \/ \E i \in Attempts : Lose(i)
  BY <1>3
  DEF Success, Tick, Lose, clientVars, Abstract!vars, phaseBar, executedBar, Over, IInv,
      TypeOK
<1>4. CASE Wake
  BY <1>4
  DEF Wake, Transmit, Abstract!vars, phaseBar, executedBar, Over, IInv, TypeOK, HooksAddUp,
      LocalError, Attempts
<1>5. CASE Cancel
  BY <1>5 DEF Cancel, Abstract!Next, Abstract!Abandon, phaseBar, executedBar, Over
<1>6. ASSUME NEW i \in Attempts, Execute(i)
      PROVE  Abstract!Next
  <2>1. executedBar' = executedBar \cup {i} /\ i \notin executedBar
    BY <1>6 DEF Execute, executedBar, IInv, TypeOK
  <2>2. pc # "idle" /\ UNCHANGED <<phaseBar, result>>
    BY <1>6 DEF Execute, clientVars, phaseBar, Over, IInv, TypeOK, HooksAddUp
  <2> QED
    BY <2>1, <2>2 DEF Abstract!Next, Abstract!Execute, phaseBar, Over
<1>7. ASSUME ~Over, pc' = "done", result' \in Errors \cup {Ok}, UNCHANGED executedBar,
             result' = Ok => executedBar # {}
      PROVE  Abstract!Next
  BY <1>7 DEF Abstract!Next, Abstract!Return, phaseBar, Over
<1>8. ASSUME NEW e \in Errors, Retry(e), pc = "await", UNCHANGED executedBar
      PROVE  UNCHANGED Abstract!vars
  BY <1>8 DEF Retry, Abstract!vars, phaseBar, Over
<1>9. ASSUME NEW e \in Errors, GiveUp(e), pc = "await", UNCHANGED executedBar
      PROVE  Abstract!Next
  <2>1. e # Ok
    BY DEF Errors, Ok, Kinds
  <2> QED
    BY <1>7, <1>9, <2>1 DEF GiveUp, Over
<1>10. CASE ReadBody
  BY <1>7, <1>10 DEF ReadBody, Over, executedBar, IInv, TypeOK, Standing
<1>11. CASE BodyFails \/ BuildFails
  <2>1. NetworkError \in Errors /\ LocalError \in Errors /\ NetworkError # Ok /\ LocalError # Ok
    BY DEF NetworkError, LocalError, Errors, Ok
  <2> QED
    BY <1>7, <1>11, <2>1 DEF BodyFails, BuildFails, Over, executedBar
<1>12. CASE TransportFails
  <2>1. NetworkError \in Errors
    BY DEF NetworkError, Errors
  <2> QED
    BY <1>8, <1>9, <1>12, <2>1 DEF TransportFails, executedBar
<1>13. ASSUME NEW s \in Statuses, NEW h, NEW b, ErrorAnswer(s, h, b)
       PROVE  Abstract!Next \/ UNCHANGED Abstract!vars
  <2>1. ClassifyError(s, h) \in Errors
    BY ClassifyErrorType
  <2>2. UNCHANGED executedBar
    BY <1>13 DEF ErrorAnswer, Answers, executedBar, IInv, TypeOK
  <2> QED
    BY <1>8, <1>9, <1>13, <2>1, <2>2 DEF ErrorAnswer, Answers
<1>14. ASSUME NEW s \in Statuses, NEW b, AnswerPanics(s, b)
       PROVE  Abstract!Next
  <2>1. UNCHANGED executedBar
    BY <1>14 DEF AnswerPanics, Answers, executedBar, IInv, TypeOK
  <2> QED
    BY <1>14, <2>1
    DEF AnswerPanics, Answers, Abstract!Next, Abstract!Abandon, phaseBar, Over
<1> QED
  BY <1>1, <1>2, <1>3, <1>4, <1>5, <1>6, <1>10, <1>11, <1>12, <1>13, <1>14
  DEF Next, Answered

\* Success means the server did the work, no transmission is executed twice and a call
\* ends once, for every retry budget and schedule of the server.
THEOREM Implements == Spec => ImplementsRpc
  BY NextRefines, InitRefines, Invariance, PTL DEF Spec, ImplementsRpc, Abstract!Spec
=============================================================================
