------------------------------- MODULE Breaker -------------------------------
(***************************************************************************)
(* CircuitBreaker, shared by callers that retry: withRetry(() =>           *)
(* breaker.execute(fn)).  The function runs between the check of the       *)
(* breaker and the count of its outcome, so a call may start while the     *)
(* breaker is closed and end when it is open or half open.                 *)
(*                                                                         *)
(* The service behind fn is external: healthy or not when the call ends.   *)
(* It throws errors of any class.  Time is counted since the last failure, *)
(* up to the timeout it is compared with; a breaker that has not failed    *)
(* counts as one whose timeout has passed.                                 *)
(***************************************************************************)
EXTENDS ErrorClasses

CONSTANTS Callers, failureThreshold, resetTimeout, halfOpenRequests, callRetries

\* The configuration defaults replace a zero, and callers wait for one call.
ASSUME BreakerAssumption ==
  /\ failureThreshold \in Nat \ {0}
  /\ resetTimeout \in Nat \ {0}
  /\ halfOpenRequests \in Nat \ {0}
  /\ callRetries \in Nat

CircuitState == {"CLOSED", "OPEN", "HALF_OPEN"}

VARIABLES
  circuit,        \* state, of CircuitState
  failureCount,   \* no further than the threshold, the most it is compared with
  successCount,
  elapsed,        \* time since lastFailureTime
  call,           \* of each caller: "idle", "running", "sleeping"
  attempt,        \* of withRetry
  healthy         \* external

breakerVars == <<circuit, failureCount, successCount, elapsed, call, attempt, healthy>>

BreakerInit ==
  /\ circuit = "CLOSED"
  /\ failureCount = 0
  /\ successCount = 0
  /\ elapsed = resetTimeout
  /\ call = [c \in Callers |-> "idle"]
  /\ attempt = [c \in Callers |-> 0]
  /\ healthy = TRUE

\* withRetry, after an attempt that threw.
Retry(c, retryable) ==
  \/ /\ retryable /\ attempt[c] < callRetries
     /\ call' = [call EXCEPT ![c] = "sleeping"]
     /\ attempt' = [attempt EXCEPT ![c] = @ + 1]
  \/ /\ ~retryable \/ attempt[c] = callRetries
     /\ call' = [call EXCEPT ![c] = "idle"]
     /\ attempt' = [attempt EXCEPT ![c] = 0]

\* execute, up to the call of fn.  A refusal is an error that can be retried.
Execute(c) ==
  /\ call[c] \in {"idle", "sleeping"}
  /\ \/ /\ circuit = "OPEN" /\ elapsed < resetTimeout
        /\ Retry(c, TRUE)
        /\ UNCHANGED circuit
     \/ /\ circuit = "OPEN" /\ elapsed = resetTimeout
        /\ circuit' = "HALF_OPEN"
        /\ call' = [call EXCEPT ![c] = "running"]
        /\ UNCHANGED attempt
     \/ /\ circuit # "OPEN"
        /\ call' = [call EXCEPT ![c] = "running"]
        /\ UNCHANGED <<circuit, attempt>>
  /\ UNCHANGED <<failureCount, successCount, elapsed, healthy>>

\* A reset that forgets the trials.
ResetKeepingTrials == circuit' = "CLOSED" /\ successCount' = successCount + 1

reset == circuit' = "CLOSED" /\ successCount' = 0

OnSuccess(c) ==
  /\ call[c] = "running" /\ healthy
  /\ call' = [call EXCEPT ![c] = "idle"]
  /\ attempt' = [attempt EXCEPT ![c] = 0]
  /\ failureCount' = 0
  /\ \/ /\ circuit # "HALF_OPEN"
        /\ UNCHANGED <<circuit, successCount>>
     \/ /\ circuit = "HALF_OPEN" /\ successCount + 1 < halfOpenRequests
        /\ successCount' = successCount + 1
        /\ UNCHANGED circuit
     \/ /\ circuit = "HALF_OPEN" /\ successCount + 1 >= halfOpenRequests
        /\ reset
  /\ UNCHANGED <<elapsed, healthy>>

OnFailure(c, error) ==
  LET count == IF failureCount < failureThreshold THEN failureCount + 1 ELSE failureThreshold
  IN /\ call[c] = "running" /\ ~healthy
     /\ Retry(c, isRetryable(error))
     /\ failureCount' = count
     /\ elapsed' = 0
     /\ circuit' = IF circuit = "HALF_OPEN" \/ count >= failureThreshold THEN "OPEN" ELSE circuit
     /\ UNCHANGED <<successCount, healthy>>

Elapse == /\ elapsed < resetTimeout
          /\ elapsed' = elapsed + 1
          /\ UNCHANGED <<circuit, failureCount, successCount, call, attempt, healthy>>

ServiceChanges == /\ healthy' = ~healthy
                  /\ UNCHANGED <<circuit, failureCount, successCount, elapsed, call, attempt>>

CallStep(c) == Execute(c) \/ OnSuccess(c) \/ \E error \in ErrorsThrown : OnFailure(c, error)

BreakerNext == Elapse \/ ServiceChanges \/ \E c \in Callers : CallStep(c)

BreakerSpec == BreakerInit /\ [][BreakerNext]_breakerVars

----------------------------------------------------------------------------
(* Properties.                                                             *)

BreakerTypeOK ==
  /\ circuit \in CircuitState
  /\ failureCount \in 0 .. failureThreshold
  /\ successCount \in Nat
  /\ elapsed \in 0 .. resetTimeout
  /\ call \in [Callers -> {"idle", "running", "sleeping"}]
  /\ attempt \in [Callers -> 0 .. callRetries]
  /\ healthy \in BOOLEAN

\* Whatever calls end after the breaker has moved on, a closed breaker is short
\* of its threshold and has no trial left over, and the trials of an open or
\* half-open one are short of the number that closes it: no outcome that comes
\* late leaves a state that it should have moved the breaker out of.
BreakerConsistent ==
  /\ circuit = "CLOSED" => failureCount < failureThreshold /\ successCount = 0
  /\ successCount < halfOpenRequests
=============================================================================
