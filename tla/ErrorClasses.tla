---------------------------- MODULE ErrorClasses ----------------------------
(***************************************************************************)
(* The errors of the SDK, by what decides their fate: category, severity   *)
(* and whether a retry makes sense.  Messages, codes and contexts are left *)
(* out, and so are errors that only differ in them.                        *)
(***************************************************************************)
EXTENDS Naturals

ErrorSeverity == [DEBUG |-> 0, INFO |-> 1, LOW |-> 3, MEDIUM |-> 5, HIGH |-> 7,
                  CRITICAL |-> 9, EMERGENCY |-> 10]

SecurityCategories ==
  {"security.unauthorized", "security.invalid_signature", "security.replay_attack",
   "security.mev_detected", "security.fraud_attempt"}

ILRMError(category, severity, retryable) ==
  [category |-> category, severity |-> severity, retryable |-> retryable]

ContractError == ILRMError("contract.revert", ErrorSeverity.MEDIUM, FALSE)
NetworkError == ILRMError("network.rpc_error", ErrorSeverity.MEDIUM, TRUE)
SecurityError(category) == ILRMError(category, ErrorSeverity.CRITICAL, FALSE)
ValidationError == ILRMError("validation.invalid_input", ErrorSeverity.LOW, FALSE)
OracleError == ILRMError("oracle.unavailable", ErrorSeverity.HIGH, TRUE)
BridgeError == ILRMError("bridge.state_mismatch", ErrorSeverity.HIGH, FALSE)

\* An Error that is not of the SDK, and what handle takes it for.
PlainError == [name |-> "Error"]
AsILRMError(error) ==
  IF error = PlainError THEN ILRMError("system.internal", ErrorSeverity.MEDIUM, FALSE)
                        ELSE error

ErrorsThrown ==
  {ContractError, NetworkError, ValidationError, OracleError, BridgeError, PlainError}
    \cup {SecurityError(category) : category \in SecurityCategories}

\* What withRetry retries by default.
retryableErrors == {"network.timeout", "network.connection_refused", "network.rpc_error",
                    "oracle.unavailable"}
isRetryable(error) ==
  IF error = PlainError THEN TRUE
  ELSE error.retryable \/ error.category \in retryableErrors
=============================================================================
