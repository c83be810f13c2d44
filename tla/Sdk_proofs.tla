----------------------------- MODULE Sdk_proofs -----------------------------
(***************************************************************************)
(* Proofs about the parts of the SDK that keep state.  Each part has its own *)
(* specification and an inductive invariant of its own: its type, the facts *)
(* that a step relies on, and the property itself; a lemma for each action *)
(* shows that it keeps the invariant.                                      *)
(***************************************************************************)
EXTENDS Breaker, DaemonClient, SiemClient, SecurityManager, Fido, ViewingEscrow,
        ThresholdBls, Shamir, FiniteAlgebra, SequenceTheorems, FiniteSetTheorems, TLAPS

----------------------------------------------------------------------------
(* The circuit breaker, for any number of callers and every threshold: its *)
(* type and its consistency are together inductive.                        *)

\* The two are inductive together.
BreakerInv == BreakerTypeOK /\ BreakerConsistent

\* The retry of a caller touches that caller only, within its budget.
LEMMA RetryType ==
  ASSUME BreakerTypeOK, BreakerAssumption, NEW c \in Callers, NEW retryable \in BOOLEAN,
         Retry(c, retryable)
  PROVE  /\ call' \in [Callers -> {"idle", "running", "sleeping"}]
         /\ attempt' \in [Callers -> 0 .. callRetries]
  <1>1. CASE retryable /\ attempt[c] < callRetries
    <2>1. attempt[c] + 1 \in 0 .. callRetries
      BY <1>1 DEF BreakerTypeOK, BreakerAssumption
    <2> QED
      BY <1>1, <2>1 DEF BreakerTypeOK, Retry
  <1>2. CASE ~retryable \/ attempt[c] = callRetries
    <2>1. 0 \in 0 .. callRetries
      BY DEF BreakerAssumption
    <2>2. /\ call' = [call EXCEPT ![c] = "idle"]
          /\ attempt' = [attempt EXCEPT ![c] = 0]
      BY <1>2 DEF BreakerTypeOK, BreakerAssumption, Retry
    <2> QED
      BY <2>1, <2>2 DEF BreakerTypeOK
  <1> QED
    BY <1>1, <1>2 DEF Retry

\* A caller that starts a call, or is refused, leaves the invariant.
LEMMA ExecuteInv ==
  ASSUME BreakerInv, BreakerAssumption, NEW c \in Callers, Execute(c)
  PROVE  BreakerInv'
  <1> USE DEF BreakerInv
  <1>1. UNCHANGED <<failureCount, successCount, elapsed, healthy>>
    BY DEF Execute
  <1>2. CASE circuit = "OPEN" /\ elapsed < resetTimeout
    <2>1. elapsed # resetTimeout
      BY <1>2 DEF BreakerTypeOK, BreakerAssumption
    <2>2. Retry(c, TRUE) /\ UNCHANGED circuit
      BY <1>2, <2>1, Zenon DEF Execute
    <2> QED
      BY <1>1, <2>2, RetryType DEF BreakerTypeOK, BreakerConsistent
  <1>3. CASE circuit = "OPEN" /\ elapsed = resetTimeout
    <2>1. ~(elapsed < resetTimeout)
      BY <1>3 DEF BreakerTypeOK, BreakerAssumption
    <2>2. /\ circuit' = "HALF_OPEN"
          /\ call' = [call EXCEPT ![c] = "running"]
          /\ UNCHANGED attempt
      BY <1>3, <2>1, Zenon DEF Execute
    <2> QED
      BY <1>1, <2>2 DEF BreakerTypeOK, BreakerConsistent, CircuitState
  <1>4. CASE circuit # "OPEN"
    <2>1. /\ call' = [call EXCEPT ![c] = "running"]
          /\ UNCHANGED <<circuit, attempt>>
      BY <1>4 DEF Execute
    <2> QED
      BY <1>1, <2>1 DEF BreakerTypeOK, BreakerConsistent
  <1> QED
    BY <1>2, <1>3, <1>4 DEF Execute

\* The last trial of a half-open breaker closes it with both counters at zero; an
\* earlier one leaves the count short of that.
LEMMA OnSuccessInv ==
  ASSUME BreakerInv, BreakerAssumption, NEW c \in Callers, OnSuccess(c)
  PROVE  BreakerInv'
  <1> USE DEF BreakerInv
  <1>1. /\ call' \in [Callers -> {"idle", "running", "sleeping"}]
        /\ attempt' \in [Callers -> 0 .. callRetries]
    <2>1. 0 \in 0 .. callRetries
      BY DEF BreakerAssumption
    <2> QED
      BY <2>1 DEF OnSuccess, BreakerTypeOK
  <1>2. failureCount' = 0 /\ UNCHANGED <<elapsed, healthy>>
    BY DEF OnSuccess
  <1>3. /\ circuit' \in CircuitState
        /\ successCount' \in Nat
        /\ successCount' < halfOpenRequests
        /\ circuit' = "CLOSED" => successCount' = 0
    BY DEF OnSuccess, reset, BreakerTypeOK, BreakerConsistent, BreakerAssumption, CircuitState
  <1> QED
    BY <1>1, <1>2, <1>3 DEF BreakerTypeOK, BreakerConsistent, BreakerAssumption

\* A failure that leaves the breaker closed left it short of its threshold.
LEMMA OnFailureInv ==
  ASSUME BreakerInv, BreakerAssumption, NEW c \in Callers, NEW error \in ErrorsThrown,
         OnFailure(c, error)
  PROVE  BreakerInv'
  <1> USE DEF BreakerInv
  <1> DEFINE count == IF failureCount < failureThreshold THEN failureCount + 1
                                                         ELSE failureThreshold
  <1>1. count \in 0 .. failureThreshold
    BY DEF BreakerTypeOK, BreakerAssumption
  <1>2. /\ Retry(c, isRetryable(error))
        /\ failureCount' = count
        /\ elapsed' = 0
        /\ circuit' = IF circuit = "HALF_OPEN" \/ count >= failureThreshold
                      THEN "OPEN" ELSE circuit
        /\ UNCHANGED <<successCount, healthy>>
    BY DEF OnFailure
  <1>3. isRetryable(error) \in BOOLEAN
    BY DEF isRetryable
  <1>4. /\ call' \in [Callers -> {"idle", "running", "sleeping"}]
        /\ attempt' \in [Callers -> 0 .. callRetries]
    BY <1>2, <1>3, RetryType
  <1> HIDE DEF count
  <1>5. circuit' \in CircuitState /\ (circuit' = "CLOSED" => circuit = "CLOSED" /\ count < failureThreshold)
    BY <1>1, <1>2 DEF BreakerTypeOK, CircuitState, BreakerAssumption
  <1> QED
    BY <1>1, <1>2, <1>4, <1>5 DEF BreakerTypeOK, BreakerConsistent, BreakerAssumption

\* Whatever calls end after the breaker has moved on, in whatever order, a closed
\* breaker is short of its threshold with no trial left over, and no count of trials
\* reaches the number that closes it (onSuccess, onFailure and reset of errors.ts).
THEOREM BreakerAlwaysConsistent == BreakerSpec => [](BreakerTypeOK /\ BreakerConsistent)
  <1>1. BreakerInit => BreakerInv
    BY BreakerAssumption
    DEF BreakerInit, BreakerInv, BreakerTypeOK, BreakerConsistent, BreakerAssumption,
        CircuitState
  <1>2. BreakerInv /\ [BreakerNext]_breakerVars => BreakerInv'
    <2> SUFFICES ASSUME BreakerInv, [BreakerNext]_breakerVars PROVE BreakerInv'
      OBVIOUS
    <2>1. CASE Elapse
      BY <2>1, BreakerAssumption
      DEF Elapse, BreakerInv, BreakerTypeOK, BreakerConsistent, BreakerAssumption
    <2>2. CASE ServiceChanges
      BY <2>2 DEF ServiceChanges, BreakerInv, BreakerTypeOK, BreakerConsistent
    <2>3. ASSUME NEW c \in Callers, CallStep(c) PROVE BreakerInv'
      BY <2>3, BreakerAssumption, ExecuteInv, OnSuccessInv, OnFailureInv DEF CallStep
    <2>4. CASE UNCHANGED breakerVars
      BY <2>4 DEF breakerVars, BreakerInv, BreakerTypeOK, BreakerConsistent
    <2> QED
      BY <2>1, <2>2, <2>3, <2>4 DEF BreakerNext
  <1> QED
    BY <1>1, <1>2, PTL DEF BreakerSpec, BreakerInv

----------------------------------------------------------------------------
(* The boundary daemon client, for any checks, blocks and sockets: where a *)
(* call stands, and whose answer it has.                                   *)

\* What a call may have for a result.
Results == PolicyDecision \cup {"", "BLOCKED", "ERROR"}

\* The records of the calls that are under way.
Calls == [phase  : {"idle", "requesting", "auditing", "done"},
          result : Results,
          via    : Sockets \cup {NoSocket, Destroyed},
          wire   : {"", "out", "back"}]

\* The type of what a call reads and writes.
CallsTypeOK ==
  /\ job \in [Jobs -> Calls]
  /\ verdict \in [Jobs -> Results]
  /\ socket \in Sockets \cup {NoSocket, Destroyed}

\* What is known of a call before it returns, which makes what is promised once
\* it has returned inductive: nothing travels for a call that is not waiting;
\* the result that is being recorded is the daemon's own or the fallback; and
\* an answer to a record means that the daemon has logged it.
CallInv(j) ==
  /\ job[j].phase \in {"idle", "done"} => job[j].wire = ""
  /\ job[j].phase = "auditing" =>
       /\ job[j].result = "MONITOR" \/ job[j].result = verdict[j]
       /\ job[j].wire = "back" => j \in audited
  /\ job[j].phase = "done" =>
       /\ job[j].result \notin {"MONITOR", "ERROR"} => job[j].result = verdict[j]
       /\ job[j].result # "ERROR" => j \in audited \cup logged

\* Of all calls at once.
CallsInv == CallsTypeOK /\ \A j \in Jobs : CallInv(j)

\* The call of j returns result, or what it was recording.
LEMMA CallType ==
  ASSUME NEW how \in {"idle", "requesting", "auditing", "done"}, NEW result \in Results,
         NEW via \in Sockets \cup {NoSocket, Destroyed}, NEW wire \in {"", "out", "back"}
  PROVE  [phase |-> how, result |-> result, via |-> via, wire |-> wire] \in Calls
  BY DEF Calls

\* The fields of a call.
LEMMA CallFields ==
  ASSUME NEW how, NEW result, NEW via, NEW wire, NEW c,
         c = [phase |-> how, result |-> result, via |-> via, wire |-> wire]
  PROVE  c.phase = how /\ c.result = result /\ c.via = via /\ c.wire = wire
  OBVIOUS

\* A call that returns keeps the result it has if only its audit was missing.
LEMMA ReturnedIs ==
  ASSUME CallsTypeOK, NEW j \in Jobs, NEW result \in Results, job'[j] = Returned(j, result)
  PROVE  /\ job'[j].phase = "done"
         /\ job'[j].wire = ""
         /\ job'[j].result = IF job[j].phase = "auditing" THEN job[j].result ELSE result
         /\ job'[j] \in Calls
  <1>1. job[j].result \in Results
    BY DEF CallsTypeOK, Calls
  <1>2. /\ job'[j].phase = "done"
        /\ job'[j].wire = ""
        /\ job'[j].result = IF job[j].phase = "auditing" THEN job[j].result ELSE result
    <2> DEFINE c == job'[j]
    <2>1. c = [phase  |-> "done",
               result |-> IF job[j].phase = "auditing" THEN job[j].result ELSE result,
               via    |-> NoSocket,
               wire   |-> ""]
      BY Zenon DEF Returned
    <2> HIDE DEF c
    <2>2. /\ c.phase = "done"
          /\ c.wire = ""
          /\ c.result = IF job[j].phase = "auditing" THEN job[j].result ELSE result
      BY <2>1, CallFields
    <2> QED
      BY <2>2 DEF c
  <1>3. job'[j] \in Calls
    <2> DEFINE r == IF job[j].phase = "auditing" THEN job[j].result ELSE result
    <2>1. r \in Results
      BY <1>1
    <2>2. [phase |-> "done", result |-> r, via |-> NoSocket, wire |-> ""] \in Calls
      BY <2>1, CallType
    <2> QED
      BY <2>2, Zenon DEF Returned
  <1> QED
    BY <1>2, <1>3

\* What a call returns that the daemon has not answered.
LEMMA FallbackIs ==
  ASSUME NEW j \in Jobs, CallsTypeOK, DaemonAssumption
  PROVE  /\ Fallback(j) \in Results
         /\ job[j].phase = "auditing" => Fallback(j) = job[j].result
         /\ job[j].phase # "auditing" => Fallback(j) = IF j \in Blocks THEN "ERROR" ELSE "MONITOR"
  BY DEF Fallback, Results, PolicyDecision, CallsTypeOK, Calls

\* A call whose request is refused returns the fallback, and is in the local log
\* unless the fallback is an error.
LEMMA RefusedInv ==
  ASSUME CallsInv, DaemonAssumption, NEW j \in Jobs,
         job'[j] = Returned(j, Fallback(j)),
         Recorded(j) => j \in logged',
         UNCHANGED <<verdict, audited>>
  PROVE  CallInv(j)'
  <1>1. Fallback(j) \in Results
    BY FallbackIs DEF CallsInv
  <1>2. /\ job'[j].phase = "done"
        /\ job'[j].wire = ""
        /\ job'[j].result = IF job[j].phase = "auditing" THEN job[j].result ELSE Fallback(j)
    BY <1>1, ReturnedIs DEF CallsInv
  <1>3. CASE job[j].phase = "auditing"
    <2>1. job'[j].result = "MONITOR" \/ job'[j].result = verdict'[j]
      BY <1>2, <1>3 DEF CallsInv, CallInv
    <2>2. j \in logged'
      BY <1>3 DEF Recorded
    <2> QED
      BY <1>2, <2>1, <2>2 DEF CallInv
  <1>4. CASE job[j].phase # "auditing" /\ j \in Blocks
    BY <1>2, <1>4, FallbackIs DEF CallsInv, CallInv
  <1>5. CASE job[j].phase # "auditing" /\ j \notin Blocks
    <2>1. j \in Checks /\ job'[j].result = "MONITOR"
      BY <1>2, <1>5, FallbackIs DEF CallsInv, Jobs
    <2>2. j \in logged'
      BY <2>1 DEF Recorded
    <2> QED
      BY <1>2, <2>1, <2>2 DEF CallInv
  <1> QED
    BY <1>3, <1>4, <1>5

\* A result that is the fallback or the daemon's own is sent to be recorded, or
\* returned and recorded here.
LEMMA AuditInv ==
  ASSUME CallsInv, DaemonAssumption, NEW j \in Jobs, NEW result \in Results,
         job[j].phase = "requesting",
         result = "MONITOR" \/ result = verdict[j],
         Audit(j, result),
         UNCHANGED <<verdict, audited>>
  PROVE  /\ CallInv(j)'
         /\ job'[j] \in Calls
         /\ job' = [job EXCEPT ![j] = job'[j]]
         /\ logged \subseteq logged'
  <1>1. CASE CanSend /\ job' = [job EXCEPT ![j] = Sent("auditing", result)] /\ UNCHANGED logged
    <2>1. job'[j] = [phase |-> "auditing", result |-> result, via |-> socket, wire |-> "out"]
      BY <1>1 DEF Sent, CallsInv, CallsTypeOK, Calls
    <2>2. job'[j] \in Calls
      BY <2>1, CallType DEF CallsInv, CallsTypeOK
    <2>3. CallInv(j)'
      <3>1. job'[j].phase = "auditing" /\ job'[j].result = result /\ job'[j].wire = "out"
        BY <2>1
      <3> QED
        BY <3>1 DEF CallInv
    <2> QED
      BY <1>1, <2>2, <2>3 DEF CallsInv, CallsTypeOK, Calls
  <1>2. CASE /\ job' = [job EXCEPT ![j] = Returned(j, result)]
             /\ logged' = logged \cup {j}
    <2>1. job'[j] = Returned(j, result)
      BY <1>2 DEF CallsInv, CallsTypeOK, Calls
    <2>2. /\ job'[j].phase = "done"
          /\ job'[j].wire = ""
          /\ job'[j].result = result
          /\ job'[j] \in Calls
      BY <2>1, ReturnedIs DEF CallsInv
    <2>3. CallInv(j)'
      BY <1>2, <2>2 DEF CallInv
    <2> QED
      BY <1>2, <2>1, <2>2, <2>3
  <1> QED
    BY <1>1, <1>2 DEF Audit

\* The step of one call leaves the others as they were.
LEMMA OtherCalls ==
  ASSUME CallsInv, NEW j \in Jobs, CallInv(j)',
         job'[j] \in Calls,
         job' = [job EXCEPT ![j] = job'[j]],
         verdict' \in [Jobs -> Results],
         \A k \in Jobs \ {j} : verdict'[k] = verdict[k],
         logged \subseteq logged', audited \subseteq audited',
         UNCHANGED socket
  PROVE  CallsInv'
  <1>1. CallsTypeOK'
    BY DEF CallsInv, CallsTypeOK, Calls
  <1>2. ASSUME NEW k \in Jobs, k # j PROVE CallInv(k)'
    <2>1. job'[k] = job[k] /\ verdict'[k] = verdict[k]
      BY <1>2 DEF CallsInv, CallsTypeOK, Calls
    <2> QED
      BY <2>1 DEF CallsInv, CallInv
  <1> QED
    BY <1>1, <1>2 DEF CallsInv

\* Every step of a call.
LEMMA JobStepInv ==
  ASSUME CallsInv, DaemonAssumption, NEW j \in Jobs, JobStep(j)
  PROVE  CallsInv'
  <1>0. /\ job[j] \in Calls
        /\ verdict[j] \in Results
        /\ "MONITOR" \in Results
    BY DEF CallsInv, CallsTypeOK, Calls, Results, PolicyDecision
  <1>g. ASSUME GiveUp(j), UNCHANGED <<socket, verdict, audited>>
        PROVE  CallsInv'
    <2>1. /\ job' = [job EXCEPT ![j] = Returned(j, Fallback(j))]
          /\ job'[j] = Returned(j, Fallback(j))
          /\ Recorded(j) => j \in logged'
          /\ logged \subseteq logged'
      BY <1>g DEF GiveUp, CallsInv, CallsTypeOK, Calls
    <2>2. CallInv(j)'
      BY <2>1, <1>g, RefusedInv
    <2>3. job'[j] \in Calls
      BY <2>1, FallbackIs, ReturnedIs DEF CallsInv
    <2>4. verdict' \in [Jobs -> Results]
      BY <1>g DEF CallsInv, CallsTypeOK, Calls
    <2> QED
      BY <2>1, <2>2, <2>3, <2>4, <1>g, OtherCalls
  <1>a. ASSUME NEW result \in Results, result = "MONITOR" \/ result = verdict[j],
               job[j].phase = "requesting", Audit(j, result),
               UNCHANGED <<socket, verdict, audited>>
        PROVE  CallsInv'
    <2>1. verdict' \in [Jobs -> Results]
      BY <1>a DEF CallsInv, CallsTypeOK, Calls
    <2> QED
      BY <1>a, <2>1, AuditInv, OtherCalls
  <1>1. CASE Call(j)
    <2>1. UNCHANGED <<socket, verdict, audited>> /\ job[j].phase = "idle"
      BY <1>1 DEF Call, socketVars
    <2>2. CASE CanSend /\ job' = [job EXCEPT ![j] = Sent("requesting", "")] /\ UNCHANGED logged
      <3>1. job'[j] = [phase |-> "requesting", result |-> "", via |-> socket, wire |-> "out"]
        BY <2>2 DEF Sent, CallsInv, CallsTypeOK, Calls
      <3>2. job'[j] \in Calls
        BY <3>1, CallType DEF CallsInv, CallsTypeOK, Results
      <3>3. CallInv(j)'
        <4> DEFINE c == job'[j]
        <4>1. c = [phase |-> "requesting", result |-> "", via |-> socket, wire |-> "out"]
          BY <3>1
        <4> HIDE DEF c
        <4>2. c.phase = "requesting"
          BY <4>1, CallFields
        <4> QED
          BY <4>2 DEF CallInv, c
      <3>4. verdict' \in [Jobs -> Results] /\ job' = [job EXCEPT ![j] = job'[j]]
        BY <2>1, <2>2 DEF CallsInv, CallsTypeOK, Calls
      <3> QED
        BY <2>1, <2>2, <3>2, <3>3, <3>4, OtherCalls
    <2> QED
      BY <1>1, <2>1, <2>2, <1>g DEF Call
  <1>2. CASE OnData(j)
    <2>1. UNCHANGED <<socket, verdict, audited>> /\ job[j].wire = "back"
      BY <1>2 DEF OnData, socketVars
    <2>2. verdict' \in [Jobs -> Results]
      BY <2>1 DEF CallsInv, CallsTypeOK, Calls
    <2>3. CASE job' = [job EXCEPT ![j].wire = ""] /\ UNCHANGED logged
      <3>1. /\ job'[j] = [job[j] EXCEPT !.wire = ""]
            /\ job' = [job EXCEPT ![j] = job'[j]]
        BY <2>3 DEF CallsInv, CallsTypeOK, Calls
      <3>2. /\ job'[j] \in Calls
            /\ job'[j].phase = job[j].phase
            /\ job'[j].result = job[j].result
            /\ job'[j].wire = ""
        BY <3>1, <1>0 DEF Calls
      <3>3. CallInv(j)'
        BY <3>2, <2>1, <2>3 DEF CallsInv, CallInv
      <3> QED
        BY <2>1, <2>2, <2>3, <3>1, <3>2, <3>3, OtherCalls
    <2>4. CASE job[j].phase = "requesting" /\ Audit(j, verdict[j])
      BY <2>1, <2>4, <1>0, <1>a
    <2>5. CASE /\ job[j].phase = "auditing"
               /\ job' = [job EXCEPT ![j] = Returned(j, verdict[j])]
               /\ UNCHANGED logged
      <3>1. job'[j] = Returned(j, verdict[j])
        BY <2>5 DEF CallsInv, CallsTypeOK, Calls
      <3>2. /\ job'[j] \in Calls
            /\ job'[j].phase = "done"
            /\ job'[j].wire = ""
            /\ job'[j].result = job[j].result
        BY <3>1, <1>0, <2>5, ReturnedIs, ZenonT(30) DEF CallsInv
      <3>3. CallInv(j)'
        BY <3>2, <2>1, <2>5 DEF CallsInv, CallInv
      <3>4. job' = [job EXCEPT ![j] = job'[j]]
        BY <3>1, <2>5
      <3> QED
        BY <2>1, <2>2, <2>5, <3>2, <3>3, <3>4, OtherCalls
    <2> QED
      BY <1>2, <2>3, <2>4, <2>5 DEF OnData
  <1>3. CASE OnRequestTimeout(j)
    <2>1. UNCHANGED <<socket, verdict, audited>>
      BY <1>3 DEF OnRequestTimeout, socketVars
    <2> QED
      BY <1>3, <2>1, <1>0, <1>g, <1>a DEF OnRequestTimeout
  <1>4. CASE Serve(j)
    <2>1. /\ job' = [job EXCEPT ![j].wire = "back"]
          /\ job[j].wire = "out"
          /\ UNCHANGED <<socket, logged>>
      BY <1>4 DEF Serve, socketVars
    <2>2. /\ job'[j] = [job[j] EXCEPT !.wire = "back"]
          /\ job' = [job EXCEPT ![j] = job'[j]]
      BY <2>1 DEF CallsInv, CallsTypeOK, Calls
    <2>3. /\ job'[j] \in Calls
          /\ job'[j].phase = job[j].phase
          /\ job'[j].result = job[j].result
          /\ job'[j].wire = "back"
      BY <2>2, <1>0 DEF Calls
    <2>4. job[j].phase \in {"requesting", "auditing"}
      BY <1>4 DEF Serve
    <2>5. CASE job[j].phase = "requesting"
      <3>1. PICK v \in IF j \in Blocks THEN {"BLOCKED"} ELSE Verdicts :
                   verdict' = [verdict EXCEPT ![j] = v]
        BY <1>4, <2>5 DEF Serve
      <3>2. v \in Results
        BY <3>1 DEF DaemonAssumption, Results
      <3>3. verdict' \in [Jobs -> Results] /\ \A k \in Jobs \ {j} : verdict'[k] = verdict[k]
        BY <3>1, <3>2 DEF CallsInv, CallsTypeOK, Calls
      <3>4. CallInv(j)'
        BY <2>3, <2>5 DEF CallInv
      <3>5. UNCHANGED audited
        BY <1>4, <2>5 DEF Serve
      <3> QED
        BY <2>1, <2>2, <2>3, <3>3, <3>4, <3>5, OtherCalls
    <2>6. CASE job[j].phase = "auditing"
      <3>1. audited' = audited \cup {j} /\ UNCHANGED verdict
        BY <1>4, <2>6 DEF Serve
      <3>2. verdict' \in [Jobs -> Results]
        BY <3>1 DEF CallsInv, CallsTypeOK, Calls
      <3>3. CallInv(j)'
        BY <2>3, <2>6, <3>1 DEF CallsInv, CallInv
      <3> QED
        BY <2>1, <2>2, <2>3, <3>1, <3>2, <3>3, OtherCalls
    <2> QED
      BY <2>4, <2>5, <2>6
  <1> QED
    BY <1>1, <1>2, <1>3, <1>4 DEF JobStep

\* What was under way on a socket that closes is lost, and the calls wait on.
LEMMA OnCloseCalls ==
  ASSUME CallsInv, NEW s \in Sockets, OnClose(s)
  PROVE  CallsInv'
  <1>1. /\ job' = [j \in Jobs |-> IF job[j].via = s
                                   THEN [job[j] EXCEPT !.via = NoSocket, !.wire = ""]
                                   ELSE job[j]]
        /\ socket' = IF socket = s THEN Destroyed ELSE socket
        /\ UNCHANGED <<verdict, audited, logged>>
    BY DEF OnClose
  <1>2. ASSUME NEW j \in Jobs
        PROVE  /\ job'[j] \in Calls
               /\ job'[j].phase = job[j].phase
               /\ job'[j].result = job[j].result
               /\ job'[j].wire \in {"", job[j].wire}
    BY <1>1 DEF CallsInv, CallsTypeOK, Calls
  <1>3. CallsTypeOK'
    <2>1. job' \in [Jobs -> Calls]
      BY <1>1, <1>2
    <2> QED
      BY <1>1, <2>1 DEF CallsInv, CallsTypeOK, Calls
  <1>4. ASSUME NEW j \in Jobs PROVE CallInv(j)'
    BY <1>1, <1>2 DEF CallsInv, CallInv
  <1> QED
    BY <1>3, <1>4 DEF CallsInv

\* disconnect refuses every call that waits.
LEMMA DisconnectCalls ==
  ASSUME CallsInv, DaemonAssumption, Disconnect
  PROVE  CallsInv'
  <1>1. /\ job' = [j \in Jobs |-> IF Waiting(j) THEN Returned(j, Fallback(j)) ELSE job[j]]
        /\ logged' = logged \cup {j \in Jobs : Waiting(j) /\ Recorded(j)}
        /\ socket' = NoSocket
        /\ UNCHANGED <<verdict, audited>>
    BY DEF Disconnect
  <1>2. ASSUME NEW j \in Jobs
        PROVE  /\ job'[j] \in Calls
               /\ CallInv(j)'
    <2>1. CASE Waiting(j)
      <3>1. job'[j] = Returned(j, Fallback(j)) /\ (Recorded(j) => j \in logged')
        BY <1>1, <2>1
      <3> QED
        BY <1>1, <3>1, RefusedInv, FallbackIs, ReturnedIs DEF CallsInv
    <2>2. CASE ~Waiting(j)
      <3>1. job'[j] = job[j] /\ logged \subseteq logged'
        BY <1>1, <2>2
      <3> QED
        BY <1>1, <3>1 DEF CallsInv, CallsTypeOK, Calls, CallInv
    <2> QED
      BY <2>1, <2>2
  <1>3. CallsTypeOK'
    <2>1. job' \in [Jobs -> Calls]
      BY <1>1, <1>2
    <2> QED
      BY <1>1, <2>1 DEF CallsInv, CallsTypeOK, Calls
  <1> QED
    BY <1>2, <1>3 DEF CallsInv

\* Every step of the client.
LEMMA DaemonNextInv ==
  ASSUME CallsInv, DaemonAssumption, DaemonNext
  PROVE  CallsInv'
  <1>1. ASSUME UNCHANGED requestVars, socket' \in Sockets \cup {NoSocket, Destroyed}
        PROVE  CallsInv'
    BY <1>1 DEF CallsInv, CallsTypeOK, Calls, CallInv, requestVars
  <1>2. socket \in Sockets \cup {NoSocket, Destroyed}
    BY DEF CallsInv, CallsTypeOK, Calls
  <1>3. ASSUME Connect \/ Reject PROVE socket' \in Sockets \cup {NoSocket, Destroyed}
    BY <1>2, <1>3 DEF Connect, OpenSocket, Reject
  <1>4. CASE CallConnect
    BY <1>1, <1>3, <1>4 DEF CallConnect
  <1>5. CASE Disconnect
    BY <1>5, DisconnectCalls
  <1>6. CASE OnConnectTimeout
    BY <1>1, <1>2, <1>6 DEF OnConnectTimeout
  <1>7. CASE OnReconnectTimer
    BY <1>1, <1>3, <1>7 DEF OnReconnectTimer
  <1>8. CASE Recover
    BY <1>1, <1>2, <1>8 DEF Recover, socketVars
  <1>9. ASSUME NEW how \in {"down", "hung"}, Fail(how) PROVE CallsInv'
    BY <1>1, <1>2, <1>9 DEF Fail
  <1>10. ASSUME NEW s \in Sockets, SocketStep(s) PROVE CallsInv'
    <2>1. CASE OnConnect(s)
      BY <1>1, <1>2, <2>1 DEF OnConnect
    <2> QED
      BY <1>10, <2>1, OnCloseCalls DEF SocketStep
  <1> QED
    BY <1>4, <1>5, <1>6, <1>7, <1>8, <1>9, <1>10, JobStepInv DEF DaemonNext

\* Whatever becomes of the sockets, the timers and the daemon, a call returns a
\* permission only if the daemon granted it for that call, and leaves a record.
THEOREM DecisionsAccountedHolds == DaemonSpec => []DecisionsAccounted
  <1>1. DaemonInit => CallsInv
    <2> SUFFICES ASSUME DaemonInit PROVE CallsInv
      OBVIOUS
    <2>1. "" \in Results
      BY DEF Results
    <2>2. NewJob \in Calls
      BY <2>1, CallType DEF NewJob
    <2>3. CallsTypeOK
      BY <2>1, <2>2 DEF DaemonInit, CallsTypeOK
    <2>4. ASSUME NEW j \in Jobs PROVE CallInv(j)
      <3> DEFINE c == job[j]
      <3>1. c = NewJob
        BY DEF DaemonInit
      <3> HIDE DEF c
      <3>2. c.phase = "idle" /\ c.wire = ""
        BY <3>1, CallFields DEF NewJob
      <3> QED
        BY <3>2 DEF CallInv, c
    <2> QED
      BY <2>3, <2>4 DEF CallsInv
  <1>2. CallsInv /\ [DaemonNext]_daemonVars => CallsInv'
    <2>1. CallsInv /\ UNCHANGED daemonVars => CallsInv'
      BY DEF CallsInv, CallsTypeOK, Calls, CallInv, daemonVars, requestVars, socketVars
    <2> QED
      BY <2>1, DaemonNextInv, DaemonAssumption
  <1>3. CallsInv => DecisionsAccounted
    BY DEF CallsInv, CallInv, DecisionsAccounted, Granted, Done
  <1> QED
    BY <1>1, <1>2, <1>3, PTL DEF DaemonSpec

----------------------------------------------------------------------------
(* The SIEM client, for any errors and batch size: an event is queued or   *)
(* in one post, and in neither before it has come up.                      *)

\* The records of the posts that are under way.
Posts == [events : Seq(Errors), attempt : Nat, asleep : BOOLEAN,
          caller : Errors \cup {NoCaller, Disconnecting}, immediate : BOOLEAN]

\* The type of what the proof reads.
SiemTypeOK ==
  /\ queue \in Seq(Errors)
  /\ posts \subseteq Posts
  /\ phase \in [Errors -> {"new", "reporting", "checking", "handled"}]
  /\ report \in [Errors -> {"", "accepted", "failed"}]

\* An error whose handler waits for a post is in it, and a post that is sent at
\* once holds that error alone.
PostOK(p) ==
  /\ p.caller \in Errors => p.caller \in ToSet(p.events)
  /\ p.immediate => ToSet(p.events) = {p.caller}

\* An error that has not come up is nowhere.
NewNowhere ==
  \A e \in Errors : phase[e] = "new" => e \notin ToSet(queue) \cup Travelling

\* The invariant.
SiemInv ==
  /\ SiemTypeOK
  /\ \A p \in posts : PostOK(p)
  /\ NewNowhere
  /\ EventsAccounted

\* The events of queues: of none, of one, and of one more.
LEMMA ToSetEmpty == ToSet(<<>>) = {}
  BY DEF ToSet

LEMMA ToSetSingle ==
  ASSUME NEW e
  PROVE  ToSet(<<e>>) = {e}
  <1>1. DOMAIN <<e>> = {1} /\ <<e>>[1] = e
    OBVIOUS
  <1> QED
    BY <1>1, Zenon DEF ToSet

LEMMA ToSetAppend ==
  ASSUME NEW S, NEW s \in Seq(S), NEW e \in S, NEW t, t = Append(s, e)
  PROVE  t \in Seq(S) /\ ToSet(t) = ToSet(s) \cup {e} /\ t # <<>>
  <1>1. /\ t \in Seq(S)
        /\ Len(s) \in Nat
        /\ DOMAIN s = 1 .. Len(s)
        /\ DOMAIN t = 1 .. Len(s) + 1
        /\ \A n \in DOMAIN s : t[n] = s[n]
        /\ t[Len(s) + 1] = e
    OBVIOUS
  <1> DEFINE k == Len(s) + 1
  <1>2. /\ DOMAIN t = DOMAIN s \cup {k}
        /\ \A n \in DOMAIN s : t[n] = s[n]
        /\ t[k] = e
    BY <1>1
  <1> HIDE DEF k
  <1>3. ToSet(t) = ToSet(s) \cup {e}
    BY <1>2 DEF ToSet
  <1>4. t # <<>>
    OBVIOUS
  <1> QED
    BY <1>1, <1>3, <1>4

\* An event is under way in some post.
LEMMA TravellingIs ==
  \A e : e \in Travelling <=> \E p \in posts : e \in ToSet(p.events)
  BY DEF Travelling

\* The fields of a new post.
LEMMA NewPostIs ==
  ASSUME NEW events \in Seq(Errors), NEW caller \in Errors \cup {NoCaller, Disconnecting},
         NEW immediate \in BOOLEAN, NEW p, p = NewPost(events, caller, immediate)
  PROVE  /\ p \in Posts
         /\ p.events = events
         /\ p.caller = caller
         /\ p.immediate = immediate
  <1>1. ASSUME NEW a, NEW b, a = 0, b = FALSE
        PROVE  /\ [events |-> events, attempt |-> a, asleep |-> b, caller |-> caller,
                   immediate |-> immediate] \in Posts
    BY <1>1 DEF Posts
  <1>2. p \in Posts
    BY <1>1, Zenon DEF NewPost
  <1> QED
    BY <1>2 DEF NewPost

\* A post is added: its events are in no other post, and not in the queue.
LEMMA PostAdded ==
  ASSUME SiemInv, NEW p \in Posts, PostOK(p), posts' = posts \cup {p},
         ToSet(p.events) \cap Travelling = {}
  PROVE  /\ posts' \subseteq Posts
         /\ \A q \in posts' : PostOK(q)
         /\ Travelling' = Travelling \cup ToSet(p.events)
         /\ \A q, r \in posts' : q # r => ToSet(q.events) \cap ToSet(r.events) = {}
  <1>1. posts' \subseteq Posts /\ \A q \in posts' : PostOK(q)
    BY DEF SiemInv, SiemTypeOK
  <1>2. Travelling' = Travelling \cup ToSet(p.events)
    BY DEF Travelling
  <1>3. \A q \in posts : ToSet(p.events) \cap ToSet(q.events) = {}
    BY DEF Travelling
  <1>4. \A q, r \in posts' : q # r => ToSet(q.events) \cap ToSet(r.events) = {}
    BY <1>3, Zenon DEF SiemInv, EventsAccounted
  <1> QED
    BY <1>1, <1>2, <1>4

\* A post is replaced by one of the same events and the same caller.
LEMMA PostReplaced ==
  ASSUME SiemInv, NEW p \in posts, NEW q \in Posts, posts' = (posts \ {p}) \cup {q},
         q.events = p.events, q.caller = p.caller, q.immediate = p.immediate
  PROVE  /\ posts' \subseteq Posts
         /\ \A r \in posts' : PostOK(r)
         /\ Travelling' = Travelling
         /\ \A r, t \in posts' : r # t => ToSet(r.events) \cap ToSet(t.events) = {}
  <1>1. posts' \subseteq Posts /\ \A r \in posts' : PostOK(r)
    BY DEF SiemInv, SiemTypeOK, PostOK
  <1>2. Travelling' = Travelling
    BY DEF Travelling
  <1>3. \A r \in posts \ {p} : ToSet(q.events) \cap ToSet(r.events) = {}
    BY DEF SiemInv, EventsAccounted
  <1>4. \A r, t \in posts' : r # t => ToSet(r.events) \cap ToSet(t.events) = {}
    BY <1>3, Zenon DEF SiemInv, EventsAccounted
  <1> QED
    BY <1>1, <1>2, <1>4

\* A post ends.
LEMMA PostEnded ==
  ASSUME SiemInv, NEW p \in posts, posts' = posts \ {p}
  PROVE  /\ posts' \subseteq Posts
         /\ \A r \in posts' : PostOK(r)
         /\ Travelling' \subseteq Travelling
         /\ Travelling \subseteq Travelling' \cup ToSet(p.events)
         /\ \A r, t \in posts' : r # t => ToSet(r.events) \cap ToSet(t.events) = {}
  <1>1. posts' \subseteq Posts /\ \A r \in posts' : PostOK(r)
    BY DEF SiemInv, SiemTypeOK
  <1>2. /\ Travelling' \subseteq Travelling
        /\ Travelling \subseteq Travelling' \cup ToSet(p.events)
    BY DEF Travelling
  <1>3. \A r, t \in posts' : r # t => ToSet(r.events) \cap ToSet(t.events) = {}
    BY Zenon DEF SiemInv, EventsAccounted
  <1> QED
    BY <1>1, <1>2, <1>3

\* The queue is flushed, with one new event perhaps that is the caller's own.
LEMMA FlushInv ==
  ASSUME SiemInv, SiemAssumption,
         NEW events \in Seq(Errors), NEW caller \in Errors \cup {NoCaller, Disconnecting},
         Flush(events, caller),
         caller \in Errors => /\ ToSet(events) = ToSet(queue) \cup {caller}
                              /\ phase[caller] = "new"
                              /\ phase' = [phase EXCEPT ![caller] = "reporting"],
         caller \notin Errors => ToSet(events) = ToSet(queue) /\ UNCHANGED phase,
         UNCHANGED <<report, stored, dropped>>
  PROVE  SiemInv'
  <1> DEFINE p == NewPost(events, caller, FALSE)
  <1>1. /\ p \in Posts
        /\ p.events = events
        /\ p.caller = caller
        /\ p.immediate = FALSE
    <2>1. FALSE \in BOOLEAN
      OBVIOUS
    <2> QED
      BY <2>1, NewPostIs, ZenonT(30)
  <1>2. /\ flushTimer' = FALSE
        /\ queue' = <<>>
        /\ posts' = posts \cup {p}
    BY DEF Flush
  <1> HIDE DEF p
  <1>3. PostOK(p)
    BY <1>1 DEF PostOK
  <1>4. ToSet(events) \cap Travelling = {}
    BY Zenon DEF SiemInv, EventsAccounted, NewNowhere
  <1>5. /\ posts' \subseteq Posts
        /\ \A q \in posts' : PostOK(q)
        /\ Travelling' = Travelling \cup ToSet(events)
        /\ \A q, r \in posts' : q # r => ToSet(q.events) \cap ToSet(r.events) = {}
    BY <1>1, <1>2, <1>3, <1>4, PostAdded
  <1>6. SiemTypeOK'
    <2>1. phase \in [Errors -> {"new", "reporting", "checking", "handled"}]
      BY DEF SiemInv, SiemTypeOK
    <2>2. phase' \in [Errors -> {"new", "reporting", "checking", "handled"}]
      <3>1. CASE caller \in Errors
        BY <2>1, <3>1
      <3>2. CASE caller \notin Errors
        BY <2>1, <3>2
      <3> QED
        BY <3>1, <3>2
    <2>3. queue' \in Seq(Errors)
      BY <1>2
    <2> QED
      BY <1>5, <2>2, <2>3 DEF SiemInv, SiemTypeOK
  <1>7. \A e \in Errors : phase'[e] = "new" => phase[e] = "new" /\ e # caller
    BY DEF SiemInv, SiemTypeOK
  <1>8. NewNowhere'
    <2>1. ASSUME NEW e \in Errors, phase'[e] = "new" PROVE e \notin ToSet(queue)' \cup Travelling'
      <3>1. e \notin ToSet(queue) \cup Travelling /\ e # caller
        BY <1>7, <2>1 DEF SiemInv, NewNowhere
      <3>2. e \notin ToSet(events)
        BY <3>1
      <3> QED
        BY <1>2, <1>5, <3>1, <3>2, ToSetEmpty
    <2> QED
      BY <2>1 DEF NewNowhere
  <1>9. EventsAccounted'
    <2>1. ASSUME NEW e \in Errors, report'[e] = "accepted"
          PROVE  e \in Travelling' \cup stored' \cup dropped'
      <3>1. e \in ToSet(queue) \cup Travelling \cup stored \cup dropped
        BY <2>1 DEF SiemInv, EventsAccounted
      <3>2. ToSet(queue) \subseteq ToSet(events)
        OBVIOUS
      <3> QED
        BY <1>5, <3>1, <3>2
    <2>2. queue' = <<>> /\ ToSet(queue') = {}
      BY <1>2, ToSetEmpty
    <2> QED
      BY <1>5, <2>1, <2>2, Zenon DEF EventsAccounted
  <1> QED
    BY <1>5, <1>6, <1>8, <1>9 DEF SiemInv

\* An event that is queued, flushed with the queue, or sent at once.
LEMMA SendEventInv ==
  ASSUME SiemInv, SiemAssumption, NEW e \in Errors, SendEvent(e)
  PROVE  SiemInv'
  <1>1. /\ phase[e] = "new"
        /\ e \notin ToSet(queue) \cup Travelling
        /\ queue \in Seq(Errors)
        /\ UNCHANGED <<stored, dropped>>
    BY DEF SendEvent, SiemInv, NewNowhere, SiemTypeOK
  <1> DEFINE longer == Append(queue, e)
  <1>2. longer \in Seq(Errors) /\ ToSet(longer) = ToSet(queue) \cup {e} /\ longer # <<>>
    BY <1>1, ToSetAppend
  <1>3. CASE Reported(e, "failed") /\ UNCHANGED <<queue, flushTimer, posts>>
    <2>1. /\ phase' = [phase EXCEPT ![e] = AfterReport(e)]
          /\ report' = [report EXCEPT ![e] = "failed"]
          /\ AfterReport(e) \in {"checking", "handled"}
      BY <1>3 DEF Reported, AfterReport
    <2>2. SiemTypeOK'
      BY <1>3, <2>1 DEF SiemInv, SiemTypeOK
    <2>3. /\ \A x \in Errors : phase'[x] = "new" => phase[x] = "new"
          /\ \A x \in Errors : report'[x] = "accepted" => report[x] = "accepted"
      BY <2>1 DEF SiemInv, SiemTypeOK
    <2>4. Travelling' = Travelling
      BY <1>3 DEF Travelling
    <2>5. NewNowhere' /\ \A p \in posts' : PostOK(p)
      BY <1>3, <2>3, <2>4 DEF SiemInv, NewNowhere
    <2>6. EventsAccounted'
      BY <1>1, <1>3, <2>3, <2>4 DEF SiemInv, EventsAccounted
    <2> QED
      BY <2>2, <2>5, <2>6 DEF SiemInv
  <1>4. CASE /\ phase' = [phase EXCEPT ![e] = "reporting"]
             /\ posts' = posts \cup {NewPost(<<e>>, e, TRUE)}
             /\ UNCHANGED <<queue, flushTimer, report>>
    <2> DEFINE p == NewPost(<<e>>, e, TRUE)
    <2>1. /\ p \in Posts
          /\ p.events = <<e>>
          /\ p.caller = e
          /\ p.immediate = TRUE
      <3>1. <<e>> \in Seq(Errors)
        OBVIOUS
      <3> QED
        BY <3>1, NewPostIs
    <2>2. posts' = posts \cup {p}
      BY <1>4
    <2> HIDE DEF p
    <2>3. ToSet(p.events) = {e} /\ PostOK(p)
      BY <2>1, ToSetSingle DEF PostOK
    <2>4. /\ posts' \subseteq Posts
          /\ \A q \in posts' : PostOK(q)
          /\ Travelling' = Travelling \cup {e}
          /\ \A q, r \in posts' : q # r => ToSet(q.events) \cap ToSet(r.events) = {}
      <3>1. ToSet(p.events) \cap Travelling = {}
        BY <1>1, <2>3
      <3> QED
        BY <2>1, <2>2, <2>3, <3>1, PostAdded, Zenon
    <2>5. SiemTypeOK'
      BY <1>4, <2>4 DEF SiemInv, SiemTypeOK
    <2>6. \A x \in Errors : phase'[x] = "new" => phase[x] = "new" /\ x # e
      BY <1>4 DEF SiemInv, SiemTypeOK
    <2>7. NewNowhere'
      BY <1>4, <2>4, <2>6 DEF SiemInv, NewNowhere
    <2>8. EventsAccounted'
      <3>1. \A x \in Errors : report'[x] = "accepted"
              => x \in ToSet(queue') \cup Travelling' \cup stored' \cup dropped'
        BY <1>1, <1>4, <2>4 DEF SiemInv, EventsAccounted
      <3>2. /\ queue' # <<>> => flushTimer'
            /\ ToSet(queue') \cap Travelling' = {}
        BY <1>1, <1>4, <2>4 DEF SiemInv, EventsAccounted
      <3> QED
        BY <2>4, <3>1, <3>2, Zenon DEF EventsAccounted
    <2> QED
      BY <2>4, <2>5, <2>7, <2>8 DEF SiemInv
  <1>5. CASE /\ phase' = [phase EXCEPT ![e] = "reporting"]
             /\ Flush(longer, e)
             /\ UNCHANGED report
    <2> HIDE DEF longer
    <2> QED
      BY <1>1, <1>2, <1>5, FlushInv
  <1>6. CASE /\ queue' = longer
             /\ flushTimer' = TRUE
             /\ Reported(e, "accepted")
             /\ UNCHANGED posts
    <2> HIDE DEF longer
    <2>1. /\ phase' = [phase EXCEPT ![e] = AfterReport(e)]
          /\ report' = [report EXCEPT ![e] = "accepted"]
          /\ AfterReport(e) \in {"checking", "handled"}
      BY <1>6 DEF Reported, AfterReport
    <2>2. SiemTypeOK'
      BY <1>2, <1>6, <2>1 DEF SiemInv, SiemTypeOK
    <2>3. /\ \A x \in Errors : phase'[x] = "new" => phase[x] = "new" /\ x # e
          /\ \A x \in Errors : report'[x] = "accepted" => report[x] = "accepted" \/ x = e
      BY <2>1 DEF SiemInv, SiemTypeOK
    <2>4. Travelling' = Travelling
      BY <1>6 DEF Travelling
    <2>5. ToSet(queue') = ToSet(queue) \cup {e}
      BY <1>2, <1>6
    <2>6. NewNowhere' /\ \A p \in posts' : PostOK(p)
      BY <1>6, <2>3, <2>4, <2>5 DEF SiemInv, NewNowhere
    <2>7. EventsAccounted'
      BY <1>1, <1>6, <2>3, <2>4, <2>5 DEF SiemInv, EventsAccounted
    <2> QED
      BY <2>2, <2>6, <2>7 DEF SiemInv
  <1> QED
    BY <1>3, <1>4, <1>5, <1>6 DEF SendEvent

\* What the end of a post does to the error that waits for it.
LEMMA SettleInv ==
  ASSUME SiemInv, SiemAssumption, NEW p \in posts, NEW ok \in BOOLEAN, Settle(p, ok),
         stored \subseteq stored', ok => ToSet(p.events) \subseteq stored',
         UNCHANGED <<queue, flushTimer>>
  PROVE  SiemInv'
  <1>1. /\ posts' = posts \ {p}
        /\ dropped' = IF ok \/ p.immediate THEN dropped ELSE dropped \cup ToSet(p.events)
        /\ p \in Posts /\ PostOK(p)
    BY DEF Settle, SiemInv, SiemTypeOK
  <1>2. /\ p.caller \in Errors \cup {NoCaller, Disconnecting}
        /\ p.immediate \in BOOLEAN
        /\ p.events \in Seq(Errors)
    BY <1>1 DEF Posts
  <1>3. /\ posts' \subseteq Posts
        /\ \A r \in posts' : PostOK(r)
        /\ Travelling' \subseteq Travelling
        /\ Travelling \subseteq Travelling' \cup ToSet(p.events)
        /\ \A r, t \in posts' : r # t => ToSet(r.events) \cap ToSet(t.events) = {}
    BY <1>1, PostEnded
  <1>4. p.caller \in Errors =>
          /\ phase' = [phase EXCEPT ![p.caller] = AfterReport(p.caller)]
          /\ report' = [report EXCEPT ![p.caller] = IF ok \/ ~p.immediate THEN "accepted"
                                                                         ELSE "failed"]
    BY DEF Settle, Reported, SiemAssumption, Errors
  <1>5. p.caller \notin Errors => UNCHANGED <<phase, report>>
    BY DEF Settle
  <1>6. \A e : AfterReport(e) \in {"checking", "handled"}
    BY DEF AfterReport
  <1>7. /\ phase' \in [Errors -> {"new", "reporting", "checking", "handled"}]
        /\ \A x \in Errors : phase'[x] = "new" => phase[x] = "new"
    <2>1. phase \in [Errors -> {"new", "reporting", "checking", "handled"}]
      BY DEF SiemInv, SiemTypeOK
    <2>2. CASE p.caller \in Errors
      <3>1. /\ phase' = [phase EXCEPT ![p.caller] = AfterReport(p.caller)]
            /\ AfterReport(p.caller) \in {"checking", "handled"}
        BY <1>4, <1>6, <2>2
      <3> QED
        BY <2>1, <2>2, <3>1
    <2>3. CASE p.caller \notin Errors
      BY <1>5, <2>1, <2>3
    <2> QED
      BY <2>2, <2>3
  <1>8. /\ report' \in [Errors -> {"", "accepted", "failed"}]
        /\ \A x \in Errors : x # p.caller => report'[x] = report[x]
        /\ p.caller \in Errors => report'[p.caller] = IF ok \/ ~p.immediate THEN "accepted"
                                                                            ELSE "failed"
    BY <1>4, <1>5 DEF SiemInv, SiemTypeOK
  <1>9. SiemTypeOK'
    BY <1>3, <1>7, <1>8 DEF SiemInv, SiemTypeOK
  <1>10. NewNowhere'
    BY <1>3, <1>7 DEF SiemInv, NewNowhere
  <1>11. ASSUME NEW e \in Errors, report'[e] = "accepted"
         PROVE  e \in ToSet(queue) \cup Travelling' \cup stored' \cup dropped'
    <2>1. CASE ok \/ ~p.immediate
      <3>1. ToSet(p.events) \subseteq stored' \cup dropped' /\ dropped \subseteq dropped'
        BY <1>1, <2>1
      <3>2. CASE e = p.caller
        BY <1>1, <3>1, <3>2 DEF PostOK
      <3>3. CASE e # p.caller
        <4>1. e \in ToSet(queue) \cup Travelling \cup stored \cup dropped
          BY <1>8, <1>11, <3>3 DEF SiemInv, EventsAccounted
        <4> QED
          BY <1>3, <3>1, <4>1
      <3> QED
        BY <3>2, <3>3
    <2>2. CASE ~ok /\ p.immediate
      <3>1. ToSet(p.events) = {p.caller} /\ dropped' = dropped
        BY <1>1, <2>2 DEF PostOK
      <3>2. e # p.caller
        BY <1>8, <1>11, <2>2
      <3>3. e \in ToSet(queue) \cup Travelling \cup stored \cup dropped
        BY <1>8, <1>11, <3>2 DEF SiemInv, EventsAccounted
      <3> QED
        BY <1>3, <3>1, <3>2, <3>3
    <2> QED
      BY <1>2, <2>1, <2>2
  <1>12. EventsAccounted'
    <2>1. queue' = queue /\ ToSet(queue') \cap Travelling' = {} /\ (queue' # <<>> => flushTimer')
      BY <1>3 DEF SiemInv, EventsAccounted
    <2> QED
      BY <1>3, <1>11, <2>1, Zenon DEF EventsAccounted
  <1> QED
    BY <1>3, <1>9, <1>10, <1>12 DEF SiemInv

\* Every step of a post.
LEMMA PostStepInv ==
  ASSUME SiemInv, SiemAssumption, NEW p \in posts, PostStep(p)
  PROVE  SiemInv'
  <1>1. p \in Posts
    BY DEF SiemInv, SiemTypeOK
  <1>2. ASSUME NEW q \in Posts, posts' = (posts \ {p}) \cup {q},
               q.events = p.events, q.caller = p.caller, q.immediate = p.immediate,
               stored \subseteq stored',
               UNCHANGED <<queue, flushTimer, dropped, phase, report>>
        PROVE  SiemInv'
    <2>1. /\ posts' \subseteq Posts
          /\ \A r \in posts' : PostOK(r)
          /\ Travelling' = Travelling
          /\ \A r, t \in posts' : r # t => ToSet(r.events) \cap ToSet(t.events) = {}
      BY <1>2, PostReplaced
    <2>2. SiemTypeOK' /\ NewNowhere'
      BY <1>2, <2>1 DEF SiemInv, SiemTypeOK, NewNowhere
    <2>3. EventsAccounted'
      <3>1. \A x \in Errors : report'[x] = "accepted"
              => x \in ToSet(queue') \cup Travelling' \cup stored' \cup dropped'
        BY <1>2, <2>1 DEF SiemInv, EventsAccounted
      <3>2. /\ queue' # <<>> => flushTimer'
            /\ ToSet(queue') \cap Travelling' = {}
        BY <1>2, <2>1 DEF SiemInv, EventsAccounted
      <3> QED
        BY <2>1, <3>1, <3>2, Zenon DEF EventsAccounted
    <2> QED
      BY <2>1, <2>2, <2>3 DEF SiemInv
  <1>3. CASE PostSucceeds(p)
    BY <1>3, SettleInv DEF PostSucceeds
  <1>4. CASE PostFails(p)
    <2>1. /\ stored \subseteq stored' /\ UNCHANGED <<queue, flushTimer>>
      BY <1>4 DEF PostFails
    <2>2. CASE Settle(p, FALSE)
      BY <2>1, <2>2, SettleInv
    <2>3. CASE /\ posts' = (posts \ {p}) \cup {Again(p)}
               /\ UNCHANGED <<siemConnected, dropped, phase, report>>
      <3>1. /\ Again(p) \in Posts
            /\ Again(p).events = p.events
            /\ Again(p).caller = p.caller
            /\ Again(p).immediate = p.immediate
        <4> DEFINE once == [p EXCEPT !.attempt = p.attempt + 1]
                   then == [once EXCEPT !.asleep = TRUE]
        <4>1. /\ once \in Posts
              /\ once.events = p.events
              /\ once.caller = p.caller
              /\ once.immediate = p.immediate
          BY <1>1 DEF Posts
        <4>2. Again(p) = then
          BY Zenon DEF Again
        <4> HIDE DEF once
        <4>3. /\ then \in Posts
              /\ then.events = p.events
              /\ then.caller = p.caller
              /\ then.immediate = p.immediate
          BY <4>1 DEF Posts
        <4> HIDE DEF then
        <4> QED
          BY <4>2, <4>3, Zenon
      <3> QED
        BY <1>2, <2>1, <2>3, <3>1
    <2> QED
      BY <1>4, <2>2, <2>3 DEF PostFails
  <1>5. CASE Wake(p)
    <2> DEFINE q == [p EXCEPT !.asleep = FALSE]
    <2>1. /\ q \in Posts
          /\ q.events = p.events
          /\ q.caller = p.caller
          /\ q.immediate = p.immediate
      BY <1>1 DEF Posts
    <2>2. posts' = (posts \ {p}) \cup {q}
      BY <1>5 DEF Wake
    <2>3. UNCHANGED <<queue, flushTimer, stored, dropped, phase, report>>
      BY <1>5 DEF Wake
    <2> HIDE DEF q
    <2> QED
      BY <1>2, <2>1, <2>2, <2>3
  <1> QED
    BY <1>3, <1>4, <1>5 DEF PostStep

\* Every step of the client.
LEMMA SiemNextInv ==
  ASSUME SiemInv, SiemAssumption, SiemNext
  PROVE  SiemInv'
  <1>1. ASSUME UNCHANGED <<queue, flushTimer, posts, stored, dropped, report>>,
               phase' \in [Errors -> {"new", "reporting", "checking", "handled"}],
               \A e \in Errors : phase'[e] = "new" => phase[e] = "new"
        PROVE  SiemInv'
    <2>1. Travelling' = Travelling
      BY <1>1 DEF Travelling
    <2>2. SiemTypeOK' /\ NewNowhere'
      BY <1>1, <2>1 DEF SiemInv, SiemTypeOK, NewNowhere
    <2>3. EventsAccounted' /\ \A p \in posts' : PostOK(p)
      BY <1>1, <2>1 DEF SiemInv, EventsAccounted
    <2> QED
      BY <2>2, <2>3 DEF SiemInv
  <1>2. /\ phase \in [Errors -> {"new", "reporting", "checking", "handled"}]
        /\ queue \in Seq(Errors)
    BY DEF SiemInv, SiemTypeOK
  <1>3. NoCaller \notin Errors /\ Disconnecting \notin Errors
    BY DEF SiemAssumption, Errors
  <1>4. CASE SiemConnect
    BY <1>1, <1>2, <1>4 DEF SiemConnect
  <1>5. CASE SiemDisconnect
    <2>1. CASE UNCHANGED <<queue, flushTimer, posts>>
      BY <1>1, <1>2, <1>5, <2>1 DEF SiemDisconnect
    <2>2. CASE Flush(queue, Disconnecting)
      <3>1. UNCHANGED <<report, stored, dropped, phase>>
        BY <1>5 DEF SiemDisconnect
      <3>2. Disconnecting \in Errors \cup {NoCaller, Disconnecting}
        OBVIOUS
      <3> QED
        BY <1>2, <1>3, <2>2, <3>1, <3>2, FlushInv
    <2> QED
      BY <1>5, <2>1, <2>2 DEF SiemDisconnect
  <1>6. CASE OnFlushTimer
    <2>1. Flush(queue, NoCaller) /\ UNCHANGED <<report, stored, dropped, phase>>
      BY <1>6 DEF OnFlushTimer
    <2>2. NoCaller \in Errors \cup {NoCaller, Disconnecting}
      OBVIOUS
    <2> QED
      BY <1>2, <1>3, <2>1, <2>2, FlushInv
  <1>7. ASSUME NEW e \in Errors, ErrorStep(e) PROVE SiemInv'
    <2>1. CASE HandleUnreported(e)
      <3>1. phase' = [phase EXCEPT ![e] = AfterReport(e)]
            /\ AfterReport(e) \in {"checking", "handled"}
        BY <2>1 DEF HandleUnreported, AfterReport
      <3>2. /\ phase' \in [Errors -> {"new", "reporting", "checking", "handled"}]
            /\ \A x \in Errors : phase'[x] = "new" => phase[x] = "new"
        BY <1>2, <3>1
      <3> QED
        BY <1>1, <2>1, <3>2 DEF HandleUnreported
    <2>2. CASE DaemonAnswers(e)
      <3>1. phase' = [phase EXCEPT ![e] = "handled"]
        BY <2>2 DEF DaemonAnswers
      <3>2. /\ phase' \in [Errors -> {"new", "reporting", "checking", "handled"}]
            /\ \A x \in Errors : phase'[x] = "new" => phase[x] = "new"
        BY <1>2, <3>1
      <3> QED
        BY <1>1, <2>2, <3>2 DEF DaemonAnswers
    <2> QED
      BY <1>7, <2>1, <2>2, SendEventInv DEF ErrorStep
  <1> QED
    BY <1>4, <1>5, <1>6, <1>7, PostStepInv DEF SiemNext

\* Whatever the SIEM answers, and whenever a client connects and disconnects, an
\* event that was accepted is queued with the timer armed, under way in exactly
\* one post, stored, or in a batch whose failure was reported.
THEOREM EventsAccountedHolds == SiemSpec => []EventsAccounted
  <1>1. SiemInit => SiemInv
    <2> SUFFICES ASSUME SiemInit PROVE SiemInv
      OBVIOUS
    <2>1. queue = <<>> /\ posts = {} /\ \A e \in Errors : report[e] = ""
      BY DEF SiemInit
    <2>2. Travelling = {} /\ ToSet(queue) = {}
      BY <2>1, ToSetEmpty DEF Travelling
    <2>3. SiemTypeOK
      <3>1. <<>> \in Seq(Errors)
        OBVIOUS
      <3>2. /\ phase \in [Errors -> {"new", "reporting", "checking", "handled"}]
            /\ report \in [Errors -> {"", "accepted", "failed"}]
        BY DEF SiemInit
      <3> QED
        BY <2>1, <3>1, <3>2 DEF SiemTypeOK
    <2>4. NewNowhere /\ EventsAccounted
      BY <2>1, <2>2 DEF NewNowhere, EventsAccounted
    <2> QED
      BY <2>1, <2>3, <2>4 DEF SiemInv
  <1>2. SiemInv /\ [SiemNext]_siemVars => SiemInv'
    <2>1. ASSUME SiemInv, UNCHANGED siemVars PROVE SiemInv'
      BY <2>1 DEF SiemInv, SiemTypeOK, PostOK, NewNowhere, EventsAccounted, Travelling, siemVars
    <2> QED
      BY <2>1, SiemNextInv, SiemAssumption
  <1>3. SiemInv => EventsAccounted
    BY DEF SiemInv
  <1> QED
    BY <1>1, <1>2, <1>3, PTL DEF SiemSpec

----------------------------------------------------------------------------
(* The security manager, for any calls of initialize and shutdown: as long *)
(* as they do not overlap, where the one under way stands.                 *)

\* What has become of the clients that were made.
Clients == [Kinds -> [Inits -> {"none", "connecting", "connected", "failed", "closed",
                                "revived"}]]

\* The type of the state.
ManagerTypeOK ==
  /\ config \in Configs
  /\ current \in [Kinds -> Inits \cup {None}]
  /\ handler \in [Kinds -> Inits \cup {None}]
  /\ initialized \in BOOLEAN
  /\ client \in Clients
  /\ pc \in [Inits \cup Shutdowns -> {"idle", "siem", "daemon", "done", "thrown"}]
  /\ overlapped \in BOOLEAN

\* A call that has not begun made no client, and a disabled kind has none.
NotYet ==
  /\ \A i \in Inits, k \in Kinds : pc[i] = "idle" => client[k][i] = "none" /\ current[k] # i
  /\ \A k \in Kinds \ config.enabled : current[k] = None

\* The client of a kind is there no longer, or left by a call that threw.
Given(k) == current[k] = None \/ pc[current[k]] = "thrown"

\* Where the only call that is under way stands.
InitWaits(i) ==
  /\ ~initialized
  /\ pc[i] \in config.enabled
  /\ current[pc[i]] = i
  /\ client[pc[i]][i] = "connecting"
  /\ pc[i] = "siem" => Given("daemon")
  /\ pc[i] = "daemon" /\ "siem" \in config.enabled =>
       /\ current["siem"] = i
       /\ config.production => client["siem"][i] = "connected"

\* Where the only call of shutdown that is under way stands.
ShutdownWaits(s) ==
  /\ current[pc[s]] # None
  /\ client[pc[s]][current[pc[s]]] \in {"closed", "revived"}
  /\ pc[s] = "daemon" => current["siem"] = None

\* What an initialised manager has, and what one that is not has not.
Settled ==
  /\ initialized =>
       /\ handler = current
       /\ \A k \in config.enabled : current[k] # None
       /\ config.production => \A k \in config.enabled : client[k][current[k]] = "connected"
  /\ ~initialized => \A k \in Kinds : Given(k)

\* A client that may be at work is the current one, or was left by a call that
\* threw.
NoStrays ==
  \A k \in Kinds, i \in Inits : client[k][i] \in {"connected", "connecting", "failed"}
    => i = current[k] \/ pc[i] = "thrown"

\* What holds as long as calls do not overlap.
OneByOne ==
  /\ \A c, d \in Inits \cup Shutdowns : pc[c] \in Pending /\ pc[d] \in Pending => c = d
  /\ \A i \in Inits : pc[i] \in Pending => InitWaits(i)
  /\ \A s \in Shutdowns : pc[s] \in Pending => ShutdownWaits(s)
  /\ ~Busy => Settled
  /\ NoStrays

\* The invariant.
ManagerInv == ManagerTypeOK /\ NotYet /\ (~overlapped => OneByOne)

\* Where a call of initialize stands before its next step, clients being what
\* its last await made of the clients: no other call is under way, and whatever
\* is at work is current, or left by a call that threw.
Alone(i, clients) ==
  /\ \A c \in Inits \cup Shutdowns : c # i => pc[c] \notin Pending
  /\ ~initialized
  /\ \A k \in Kinds, x \in Inits : clients[k][x] \in {"connected", "connecting", "failed"}
       => x = current[k] \/ pc[x] = "thrown"

\* The first half of initialize is behind it.
HasSiem(i, clients) == "siem" \in config.enabled =>
  /\ current["siem"] = i
  /\ config.production => clients["siem"][i] = "connected"

\* The second half begins.
LEMMA CreateInv ==
  ASSUME ManagerTypeOK, NotYet, ManagerAssumption,
         NEW i \in Inits, pc[i] # "thrown", NEW k \in config.enabled, NEW clients \in Clients,
         \A l \in Kinds, x \in Inits : x # i => clients[l][x] = client[l][x],
         Create(k, i, clients), UNCHANGED config, overlapped' \in BOOLEAN,
         ~overlapped' => /\ Alone(i, clients)
                         /\ Given("daemon")
                         /\ k = "siem" => Given("siem")
                         /\ k = "daemon" => HasSiem(i, clients)
  PROVE  ManagerInv'
  <1>1. k \in Kinds /\ k \in Pending
    BY DEF ManagerTypeOK, Configs, Pending, Kinds
  <1>2. /\ current' = [current EXCEPT ![k] = i]
        /\ client' = [clients EXCEPT ![k][i] = "connecting"]
        /\ pc' = [pc EXCEPT ![i] = k]
        /\ UNCHANGED <<handler, initialized, config>>
    BY DEF Create
  <1>3. ManagerTypeOK'
    BY <1>1, <1>2 DEF ManagerTypeOK, Clients, Pending
  <1>4. NotYet'
    BY <1>1, <1>2 DEF ManagerTypeOK, NotYet, Clients, Pending
  <1>5. ASSUME ~overlapped' PROVE OneByOne'
    <2>1. /\ Alone(i, clients)
          /\ Given("daemon")
          /\ k = "siem" => Given("siem")
          /\ k = "daemon" => HasSiem(i, clients)
      BY <1>5
    <2>2. /\ \A c \in Inits \cup Shutdowns : c # i => pc'[c] = pc[c] /\ pc[c] \notin Pending
          /\ pc'[i] = k
      BY <1>2, <2>1 DEF ManagerTypeOK, Alone
    <2>3. \A l \in Kinds, x \in Inits : <<l, x>> # <<k, i>> => client'[l][x] = clients[l][x]
      BY <1>1, <1>2 DEF Clients
    <2>4. client'[k][i] = "connecting"
      <3>1. clients[k] \in [Inits -> {"none", "connecting", "connected", "failed", "closed",
                                      "revived"}]
        BY <1>1 DEF Clients
      <3>2. client'[k] = [clients[k] EXCEPT ![i] = "connecting"]
        BY <1>1, <1>2 DEF Clients
      <3> QED
        BY <3>1, <3>2
    <2>a. /\ current'[k] = i
          /\ \A l \in Kinds : l # k => current'[l] = current[l]
      BY <1>1, <1>2 DEF ManagerTypeOK
    <2>5. InitWaits(i)'
      <3>1. ASSUME k = "siem" PROVE Given("daemon")'
        <4>1. current'["daemon"] = current["daemon"] /\ Given("daemon")
          BY <2>1, <2>a, <3>1 DEF Kinds
        <4>2. CASE current["daemon"] = None
          BY <4>1, <4>2 DEF Given
        <4>3. CASE current["daemon"] # None
          <5>1. current["daemon"] \in Inits /\ pc[current["daemon"]] = "thrown"
            BY <4>1, <4>3 DEF Given, ManagerTypeOK, Kinds
          <5>2. pc'[current["daemon"]] = "thrown"
            BY <1>2, <5>1 DEF ManagerTypeOK
          <5> QED
            BY <4>1, <5>2 DEF Given
        <4> QED
          BY <4>2, <4>3
      <3>2. ASSUME k = "daemon", "siem" \in config.enabled
            PROVE  current'["siem"] = i /\ (config.production => client'["siem"][i] = "connected")
        <4>1. current'["siem"] = current["siem"] /\ client'["siem"][i] = clients["siem"][i]
          BY <2>a, <2>3, <3>2 DEF Kinds
        <4> QED
          BY <4>1, <2>1, <3>2 DEF HasSiem
      <3>3. ~initialized /\ k \in config.enabled
        BY <2>1 DEF Alone
      <3> QED
        BY <1>1, <1>2, <2>2, <2>4, <2>a, <3>1, <3>2, <3>3 DEF InitWaits
    <2>6. NoStrays'
      BY <1>1, <1>2, <2>1, <2>2, <2>3, <2>4, <2>a DEF NoStrays, Given, Alone, ManagerTypeOK,
           ManagerAssumption, HasSiem, Kinds, Pending
    <2>7. Busy'
      BY <1>1, <1>2, <2>2 DEF Busy, ManagerTypeOK
    <2> QED
      BY <2>2, <2>5, <2>6, <2>7, ManagerAssumption DEF OneByOne, ManagerAssumption
  <1> QED
    BY <1>3, <1>4, <1>5 DEF ManagerInv

\* initialize gets to its end.
LEMMA FinishInv ==
  ASSUME ManagerTypeOK, NotYet, ManagerAssumption,
         NEW i \in Inits, pc[i] # "thrown", NEW clients \in Clients,
         \A l \in Kinds, x \in Inits : x # i => clients[l][x] = client[l][x],
         Finish(i, clients), UNCHANGED config, overlapped' \in BOOLEAN,
         ~overlapped' => /\ Alone(i, clients)
                         /\ \A k \in config.enabled :
                               /\ current[k] = i
                               /\ config.production => clients[k][i] = "connected"
  PROVE  ManagerInv'
  <1>1. /\ handler' = current /\ current' = current
        /\ initialized' = TRUE
        /\ pc' = [pc EXCEPT ![i] = "done"]
        /\ client' = clients
        /\ UNCHANGED config
    BY DEF Finish
  <1>2. ManagerTypeOK'
    BY <1>1 DEF ManagerTypeOK
  <1>3. NotYet'
    BY <1>1 DEF ManagerTypeOK, NotYet
  <1>4. ASSUME ~overlapped' PROVE OneByOne'
    <2>1. /\ Alone(i, clients)
          /\ \A k \in config.enabled :
                /\ current[k] = i
                /\ config.production => clients[k][i] = "connected"
      BY <1>4
    <2>2. \A c \in Inits \cup Shutdowns : pc'[c] \notin Pending
      <3>1. /\ pc'[i] = "done"
            /\ \A c \in Inits \cup Shutdowns : c # i => pc'[c] = pc[c]
        BY <1>1 DEF ManagerTypeOK
      <3> QED
        BY <2>1, <3>1 DEF Alone, Pending
    <2>3. NoStrays'
      BY <1>1, <2>1 DEF Alone, NoStrays, ManagerTypeOK
    <2>4. Settled'
      BY <1>1, <2>1, ManagerAssumption DEF Settled, ManagerAssumption
    <2> QED
      BY <2>2, <2>3, <2>4 DEF OneByOne
  <1> QED
    BY <1>2, <1>3, <1>4 DEF ManagerInv

\* initialize throws.
LEMMA ThrowInv ==
  ASSUME ManagerTypeOK, NotYet, ManagerAssumption,
         NEW i \in Inits, pc[i] # "thrown", NEW clients \in Clients,
         \A l \in Kinds, x \in Inits : x # i => clients[l][x] = client[l][x],
         Throw(i, clients), UNCHANGED config, overlapped' \in BOOLEAN,
         ~overlapped' => /\ Alone(i, clients)
                         /\ \A k \in Kinds : Given(k) \/ current[k] = i
  PROVE  ManagerInv'
  <1>1. /\ pc' = [pc EXCEPT ![i] = "thrown"]
        /\ client' = clients
        /\ UNCHANGED <<config, current, handler, initialized>>
    BY DEF Throw
  <1>2. ManagerTypeOK'
    BY <1>1 DEF ManagerTypeOK
  <1>3. NotYet'
    BY <1>1 DEF ManagerTypeOK, NotYet
  <1>4. ASSUME ~overlapped' PROVE OneByOne'
    <2>1. /\ Alone(i, clients)
          /\ \A k \in Kinds : Given(k) \/ current[k] = i
      BY <1>4
    <2>2. \A c \in Inits \cup Shutdowns : pc'[c] \notin Pending
      BY <1>1, <2>1 DEF Alone, ManagerTypeOK, Pending
    <2>3. NoStrays'
      BY <1>1, <2>1 DEF Alone, NoStrays, ManagerTypeOK
    <2>4. \A k \in Kinds : Given(k)'
      BY <1>1, <2>1 DEF Given, ManagerTypeOK
    <2>5. Settled'
      BY <1>1, <2>1, <2>4 DEF Settled, Alone
    <2> QED
      BY <2>2, <2>3, <2>5 DEF OneByOne
  <1> QED
    BY <1>2, <1>3, <1>4 DEF ManagerInv

\* initialize goes on to the daemon.
LEMMA StartDaemonInv ==
  ASSUME ManagerTypeOK, NotYet, ManagerAssumption,
         NEW i \in Inits, pc[i] # "thrown", NEW clients \in Clients,
         \A l \in Kinds, x \in Inits : x # i => clients[l][x] = client[l][x],
         StartDaemon(i, clients), UNCHANGED config, overlapped' \in BOOLEAN,
         ~overlapped' => /\ Alone(i, clients)
                         /\ Given("daemon")
                         /\ HasSiem(i, clients)
  PROVE  ManagerInv'
  <1>1. CASE "daemon" \in config.enabled
    BY <1>1, CreateInv DEF StartDaemon
  <1>2. CASE "daemon" \notin config.enabled
    <2>1. \A k \in config.enabled : k = "siem"
      BY <1>2 DEF ManagerTypeOK, Configs, Kinds
    <2>2. ~overlapped' => \A k \in config.enabled :
                               /\ current[k] = i
                               /\ config.production => clients[k][i] = "connected"
      BY <2>1 DEF HasSiem
    <2> QED
      BY <1>2, <2>2, FinishInv DEF StartDaemon
  <1> QED
    BY <1>1, <1>2

\* initialize is called.
LEMMA InitializeInv ==
  ASSUME ManagerInv, ManagerAssumption, NEW i \in Inits, Initialize(i)
  PROVE  ManagerInv'
  <1> USE DEF ManagerInv
  <1>1. /\ pc[i] = "idle" /\ pc[i] # "thrown" /\ UNCHANGED config
        /\ overlapped' = (overlapped \/ Busy)
    BY DEF Initialize, Started, Busy
  <1>2. CASE /\ initialized
             /\ pc' = [pc EXCEPT ![i] = "done"]
             /\ UNCHANGED <<current, handler, initialized, client>>
    <2>1. ManagerTypeOK'
      BY <1>1, <1>2 DEF ManagerTypeOK
    <2>2. NotYet'
      BY <1>1, <1>2 DEF ManagerTypeOK, NotYet
    <2>3. ASSUME ~overlapped' PROVE OneByOne'
      <3>1. ~Busy /\ ~overlapped
        BY <1>1, <2>3 DEF ManagerTypeOK
      <3>2. Settled /\ NoStrays
        BY <3>1 DEF OneByOne
      <3>3. \A c \in Inits \cup Shutdowns : pc'[c] \notin Pending
        BY <1>2, <3>1 DEF ManagerTypeOK, Busy, Pending
      <3>4. NoStrays'
        BY <1>1, <1>2, <3>2 DEF NoStrays, ManagerTypeOK
      <3>5. Settled'
        BY <1>1, <1>2, <3>2 DEF Settled, ManagerTypeOK
      <3> QED
        BY <3>3, <3>4, <3>5 DEF OneByOne
    <2> QED
      BY <2>1, <2>2, <2>3
  <1>3. CASE /\ ~initialized
             /\ IF "siem" \in config.enabled THEN Create("siem", i, client)
                ELSE StartDaemon(i, client)
    <2>1. ManagerTypeOK /\ NotYet /\ client \in Clients /\ overlapped' \in BOOLEAN
      BY <1>1 DEF ManagerTypeOK, Busy
    <2>2. ASSUME ~overlapped'
          PROVE  Alone(i, client) /\ \A k \in Kinds : Given(k)
      <3>1. ~Busy /\ ~overlapped
        BY <1>1, <2>2 DEF ManagerTypeOK
      <3>2. Settled /\ NoStrays
        BY <3>1 DEF OneByOne
      <3>3. \A c \in Inits \cup Shutdowns : pc[c] \notin Pending
        BY <3>1 DEF ManagerTypeOK, Busy
      <3> QED
        BY <1>3, <3>2, <3>3 DEF Alone, Settled, NoStrays
    <2>3. "siem" \in Kinds /\ "daemon" \in Kinds
      BY DEF Kinds
    <2>4. CASE "siem" \in config.enabled
      <3>1. Create("siem", i, client)
        BY <1>3, <2>4
      <3> QED
        BY <1>1, <2>1, <2>2, <2>3, <2>4, <3>1, CreateInv
    <2>5. CASE "siem" \notin config.enabled
      <3>1. HasSiem(i, client) /\ StartDaemon(i, client)
        BY <1>3, <2>5 DEF HasSiem
      <3> QED
        BY <1>1, <2>1, <2>2, <2>3, <3>1, StartDaemonInv
    <2> QED
      BY <2>4, <2>5
  <1> QED
    BY <1>2, <1>3 DEF Initialize

\* The call of initialize that waits for a client, when no calls overlap.
LEMMA Waits ==
  ASSUME ManagerInv, ManagerAssumption, ~overlapped, NEW i \in Inits, pc[i] \in Pending,
         NEW outcome \in {"connected", "failed"}, NEW clients \in Clients,
         clients = [client EXCEPT ![pc[i]][i] = outcome]
  PROVE  /\ Alone(i, clients)
         /\ InitWaits(i)
         /\ clients[pc[i]][i] = outcome
         /\ \A k \in Kinds, x \in Inits : <<k, x>> # <<pc[i], i>> => clients[k][x] = client[k][x]
  <1>1. OneByOne /\ pc[i] \in Kinds /\ client \in Clients
    BY DEF ManagerInv, Pending, Kinds, ManagerTypeOK
  <1>2. InitWaits(i) /\ \A c \in Inits \cup Shutdowns : c # i => pc[c] \notin Pending
    BY <1>1 DEF OneByOne
  <1>3. /\ clients[pc[i]][i] = outcome
        /\ \A k \in Kinds, x \in Inits : <<k, x>> # <<pc[i], i>> => clients[k][x] = client[k][x]
    BY <1>1 DEF Clients
  <1>4. NoStrays /\ ~initialized /\ current[pc[i]] = i
    BY <1>1, <1>2 DEF OneByOne, InitWaits
  <1>5. Alone(i, clients)
    BY <1>1, <1>2, <1>3, <1>4 DEF Alone, NoStrays
  <1> QED
    BY <1>2, <1>3, <1>5

\* An await of initialize returns.
LEMMA SettlesInv ==
  ASSUME ManagerInv, ManagerAssumption, NEW i \in Inits,
         NEW outcome \in {"connected", "failed"},
         SiemSettles(i, outcome) \/ DaemonSettles(i, outcome)
  PROVE  ManagerInv'
  <1> DEFINE clients == [client EXCEPT ![pc[i]][i] = outcome]
  <1>1. /\ pc[i] \in Pending /\ pc[i] \in Kinds /\ pc[i] # "thrown"
        /\ UNCHANGED <<config, overlapped>>
    BY DEF SiemSettles, DaemonSettles, Pending, Kinds
  <1>2. /\ ManagerTypeOK /\ NotYet /\ overlapped' \in BOOLEAN
    BY <1>1 DEF ManagerInv, ManagerTypeOK
  <1>3. /\ clients \in Clients
        /\ \A l \in Kinds, x \in Inits : x # i => clients[l][x] = client[l][x]
    BY <1>1, <1>2 DEF ManagerTypeOK, Clients
  <1>4. /\ pc[i] = "siem" => IF Fatal(outcome) THEN Throw(i, clients) ELSE StartDaemon(i, clients)
        /\ pc[i] = "daemon" => IF Fatal(outcome) THEN Throw(i, clients) ELSE Finish(i, clients)
    BY DEF SiemSettles, DaemonSettles
  <1> HIDE DEF clients
  <1>5. ASSUME ~overlapped
        PROVE  /\ Alone(i, clients)
               /\ InitWaits(i)
               /\ clients[pc[i]][i] = outcome
               /\ \A k \in Kinds, x \in Inits :
                     <<k, x>> # <<pc[i], i>> => clients[k][x] = client[k][x]
    BY <1>1, <1>3, <1>5, Waits DEF clients
  <1>6. ~Fatal(outcome) => (config.production => outcome = "connected")
    BY DEF Fatal
  <1>7. CASE Fatal(outcome)
    <2>1. Throw(i, clients)
      BY <1>1, <1>4, <1>7 DEF Pending
    <2>2. ASSUME ~overlapped PROVE \A k \in Kinds : Given(k) \/ current[k] = i
      BY <1>1, <1>2, <1>5, <2>2 DEF InitWaits, Kinds, NotYet, Given
    <2> QED
      BY <1>1, <1>2, <1>3, <1>5, <2>1, <2>2, ThrowInv
  <1>8. CASE ~Fatal(outcome) /\ pc[i] = "siem"
    <2>1. StartDaemon(i, clients)
      BY <1>4, <1>8
    <2>2. ASSUME ~overlapped PROVE Given("daemon") /\ HasSiem(i, clients)
      BY <1>5, <1>6, <1>8, <2>2 DEF InitWaits, HasSiem
    <2> QED
      BY <1>1, <1>2, <1>3, <1>5, <2>1, <2>2, StartDaemonInv
  <1>9. CASE ~Fatal(outcome) /\ pc[i] = "daemon"
    <2>1. Finish(i, clients)
      BY <1>4, <1>9
    <2>2. ASSUME ~overlapped, NEW k \in config.enabled
          PROVE  current[k] = i /\ (config.production => clients[k][i] = "connected")
      <3>1. k = "siem" \/ k = "daemon"
        BY <1>2 DEF ManagerTypeOK, Configs, Kinds
      <3>2. CASE k = "daemon"
        BY <1>5, <1>6, <1>9, <2>2, <3>2 DEF InitWaits
      <3>3. CASE k = "siem"
        <4>1. clients["siem"][i] = client["siem"][i]
          BY <1>5, <1>9, <2>2, <3>3 DEF Kinds
        <4> QED
          BY <1>5, <1>9, <2>2, <3>3, <4>1 DEF InitWaits
      <3> QED
        BY <3>1, <3>2, <3>3
    <2> QED
      BY <1>1, <1>2, <1>3, <1>5, <2>1, <2>2, FinishInv
  <1> QED
    BY <1>1, <1>7, <1>8, <1>9 DEF Pending

\* A client that was closed comes back by itself.
LEMMA DaemonReconnectsInv ==
  ASSUME ManagerInv, ManagerAssumption, NEW i \in Inits, DaemonReconnects(i)
  PROVE  ManagerInv'
  <1> USE DEF ManagerInv
  <1>1. /\ UNCHANGED <<config, current, handler, initialized, pc, overlapped>>
        /\ client["daemon"][i] \in {"failed", "closed"}
        /\ client' = [client EXCEPT !["daemon"][i] = IF @ = "failed" THEN "connected"
                                                     ELSE "revived"]
    BY DEF DaemonReconnects
  <1>2. /\ \A k \in Kinds, x \in Inits : <<k, x>> # <<"daemon", i>> => client'[k][x] = client[k][x]
        /\ client'["daemon"][i] = IF client["daemon"][i] = "failed" THEN "connected" ELSE "revived"
        /\ client' \in Clients
    BY <1>1 DEF ManagerTypeOK, Clients, Kinds
  <1>3. ManagerTypeOK' /\ NotYet'
    BY <1>1, <1>2 DEF ManagerTypeOK, NotYet
  <1>4. ASSUME ~overlapped' PROVE OneByOne'
    <2>1. OneByOne
      BY <1>1, <1>4
    <2>2. NoStrays'
      BY <1>1, <1>2, <2>1 DEF OneByOne, NoStrays
    <2>3. ASSUME NEW x \in Inits, pc'[x] \in Pending PROVE InitWaits(x)'
      BY <1>1, <1>2, <2>1, <2>3 DEF OneByOne, InitWaits, Given, Kinds, Pending
    <2>4. ASSUME NEW s \in Shutdowns, pc'[s] \in Pending PROVE ShutdownWaits(s)'
      <3>1. ShutdownWaits(s) /\ pc[s] \in Kinds /\ current[pc[s]] \in Inits
        BY <1>1, <2>1, <2>4 DEF OneByOne, ShutdownWaits, Kinds, Pending, ManagerTypeOK
      <3> QED
        BY <1>1, <1>2, <3>1 DEF ShutdownWaits
    <2>5. ASSUME ~Busy' PROVE Settled'
      <3>1. Settled
        BY <1>1, <2>1, <2>5 DEF OneByOne, Busy
      <3>2. \A k \in config.enabled : k \in Kinds /\ (current[k] # None => current[k] \in Inits)
        BY DEF ManagerTypeOK, Configs
      <3>3. \A k \in Kinds : Given(k)' <=> Given(k)
        BY <1>1 DEF Given
      <3> QED
        BY <1>1, <1>2, <3>1, <3>2, <3>3 DEF Settled
    <2> QED
      BY <1>1, <2>1, <2>2, <2>3, <2>4, <2>5 DEF OneByOne
  <1> QED
    BY <1>3, <1>4

\* The client of kind k is closed, and the call s of shutdown waits for it.
LEMMA CloseInv ==
  ASSUME ManagerInv, ManagerAssumption, NEW s \in Shutdowns, NEW k \in Kinds,
         current[k] # None,
         current' \in [Kinds -> Inits \cup {None}],
         \A l \in Kinds : current'[l] \in {current[l], None},
         current'[k] = current[k],
         client' = [client EXCEPT ![k][current[k]] = "closed"],
         pc' = [pc EXCEPT ![s] = k],
         UNCHANGED <<config, handler, initialized>>, overlapped' \in BOOLEAN,
         ~overlapped' =>
           /\ ~overlapped
           /\ \A c \in Inits \cup Shutdowns : c # s => pc[c] \notin Pending
           /\ \A l \in Kinds : current'[l] = None /\ current[l] # None
                => client[l][current[l]] \in {"closed", "revived"}
           /\ k = "daemon" => current'["siem"] = None
  PROVE  ManagerInv'
  <1>1. k \in Pending /\ s \notin Inits
    BY DEF Kinds, Pending, ManagerAssumption
  <1>2. ManagerTypeOK /\ NotYet /\ current[k] \in Inits
    BY DEF ManagerInv, ManagerTypeOK
  <1>3. /\ client' \in Clients
        /\ client'[k][current[k]] = "closed"
        /\ \A l \in Kinds, x \in Inits :
              <<l, x>> # <<k, current[k]>> => client'[l][x] = client[l][x]
    BY <1>2 DEF ManagerTypeOK, Clients
  <1>4. /\ pc'[s] = k
        /\ \A c \in Inits \cup Shutdowns : c # s => pc'[c] = pc[c]
        /\ \A i \in Inits : pc'[i] = pc[i]
    BY <1>1, <1>2 DEF ManagerTypeOK
  <1>5. ManagerTypeOK'
    BY <1>1, <1>2, <1>3 DEF ManagerTypeOK, Pending
  <1>6. NotYet'
    <2>1. ASSUME NEW i \in Inits, NEW l \in Kinds, pc'[i] = "idle"
          PROVE  client'[l][i] = "none" /\ current'[l] # i
      <3>1. pc[i] = "idle"
        BY <1>4, <2>1
      <3>2. client[l][i] = "none" /\ current[l] # i /\ current[k] # i
        BY <1>2, <3>1 DEF NotYet
      <3>3. client'[l][i] = client[l][i]
        BY <1>3, <3>2
      <3> QED
        BY <3>2, <3>3, ManagerAssumption DEF ManagerAssumption
    <2>2. \A l \in Kinds \ config'.enabled : current'[l] = None
      BY <1>2 DEF NotYet
    <2> QED
      BY <2>1, <2>2 DEF NotYet
  <1>7. ASSUME ~overlapped' PROVE OneByOne'
    <2>1. /\ OneByOne
          /\ \A c \in Inits \cup Shutdowns : c # s => pc'[c] \notin Pending
      BY <1>4, <1>7 DEF ManagerInv
    <2>2. NoStrays'
      <3>1. ASSUME NEW l \in Kinds, NEW x \in Inits,
                   client'[l][x] \in {"connected", "connecting", "failed"}
            PROVE  x = current'[l] \/ pc'[x] = "thrown"
        <4>1. client[l][x] \in {"connected", "connecting", "failed"}
          BY <1>3, <3>1
        <4>2. x = current[l] \/ pc[x] = "thrown"
          BY <2>1, <4>1 DEF OneByOne, NoStrays
        <4>3. CASE x = current[l] /\ current'[l] # current[l]
          <5>1. client[l][current[l]] \in {"closed", "revived"}
            BY <1>7, <4>3, ManagerAssumption DEF ManagerAssumption
          <5> QED
            BY <4>1, <4>3, <5>1
        <4> QED
          BY <1>4, <4>2, <4>3
      <3> QED
        BY <3>1 DEF NoStrays
    <2>3. ShutdownWaits(s)'
      BY <1>3, <1>4, <1>7 DEF ShutdownWaits
    <2>4. Busy'
      BY <1>1, <1>4, <1>5 DEF Busy, ManagerTypeOK
    <2> QED
      BY <1>1, <2>1, <2>2, <2>3, <2>4 DEF OneByOne
  <1> QED
    BY <1>5, <1>6, <1>7 DEF ManagerInv

\* The end of a shutdown: no client is left, and none that is let go is at work.
LEMMA ShutInv ==
  ASSUME ManagerInv, ManagerAssumption, NEW s \in Shutdowns,
         current' = [k \in Kinds |-> None],
         pc' = [pc EXCEPT ![s] = "done"],
         initialized' = FALSE,
         UNCHANGED <<config, handler, client>>, overlapped' \in BOOLEAN,
         ~overlapped' =>
           /\ ~overlapped
           /\ \A c \in Inits \cup Shutdowns : c # s => pc[c] \notin Pending
           /\ \A l \in Kinds : current[l] # None => client[l][current[l]] \in {"closed", "revived"}
  PROVE  ManagerInv'
  <1>1. s \notin Inits /\ ManagerTypeOK /\ NotYet
    BY DEF ManagerAssumption, ManagerInv
  <1>2. /\ pc'[s] = "done"
        /\ \A c \in Inits \cup Shutdowns : c # s => pc'[c] = pc[c]
        /\ \A i \in Inits : pc'[i] = pc[i]
    BY <1>1 DEF ManagerTypeOK
  <1>3. ManagerTypeOK'
    BY <1>1 DEF ManagerTypeOK
  <1>4. NotYet'
    BY <1>1, <1>2, ManagerAssumption DEF NotYet, ManagerAssumption
  <1>5. ASSUME ~overlapped' PROVE OneByOne'
    <2>1. OneByOne /\ \A c \in Inits \cup Shutdowns : pc'[c] \notin Pending
      BY <1>2, <1>5 DEF ManagerInv, Pending
    <2>2. NoStrays'
      <3>1. ASSUME NEW l \in Kinds, NEW x \in Inits,
                   client[l][x] \in {"connected", "connecting", "failed"}
            PROVE  pc[x] = "thrown"
        <4>1. x = current[l] \/ pc[x] = "thrown"
          BY <2>1, <3>1 DEF OneByOne, NoStrays
        <4>2. x # current[l]
          BY <1>5, <3>1, ManagerAssumption DEF ManagerAssumption
        <4> QED
          BY <4>1, <4>2
      <3> QED
        BY <1>2, <3>1 DEF NoStrays
    <2>3. Settled'
      BY DEF Settled, Given
    <2> QED
      BY <2>1, <2>2, <2>3 DEF OneByOne
  <1> QED
    BY <1>3, <1>4, <1>5 DEF ManagerInv

\* The second half of shutdown, the client of kind siem let go by then.
LEMMA TurnToDaemonInv ==
  ASSUME ManagerInv, ManagerAssumption, NEW s \in Shutdowns, TurnToDaemon(s),
         current' = [current EXCEPT !["siem"] = None],
         UNCHANGED <<config, handler>>, overlapped' \in BOOLEAN,
         ~overlapped' =>
           /\ ~overlapped
           /\ \A c \in Inits \cup Shutdowns : c # s => pc[c] \notin Pending
           /\ current["siem"] # None
                => client["siem"][current["siem"]] \in {"closed", "revived"}
  PROVE  ManagerInv'
  <1>1. /\ current \in [Kinds -> Inits \cup {None}]
        /\ "daemon" \in Kinds /\ "siem" \in Kinds
        /\ \A k \in Kinds : k = "siem" \/ k = "daemon"
    BY DEF ManagerInv, ManagerTypeOK, Kinds
  <1>2. /\ current'["siem"] = None
        /\ current'["daemon"] = current["daemon"]
        /\ current' \in [Kinds -> Inits \cup {None}]
    BY <1>1
  <1>3. CASE /\ current["daemon"] # None
             /\ Close("daemon")
             /\ pc' = [pc EXCEPT ![s] = "daemon"]
             /\ UNCHANGED initialized
    <2>1. \A l \in Kinds : current'[l] \in {current[l], None}
      BY <1>1, <1>2
    <2>2. ~overlapped' => \A l \in Kinds : current'[l] = None /\ current[l] # None
                => client[l][current[l]] \in {"closed", "revived"}
      BY <1>1, <1>2, <1>3
    <2>3. client' = [client EXCEPT !["daemon"][current["daemon"]] = "closed"]
      BY <1>3 DEF Close
    <2> QED
      BY <1>1, <1>2, <1>3, <2>1, <2>2, <2>3, CloseInv
  <1>4. CASE /\ current["daemon"] = None
             /\ pc' = [pc EXCEPT ![s] = "done"]
             /\ initialized' = FALSE
             /\ UNCHANGED client
    <2>1. current' = [k \in Kinds |-> None]
      BY <1>1, <1>2, <1>4
    <2>2. ~overlapped' => \A l \in Kinds : current[l] # None
                => client[l][current[l]] \in {"closed", "revived"}
      BY <1>1, <1>4
    <2> QED
      BY <1>4, <2>1, <2>2, ShutInv
  <1> QED
    BY <1>3, <1>4 DEF TurnToDaemon

\* shutdown is called, or an await of it returns.
LEMMA ShutdownStepInv ==
  ASSUME ManagerInv, ManagerAssumption, NEW s \in Shutdowns,
         Shutdown(s) \/ SiemClosed(s) \/ DaemonClosed(s)
  PROVE  ManagerInv'
  <1>1. /\ ManagerTypeOK
        /\ current \in [Kinds -> Inits \cup {None}]
        /\ "daemon" \in Kinds /\ "siem" \in Kinds
        /\ \A k \in Kinds : k = "siem" \/ k = "daemon"
    BY DEF ManagerInv, ManagerTypeOK, Kinds
  <1>2. CASE Shutdown(s)
    <2>1. /\ pc[s] = "idle"
          /\ overlapped' = (overlapped \/ Busy)
          /\ UNCHANGED <<config, current, handler>>
      BY <1>2 DEF Shutdown, Started, Busy
    <2>2. overlapped' \in BOOLEAN
      BY <1>1, <2>1 DEF ManagerTypeOK
    <2>3. ~overlapped' => ~overlapped /\ \A c \in Inits \cup Shutdowns : c # s => pc[c] \notin Pending
      BY <1>1, <2>1 DEF ManagerTypeOK, Busy
    <2>4. CASE /\ current["siem"] # None
               /\ Close("siem")
               /\ pc' = [pc EXCEPT ![s] = "siem"]
               /\ UNCHANGED initialized
      <3>1. client' = [client EXCEPT !["siem"][current["siem"]] = "closed"]
        BY <2>4 DEF Close
      <3>2. /\ current' \in [Kinds -> Inits \cup {None}]
            /\ \A l \in Kinds : current'[l] \in {current[l], None}
            /\ current'["siem"] = current["siem"]
            /\ \A l \in Kinds : current'[l] = None /\ current[l] # None
                 => client[l][current[l]] \in {"closed", "revived"}
        BY <1>1, <2>1
      <3> QED
        BY <1>1, <2>1, <2>2, <2>3, <2>4, <3>1, <3>2, CloseInv
    <2>5. CASE current["siem"] = None /\ TurnToDaemon(s)
      <3>1. current' = [current EXCEPT !["siem"] = None]
        BY <1>1, <2>1, <2>5
      <3> QED
        BY <2>1, <2>2, <2>3, <2>5, <3>1, TurnToDaemonInv
    <2> QED
      BY <1>2, <2>4, <2>5 DEF Shutdown
  <1>3. ASSUME SiemClosed(s) \/ DaemonClosed(s), ~overlapped
        PROVE  /\ ShutdownWaits(s)
               /\ \A c \in Inits \cup Shutdowns : c # s => pc[c] \notin Pending
    <2>1. pc[s] \in Pending /\ OneByOne
      BY <1>3 DEF SiemClosed, DaemonClosed, Pending, ManagerInv
    <2> QED
      BY <2>1 DEF OneByOne
  <1>4. CASE SiemClosed(s)
    <2>1. /\ pc[s] = "siem"
          /\ current' = [current EXCEPT !["siem"] = None]
          /\ TurnToDaemon(s)
          /\ UNCHANGED <<config, handler, overlapped>>
      BY <1>4 DEF SiemClosed
    <2>2. overlapped' \in BOOLEAN
      BY <1>1, <2>1 DEF ManagerTypeOK
    <2>3. ~overlapped => client["siem"][current["siem"]] \in {"closed", "revived"}
      BY <1>3, <1>4, <2>1 DEF ShutdownWaits
    <2> QED
      BY <1>3, <1>4, <2>1, <2>2, <2>3, TurnToDaemonInv
  <1>5. CASE DaemonClosed(s)
    <2>1. /\ pc[s] = "daemon"
          /\ current' = [current EXCEPT !["daemon"] = None]
          /\ initialized' = FALSE
          /\ pc' = [pc EXCEPT ![s] = "done"]
          /\ UNCHANGED <<config, handler, client, overlapped>>
      BY <1>5 DEF DaemonClosed
    <2>2. overlapped' \in BOOLEAN
      BY <1>1, <2>1 DEF ManagerTypeOK
    <2>3. CASE current["siem"] = None
      <3>1. current' = [k \in Kinds |-> None]
        BY <1>1, <2>1, <2>3
      <3>2. ~overlapped => \A l \in Kinds : current[l] # None
                => client[l][current[l]] \in {"closed", "revived"}
        BY <1>1, <1>3, <1>5, <2>1, <2>3 DEF ShutdownWaits
      <3> QED
        BY <1>3, <1>5, <2>1, <2>2, <3>1, <3>2, ShutInv
    <2>4. CASE current["siem"] # None
      <3>1. overlapped'
        BY <1>3, <1>5, <2>1, <2>2, <2>4 DEF ShutdownWaits
      <3>2. \A i \in Inits : pc'[i] = pc[i]
        BY <1>1, <2>1, ManagerAssumption DEF ManagerTypeOK, ManagerAssumption
      <3>3. ManagerTypeOK'
        BY <1>1, <2>1, <2>2 DEF ManagerTypeOK
      <3>4. \A k \in Kinds : current'[k] \in {current[k], None}
        BY <1>1, <2>1
      <3>5. NotYet'
        BY <1>1, <2>1, <3>2, <3>4, ManagerAssumption DEF NotYet, ManagerInv, ManagerAssumption
      <3> QED
        BY <3>1, <3>3, <3>5 DEF ManagerInv
    <2> QED
      BY <2>3, <2>4
  <1> QED
    BY <1>2, <1>4, <1>5

\* As long as its calls do not overlap, an initialised manager has exactly the
\* clients it should have, and none that it let go of is at work.
THEOREM ManagerConsistentHolds == ManagerSpec => []ManagerConsistent
  <1>1. ManagerInit => ManagerInv
    <2> SUFFICES ASSUME ManagerInit PROVE ManagerInv
      OBVIOUS
    <2>1. /\ \A k \in Kinds : current[k] = None
          /\ \A k \in Kinds, i \in Inits : client[k][i] = "none"
          /\ \A c \in Inits \cup Shutdowns : pc[c] = "idle"
          /\ initialized = FALSE
      BY DEF ManagerInit
    <2>2. ManagerTypeOK
      BY DEF ManagerInit, ManagerTypeOK, Clients
    <2>3. NotYet
      BY <2>1, ManagerAssumption DEF NotYet, ManagerAssumption
    <2>4. OneByOne
      BY <2>1 DEF OneByOne, NoStrays, Settled, Given, Pending
    <2> QED
      BY <2>2, <2>3, <2>4 DEF ManagerInv
  <1>2. ManagerInv /\ [ManagerNext]_managerVars => ManagerInv'
    <2>1. ManagerInv /\ UNCHANGED managerVars => ManagerInv'
      BY DEF ManagerInv, ManagerTypeOK, NotYet, OneByOne, Settled, NoStrays, Given, Busy,
         InitWaits, ShutdownWaits, managerVars
    <2>2. ManagerInv /\ ManagerNext => ManagerInv'
      BY InitializeInv, SettlesInv, DaemonReconnectsInv, ShutdownStepInv, ManagerAssumption
         DEF ManagerNext
    <2> QED
      BY <2>1, <2>2
  <1>3. ManagerInv => ManagerConsistent
    <2> SUFFICES ASSUME ManagerInv, ~overlapped
                 PROVE  /\ initialized /\ ~Busy =>
                             /\ handler = current
                             /\ \A k \in Kinds : k \in config.enabled <=> current[k] # None
                             /\ config.production =>
                                  \A k \in config.enabled : client[k][current[k]] = "connected"
                        /\ \A k \in Kinds, i \in Inits : client[k][i] \in {"connected", "connecting"}
                             => i = current[k] \/ i \in Thrown
      BY DEF ManagerConsistent
    <2>1. NoStrays /\ (~Busy => Settled)
      BY DEF ManagerInv, OneByOne
    <2> QED
      BY <2>1 DEF ManagerInv, NotYet, Settled, NoStrays, Thrown
  <1> QED
    BY <1>1, <1>2, <1>3, PTL DEF ManagerSpec

----------------------------------------------------------------------------
(* Hardware keys, for any credentials: the count that is kept of a key is  *)
(* that of an assertion that was accepted, and none accepted exceeds it.   *)

\* The records of assertions and keys.
Assertions == [credential : Credentials, signCount : Nat, challenge : Nat]
HardwareKeys == [active : BOOLEAN, signCount : Nat]

\* The type of the state.
FidoTypeOK ==
  /\ counter \in [Credentials -> Nat]
  /\ signed \in Seq(Assertions)
  /\ keys \in [Credentials -> HardwareKeys]
  /\ userKeyIds \in Seq(Credentials)
  /\ activeKeyCount \in Int
  /\ usedChallenges \subseteq DOMAIN signed
  /\ accepted \in [Credentials -> Seq(Nat)]

\* An assertion is its own challenge, and counts are as the authenticator made
\* them: growing, or always 0.
SignedInv ==
  \A n \in DOMAIN signed :
    /\ signed[n].challenge = n
    /\ signed[n].signCount <= counter[signed[n].credential]
    /\ signed[n].credential \in Counting => signed[n].signCount > 0
    /\ signed[n].credential \notin Counting => signed[n].signCount = 0
    /\ \A m \in DOMAIN signed :
         m < n /\ signed[m].credential = signed[n].credential /\ signed[n].credential \in Counting
           => signed[m].signCount < signed[n].signCount

\* The count that is kept is that of an assertion, and what was accepted under
\* the registration does not exceed it.
KeptInv ==
  \A c \in Credentials :
    /\ \/ keys[c].signCount = 0
       \/ \E m \in usedChallenges : /\ signed[m].credential = c
                                    /\ signed[m].signCount = keys[c].signCount
    /\ \A i \in DOMAIN accepted[c] :
         /\ accepted[c][i] \in usedChallenges
         /\ signed[accepted[c][i]].credential = c
         /\ signed[accepted[c][i]].signCount <= keys[c].signCount

\* The keys that the counter counts.
ActiveKeys == {c \in Credentials : keys[c].active}

\* The active keys are finitely many, as many as the counter says, and listed.
CountedInv ==
  /\ IsFiniteSet(ActiveKeys)
  /\ activeKeyCount = Cardinality(ActiveKeys)
  /\ ActiveKeys \subseteq ToSet(userKeyIds)

\* The invariant.
FidoInv == FidoTypeOK /\ SignedInv /\ KeptInv /\ CountedInv /\ AcceptedInOrder

\* The fields of an assertion that was signed.
LEMMA AssertionIs ==
  ASSUME NEW s, s \in Seq(Assertions), NEW n \in DOMAIN s
  PROVE  /\ s[n] \in Assertions
         /\ s[n].credential \in Credentials
         /\ s[n].signCount \in Nat
         /\ n \in Nat
         /\ DOMAIN s = 1 .. Len(s)
  <1>1. n \in Nat /\ s[n] \in Assertions /\ DOMAIN s = 1 .. Len(s)
    <2>1. DOMAIN s = 1 .. Len(s) /\ Len(s) \in Nat
      OBVIOUS
    <2>2. s[n] \in Assertions
      OBVIOUS
    <2> QED
      BY <2>1, <2>2
  <1> QED
    BY <1>1 DEF Assertions

\* The fields of a key.
LEMMA KeyIs ==
  ASSUME FidoTypeOK, NEW c \in Credentials
  PROVE  keys[c] \in HardwareKeys /\ keys[c].signCount \in Nat /\ keys[c].active \in BOOLEAN
  BY DEF FidoTypeOK, HardwareKeys

\* Another element at the end of a sequence.
LEMMA Appended ==
  ASSUME NEW S, NEW s \in Seq(S), NEW e \in S, NEW t, t = Append(s, e)
  PROVE  /\ t \in Seq(S)
         /\ Len(s) \in Nat
         /\ DOMAIN s = 1 .. Len(s)
         /\ DOMAIN t = 1 .. Len(s) + 1
         /\ \A n \in DOMAIN s : t[n] = s[n]
         /\ t[Len(s) + 1] = e
  OBVIOUS

\* The invariant holds at the start.
LEMMA FidoInitInv ==
  ASSUME FidoInit, FidoAssumption
  PROVE  FidoInv
  <1>1. FidoTypeOK /\ SignedInv /\ KeptInv
    BY DEF FidoInit, FidoTypeOK, SignedInv, KeptInv, HardwareKeys
  <1>2. ActiveKeys = {}
    BY DEF FidoInit, ActiveKeys
  <1>3. CountedInv
    BY <1>2, FS_EmptySet DEF FidoInit, CountedInv
  <1>4. AcceptedInOrder
    BY DEF FidoInit, AcceptedInOrder, IsInjective
  <1> QED
    BY <1>1, <1>3, <1>4 DEF FidoInv

\* An authenticator signs.
LEMMA SignActionInv ==
  ASSUME FidoInv, FidoAssumption, NEW c \in Credentials, SignAction(c)
  PROVE  FidoInv'
  <1> USE DEF FidoInv
  <1> DEFINE new == [credential |-> c, signCount |-> counter'[c], challenge |-> Len(signed) + 1]
  <1>1. /\ counter' = [counter EXCEPT ![c] = IF c \in Counting THEN @ + 1 ELSE 0]
        /\ signed' = Append(signed, new)
        /\ UNCHANGED <<created, keys, userKeyIds, activeKeyCount, usedChallenges, accepted>>
    BY DEF SignAction, generateActionChallenge
  <1>2. /\ counter' \in [Credentials -> Nat]
        /\ counter'[c] = IF c \in Counting THEN counter[c] + 1 ELSE 0
        /\ \A d \in Credentials \ {c} : counter'[d] = counter[d]
    BY <1>1, SMTT(30) DEF FidoTypeOK
  <1>3. new \in Assertions
    BY <1>2 DEF FidoTypeOK, Assertions
  <1>4. /\ new.credential = c /\ new.signCount = counter'[c] /\ new.challenge = Len(signed) + 1
    OBVIOUS
  <1> HIDE DEF new
  <1>5. /\ signed' \in Seq(Assertions)
        /\ Len(signed) \in Nat
        /\ DOMAIN signed = 1 .. Len(signed)
        /\ DOMAIN signed' = 1 .. Len(signed) + 1
        /\ \A n \in DOMAIN signed : signed'[n] = signed[n]
        /\ signed'[Len(signed) + 1] = new
    BY <1>1, <1>3, Appended DEF FidoTypeOK
  <1>6. FidoTypeOK'
    BY <1>1, <1>2, <1>5 DEF FidoTypeOK
  <1>7. SignedInv'
    <2>1. ASSUME NEW n \in DOMAIN signed
          PROVE  signed[n].credential \in Credentials /\ signed[n].signCount \in Nat
      BY AssertionIs DEF FidoTypeOK
    <2>2. ASSUME NEW n \in DOMAIN signed
          PROVE  signed[n].signCount <= counter[signed[n].credential]
      BY DEF SignedInv
    <2>3. ASSUME NEW n \in DOMAIN signed'
          PROVE  /\ signed'[n].challenge = n
                 /\ signed'[n].signCount <= counter'[signed'[n].credential]
                 /\ signed'[n].credential \in Counting => signed'[n].signCount > 0
                 /\ signed'[n].credential \notin Counting => signed'[n].signCount = 0
      <3>1. CASE n \in DOMAIN signed
        <4>1. signed'[n] = signed[n]
          BY <1>5, <3>1
        <4>2. /\ signed[n].challenge = n
              /\ signed[n].signCount <= counter[signed[n].credential]
              /\ signed[n].credential \in Counting => signed[n].signCount > 0
              /\ signed[n].credential \notin Counting => signed[n].signCount = 0
          BY <3>1 DEF SignedInv
        <4>3. signed[n].signCount <= counter'[signed[n].credential]
          <5>1. CASE signed[n].credential # c
            BY <1>2, <2>1, <3>1, <4>2, <5>1
          <5>2. CASE signed[n].credential = c
            BY <1>2, <2>1, <3>1, <4>2, <5>2 DEF FidoTypeOK
          <5> QED
            BY <5>1, <5>2
        <4> QED
          BY <4>1, <4>2, <4>3
      <3>2. CASE n = Len(signed) + 1
        <4>1. signed'[n] = new /\ counter[c] \in Nat /\ n = new.challenge
          BY <1>4, <1>5, <3>2 DEF FidoTypeOK
        <4> QED
          BY <1>2, <1>4, <4>1
      <3> QED
        BY <1>5, <3>1, <3>2
    <2>4. ASSUME NEW n \in DOMAIN signed', NEW m \in DOMAIN signed', m < n,
                 signed'[m].credential = signed'[n].credential, signed'[n].credential \in Counting
          PROVE  signed'[m].signCount < signed'[n].signCount
      <3>1. m \in DOMAIN signed /\ signed'[m] = signed[m]
        BY <1>5, <2>4
      <3>2. CASE n \in DOMAIN signed
        BY <1>5, <2>4, <3>1, <3>2 DEF SignedInv
      <3>3. CASE n = Len(signed) + 1
        <4>1. signed[m].credential = c /\ c \in Counting /\ signed'[n].signCount = counter[c] + 1
          BY <1>2, <1>4, <1>5, <2>4, <3>1, <3>3
        <4> QED
          BY <2>1, <2>2, <3>1, <4>1 DEF FidoTypeOK
      <3> QED
        BY <1>5, <3>2, <3>3
    <2> QED
      BY <2>3, <2>4 DEF SignedInv
  <1>8. KeptInv'
    <2>1. \A m \in usedChallenges : signed'[m] = signed[m]
      BY <1>5 DEF FidoTypeOK
    <2>2. keys' = keys /\ usedChallenges' = usedChallenges /\ accepted' = accepted
      BY <1>1
    <2>3. ASSUME NEW d \in Credentials
          PROVE  /\ \/ keys[d].signCount = 0
                    \/ \E m \in usedChallenges : /\ signed'[m].credential = d
                                                 /\ signed'[m].signCount = keys[d].signCount
                 /\ \A i \in DOMAIN accepted[d] :
                      /\ accepted[d][i] \in usedChallenges
                      /\ signed'[accepted[d][i]].credential = d
                      /\ signed'[accepted[d][i]].signCount <= keys[d].signCount
      BY <2>1 DEF KeptInv
    <2> QED
      BY <2>2, <2>3, Zenon DEF KeptInv
  <1>9. CountedInv' /\ AcceptedInOrder'
    BY <1>1 DEF CountedInv, ActiveKeys, AcceptedInOrder
  <1> QED
    BY <1>6, <1>7, <1>8, <1>9

\* A key is registered, for the first time or again.
LEMMA RegisterKeyInv ==
  ASSUME FidoInv, FidoAssumption, NEW c \in Credentials, RegisterKey(c)
  PROVE  FidoInv'
  <1> USE DEF FidoInv
  <1>1. /\ ~keys[c].active
        /\ keys' = [keys EXCEPT ![c] = [active |-> TRUE, signCount |-> 0]]
        /\ userKeyIds' = Append(userKeyIds, c)
        /\ activeKeyCount' = activeKeyCount + 1
        /\ accepted' = [accepted EXCEPT ![c] = <<>>]
        /\ UNCHANGED <<created, counter, signed, usedChallenges>>
    BY DEF RegisterKey
  <1>2. /\ keys'[c].active = TRUE /\ keys'[c].signCount = 0
        /\ accepted'[c] = <<>>
        /\ \A d \in Credentials \ {c} : keys'[d] = keys[d] /\ accepted'[d] = accepted[d]
    BY <1>1 DEF FidoTypeOK, HardwareKeys
  <1>3. FidoTypeOK'
    BY <1>1 DEF FidoTypeOK, HardwareKeys
  <1>4. SignedInv'
    BY <1>1 DEF SignedInv
  <1>5. KeptInv'
    BY <1>1, <1>2 DEF KeptInv
  <1>6. AcceptedInOrder'
    BY <1>1, <1>2 DEF AcceptedInOrder, IsInjective
  <1>7. CountedInv'
    <2>1. ActiveKeys' = ActiveKeys \cup {c} /\ c \notin ActiveKeys
      BY <1>1, <1>2 DEF ActiveKeys
    <2>2. ToSet(userKeyIds') = ToSet(userKeyIds) \cup {c}
      <3> DEFINE k == Len(userKeyIds) + 1
      <3>1. /\ Len(userKeyIds) \in Nat
            /\ DOMAIN userKeyIds = 1 .. Len(userKeyIds)
            /\ DOMAIN userKeyIds' = 1 .. k
            /\ \A n \in DOMAIN userKeyIds : userKeyIds'[n] = userKeyIds[n]
            /\ userKeyIds'[k] = c
        BY <1>1, Appended DEF FidoTypeOK
      <3>2. /\ DOMAIN userKeyIds' = DOMAIN userKeyIds \cup {k}
            /\ \A n \in DOMAIN userKeyIds : userKeyIds'[n] = userKeyIds[n]
            /\ userKeyIds'[k] = c
        BY <3>1
      <3> HIDE DEF k
      <3> QED
        BY <3>2, Zenon DEF ToSet
    <2>3. IsFiniteSet(ActiveKeys') /\ Cardinality(ActiveKeys') = Cardinality(ActiveKeys) + 1
      BY <2>1, FS_AddElement DEF CountedInv
    <2> QED
      BY <1>1, <2>1, <2>2, <2>3 DEF CountedInv
  <1> QED
    BY <1>3, <1>4, <1>5, <1>6, <1>7

\* A key is revoked.
LEMMA RevokeKeyInv ==
  ASSUME FidoInv, FidoAssumption, NEW c \in Credentials, RevokeKey(c)
  PROVE  FidoInv'
  <1> USE DEF FidoInv
  <1>1. /\ keys[c].active
        /\ keys' = [keys EXCEPT ![c].active = FALSE]
        /\ activeKeyCount' = activeKeyCount - 1
        /\ UNCHANGED <<created, counter, signed, userKeyIds, usedChallenges, accepted>>
    BY DEF RevokeKey
  <1>2. /\ keys'[c].active = FALSE /\ keys'[c].signCount = keys[c].signCount
        /\ \A d \in Credentials \ {c} : keys'[d] = keys[d]
    <2>1. keys[c] \in [active : BOOLEAN, signCount : Nat]
      BY DEF FidoTypeOK, HardwareKeys
    <2>2. /\ keys'[c] = [keys[c] EXCEPT !.active = FALSE]
          /\ \A d \in Credentials \ {c} : keys'[d] = keys[d]
      BY <1>1 DEF FidoTypeOK
    <2>3. keys'[c].active = FALSE /\ keys'[c].signCount = keys[c].signCount
      BY <2>1, <2>2
    <2> QED
      BY <2>2, <2>3
  <1>3. FidoTypeOK'
    <2>1. keys[c] \in [active : BOOLEAN, signCount : Nat]
      BY DEF FidoTypeOK, HardwareKeys
    <2>2. [keys[c] EXCEPT !.active = FALSE] \in HardwareKeys
      BY <2>1 DEF HardwareKeys
    <2>3. keys' = [keys EXCEPT ![c] = [keys[c] EXCEPT !.active = FALSE]]
      BY <1>1
    <2>4. keys' \in [Credentials -> HardwareKeys]
      BY <2>2, <2>3, Zenon DEF FidoTypeOK
    <2>5. activeKeyCount' \in Int
      BY <1>1 DEF FidoTypeOK
    <2> QED
      BY <1>1, <2>4, <2>5 DEF FidoTypeOK
  <1>4. SignedInv' /\ AcceptedInOrder'
    BY <1>1 DEF SignedInv, AcceptedInOrder
  <1>5. KeptInv'
    BY <1>1, <1>2 DEF KeptInv
  <1>6. CountedInv'
    <2>1. ActiveKeys' = ActiveKeys \ {c} /\ c \in ActiveKeys
      BY <1>1, <1>2 DEF ActiveKeys
    <2>2. IsFiniteSet(ActiveKeys') /\ Cardinality(ActiveKeys') = Cardinality(ActiveKeys) - 1
      BY <2>1, FS_RemoveElement DEF CountedInv
    <2> QED
      BY <1>1, <2>1, <2>2 DEF CountedInv
  <1> QED
    BY <1>3, <1>4, <1>5, <1>6

\* Whatever was accepted before an assertion with a fresh count was signed before
\* it, if the key counts.
LEMMA FreshIsLater ==
  ASSUME FidoInv, FidoAssumption, NEW n \in DOMAIN signed, n \notin usedChallenges,
         Matches(signed[n]), signed[n].credential \in Counting,
         NEW i \in DOMAIN accepted[signed[n].credential]
  PROVE  accepted[signed[n].credential][i] < n
  <1> USE DEF FidoInv
  <1> DEFINE c == signed[n].credential
             m == accepted[c][i]
  <1>1. c \in Credentials /\ signed[n].signCount \in Nat /\ n \in Nat
    BY AssertionIs DEF FidoTypeOK
  <1>2. /\ m \in usedChallenges /\ m \in DOMAIN signed
        /\ signed[m].credential = c
        /\ signed[m].signCount <= keys[c].signCount
    BY <1>1 DEF KeptInv, FidoTypeOK
  <1>3. signed[n].signCount > keys[c].signCount
    <2>1. signed[n].signCount > 0 /\ keys[c].signCount \in Nat
      BY <1>1, KeyIs DEF SignedInv
    <2> QED
      BY <1>1, <2>1 DEF Matches, FreshCount
  <1>4. signed[m].signCount \in Nat /\ keys[c].signCount \in Nat
    BY <1>1, <1>2, AssertionIs, KeyIs DEF FidoTypeOK
  <1>5. m \in Int /\ n \in Int /\ m # n
    BY <1>1, <1>2, AssertionIs DEF FidoTypeOK
  <1>6. ~(n < m)
    <2> SUFFICES ASSUME n < m PROVE FALSE
      OBVIOUS
    <2>1. signed[n].signCount < signed[m].signCount
      BY <1>2 DEF SignedInv
    <2> QED
      BY <1>1, <1>2, <1>3, <1>4, <2>1
  <1> QED
    BY <1>5, <1>6

\* An assertion is accepted.
LEMMA VerifyAssertionInv ==
  ASSUME FidoInv, FidoAssumption, NEW n \in DOMAIN signed, VerifyAssertion(n)
  PROVE  FidoInv'
  <1> USE DEF FidoInv
  <1> DEFINE c == signed[n].credential
  <1>1. /\ signed[n].challenge = n
        /\ c \in Credentials /\ signed[n].signCount \in Nat /\ n \in Nat
    BY AssertionIs DEF SignedInv, FidoTypeOK
  <1>2. /\ n \notin usedChallenges
        /\ usedChallenges' = usedChallenges \cup {n}
        /\ UNCHANGED <<created, counter, signed, userKeyIds, activeKeyCount>>
    BY <1>1 DEF VerifyAssertion
  <1>3. SignedInv'
    BY <1>2 DEF SignedInv
  <1>4. CASE Matches(signed[n])
    <2>1. /\ keys' = [keys EXCEPT ![c].signCount = signed[n].signCount]
          /\ accepted' = [accepted EXCEPT ![c] = Append(accepted[c], n)]
      BY <1>1, <1>4 DEF VerifyAssertion
    <2>2. accepted[c] \in Seq(Nat) /\ keys[c] \in [active : BOOLEAN, signCount : Nat]
      BY <1>1 DEF FidoTypeOK, HardwareKeys
    <2>3. /\ keys'[c] = [keys[c] EXCEPT !.signCount = signed[n].signCount]
          /\ \A d \in Credentials \ {c} : keys'[d] = keys[d] /\ accepted'[d] = accepted[d]
          /\ accepted'[c] = Append(accepted[c], n)
      BY <1>1, <2>1 DEF FidoTypeOK
    <2>4. keys'[c].signCount = signed[n].signCount /\ keys'[c].active = keys[c].active
      BY <2>2, <2>3
    <2>5. /\ DOMAIN accepted'[c] = 1 .. Len(accepted[c]) + 1
          /\ DOMAIN accepted[c] = 1 .. Len(accepted[c])
          /\ Len(accepted[c]) \in Nat
          /\ \A i \in DOMAIN accepted[c] : accepted'[c][i] = accepted[c][i]
          /\ accepted'[c][Len(accepted[c]) + 1] = n
      BY <1>1, <2>2, <2>3, Appended
    <2>6. FidoTypeOK'
      <3>1. Append(accepted[c], n) \in Seq(Nat)
        BY <1>1, <2>2
      <3>2. accepted' \in [Credentials -> Seq(Nat)]
        BY <1>1, <2>1, <3>1 DEF FidoTypeOK
      <3>3. keys' \in [Credentials -> HardwareKeys]
        BY <1>1, <2>1 DEF FidoTypeOK, HardwareKeys
      <3>4. usedChallenges' \subseteq DOMAIN signed'
        BY <1>2 DEF FidoTypeOK
      <3> QED
        BY <1>2, <3>2, <3>3, <3>4 DEF FidoTypeOK
    <2>7. KeptInv'
      <3>1. ASSUME NEW d \in Credentials, d # c
            PROVE  /\ \/ keys'[d].signCount = 0
                      \/ \E m \in usedChallenges' : /\ signed'[m].credential = d
                                                    /\ signed'[m].signCount = keys'[d].signCount
                   /\ \A i \in DOMAIN accepted'[d] :
                        /\ accepted'[d][i] \in usedChallenges'
                        /\ signed'[accepted'[d][i]].credential = d
                        /\ signed'[accepted'[d][i]].signCount <= keys'[d].signCount
        BY <1>2, <2>3, <3>1 DEF KeptInv
      <3>2. \E m \in usedChallenges' : /\ signed'[m].credential = c
                                       /\ signed'[m].signCount = keys'[c].signCount
        BY <1>2, <2>4
      <3>3. ASSUME NEW i \in DOMAIN accepted'[c]
            PROVE  /\ accepted'[c][i] \in usedChallenges'
                   /\ signed'[accepted'[c][i]].credential = c
                   /\ signed'[accepted'[c][i]].signCount <= keys'[c].signCount
        <4>1. CASE i = Len(accepted[c]) + 1
          BY <1>1, <1>2, <2>4, <2>5, <4>1
        <4>2. CASE i \in DOMAIN accepted[c]
          <5>1. /\ accepted[c][i] \in usedChallenges
                /\ signed[accepted[c][i]].credential = c
                /\ signed[accepted[c][i]].signCount <= keys[c].signCount
            BY <1>1, <4>2 DEF KeptInv
          <5>2. /\ signed[accepted[c][i]].signCount \in Nat /\ keys[c].signCount \in Nat
            BY <1>1, <5>1, AssertionIs, KeyIs DEF FidoTypeOK
          <5>3. signed[accepted[c][i]].signCount <= signed[n].signCount
            <6>1. CASE c \in Counting
              <7>1. signed[n].signCount > 0
                BY <6>1 DEF SignedInv
              <7>2. signed[n].signCount > keys[c].signCount
                BY <1>1, <1>4, <5>2, <7>1 DEF Matches, FreshCount
              <7> QED
                BY <1>1, <5>1, <5>2, <7>2
            <6>2. CASE c \notin Counting
              <7>1. signed[accepted[c][i]].signCount = 0
                BY <5>1, <6>2 DEF SignedInv, FidoTypeOK
              <7> QED
                BY <1>1, <7>1
            <6> QED
              BY <6>1, <6>2
          <5> QED
            BY <1>2, <2>4, <2>5, <4>2, <5>1, <5>3
        <4> QED
          BY <2>5, <4>1, <4>2
      <3> QED
        BY <3>1, <3>2, <3>3 DEF KeptInv
    <2>8. AcceptedInOrder'
      <3>1. ASSUME NEW d \in Credentials, d # c
            PROVE  /\ IsInjective(accepted'[d])
                   /\ d \in Counting => \A i, j \in DOMAIN accepted'[d] :
                                           i < j => accepted'[d][i] < accepted'[d][j]
        BY <2>3, <3>1 DEF AcceptedInOrder
      <3>2. \A i \in DOMAIN accepted[c] : accepted[c][i] # n
        BY <1>1, <1>2 DEF KeptInv
      <3>3. IsInjective(accepted'[c])
        <4>1. \A i, j \in DOMAIN accepted[c] : accepted[c][i] = accepted[c][j] => i = j
          BY <1>1 DEF AcceptedInOrder, IsInjective
        <4> QED
          BY <2>5, <3>2, <4>1 DEF IsInjective
      <3>4. ASSUME c \in Counting, NEW i \in DOMAIN accepted'[c], NEW j \in DOMAIN accepted'[c], i < j
            PROVE  accepted'[c][i] < accepted'[c][j]
        <4>1. i \in DOMAIN accepted[c]
          BY <2>5, <3>4
        <4>2. CASE j \in DOMAIN accepted[c]
          <5>1. accepted[c][i] < accepted[c][j]
            BY <1>1, <3>4, <4>1, <4>2 DEF AcceptedInOrder
          <5> QED
            BY <2>5, <4>1, <4>2, <5>1
        <4>3. CASE j = Len(accepted[c]) + 1
          BY <1>2, <1>4, <2>5, <3>4, <4>1, <4>3, FreshIsLater
        <4> QED
          BY <2>5, <4>2, <4>3
      <3> QED
        BY <3>1, <3>3, <3>4 DEF AcceptedInOrder
    <2>9. CountedInv'
      <3>1. ActiveKeys' = ActiveKeys
        BY <1>1, <2>3, <2>4 DEF ActiveKeys
      <3> QED
        BY <1>2, <3>1 DEF CountedInv
    <2> QED
      BY <1>3, <2>6, <2>7, <2>8, <2>9
  <1>5. CASE ~Matches(signed[n])
    <2>1. UNCHANGED <<keys, accepted>>
      BY <1>5 DEF VerifyAssertion
    <2>2. FidoTypeOK'
      BY <1>2, <2>1 DEF FidoTypeOK
    <2>3. KeptInv'
      BY <1>2, <2>1 DEF KeptInv
    <2>4. AcceptedInOrder' /\ CountedInv'
      BY <1>2, <2>1 DEF AcceptedInOrder, CountedInv, ActiveKeys
    <2> QED
      BY <1>3, <2>2, <2>3, <2>4
  <1> QED
    BY <1>4, <1>5

\* The latest assertion of an active key has a count that was never seen.
LEMMA LatestIsFresh ==
  ASSUME FidoInv, FidoAssumption
  PROVE  LatestAccepted
  <1> USE DEF FidoInv
  <1> SUFFICES ASSUME NEW n \in DOMAIN signed, n \notin usedChallenges,
                      keys[signed[n].credential].active,
                      \A m \in DOMAIN signed :
                         signed[m].credential = signed[n].credential => m <= n
               PROVE  Matches(signed[n])
    BY DEF LatestAccepted
  <1> DEFINE c == signed[n].credential
  <1>1. c \in Credentials /\ signed[n].signCount \in Nat /\ keys[c].signCount \in Nat /\ n \in Nat
    BY AssertionIs, KeyIs DEF FidoTypeOK
  <1>2. c \in ToSet(userKeyIds)
    BY <1>1 DEF CountedInv, ActiveKeys
  <1>3. FreshCount(signed[n])
    <2>1. CASE c \notin Counting
      BY <1>1, <2>1 DEF SignedInv, FreshCount
    <2>2. CASE keys[c].signCount = 0
      BY <1>1, <2>2 DEF FreshCount
    <2>3. CASE c \in Counting /\ keys[c].signCount # 0
      <3>1. PICK m \in usedChallenges : /\ signed[m].credential = c
                                        /\ signed[m].signCount = keys[c].signCount
        BY <1>1, <2>3 DEF KeptInv
      <3>2. m \in DOMAIN signed /\ m \in Nat /\ m < n
        <4>1. m \in DOMAIN signed /\ m # n
          BY DEF FidoTypeOK
        <4>2. m \in Nat /\ m <= n
          BY <3>1, <4>1, AssertionIs DEF FidoTypeOK
        <4> QED
          BY <1>1, <4>1, <4>2
      <3>3. signed[m].signCount < signed[n].signCount
        BY <2>3, <3>1, <3>2 DEF SignedInv
      <3> QED
        BY <1>1, <3>1, <3>3 DEF FreshCount
    <2> QED
      BY <2>1, <2>2, <2>3
  <1> QED
    BY <1>2, <1>3 DEF Matches

\* However keys are registered, revoked and registered again, and in whatever
\* order assertions arrive: none is accepted twice, those of a counting key in
\* order, the latest always, and the counter of active keys is right.
THEOREM FidoKeysHolds == FidoSpec => []FidoKeys
  <1>1. FidoInit => FidoInv
    BY FidoInitInv, FidoAssumption
  <1>2. FidoInv /\ [FidoNext]_fidoVars => FidoInv'
    <2>1. ASSUME FidoInv, UNCHANGED fidoVars PROVE FidoInv'
      BY <2>1 DEF FidoInv, FidoTypeOK, SignedInv, KeptInv, CountedInv, ActiveKeys,
         AcceptedInOrder, fidoVars
    <2>2. ASSUME FidoInv, NEW c \in Credentials, CreateCredential(c) PROVE FidoInv'
      BY <2>2 DEF FidoInv, FidoTypeOK, SignedInv, KeptInv, CountedInv, ActiveKeys,
         AcceptedInOrder, CreateCredential
    <2>3. ASSUME FidoInv, NEW n \in DOMAIN signed, SpendChallenge(n) PROVE FidoInv'
      <3>1. n \in DOMAIN signed /\ signed[n].challenge = n
        BY <2>3 DEF FidoInv, SignedInv
      <3> QED
        BY <2>3, <3>1 DEF FidoInv, FidoTypeOK, SignedInv, KeptInv, CountedInv, ActiveKeys,
           AcceptedInOrder, SpendChallenge
    <2> QED
      BY <2>1, <2>2, <2>3, SignActionInv, RegisterKeyInv, RevokeKeyInv, VerifyAssertionInv,
         FidoAssumption DEF FidoNext
  <1>3. FidoInv => FidoKeys
    BY LatestIsFresh, FidoAssumption DEF FidoInv, FidoKeys, KeysCounted, CountedInv, ActiveKeys
  <1> QED
    BY <1>1, <1>2, <1>3, PTL DEF FidoSpec

----------------------------------------------------------------------------
(* Viewing-key escrow, for every list of holders and threshold: what a     *)
(* vote has counted, and whose share a submission is.                      *)

\* What a ciphertext opens to is what was encrypted.
LEMMA DecryptedIs ==
  ASSUME NEW key, NEW plain, NEW ephemeral
  PROVE  decrypted(encrypt(key, plain, ephemeral)) = plain
  BY DEF decrypted, encrypt, aesGcmEncrypt

\* Whoever can decrypt a ciphertext, it was meant for.
LEMMA DecryptsOwn ==
  ASSUME NEW k, NEW c, Decrypts(k, c)
  PROVE  SealedFor(k, c)
  BY DEF Decrypts, SealedFor, aesGcmOpens, deriveKey, getSharedSecret

\* The accounts of a list are finitely many, as many as its length if none is
\* repeated.
LEMMA ListedAccounts ==
  ASSUME NEW S, NEW s \in Seq(S)
  PROVE  /\ IsFiniteSet(ToSet(s))
         /\ Cardinality(ToSet(s)) \in Nat
         /\ Cardinality(ToSet(s)) <= Len(s)
         /\ IsInjective(s) => Cardinality(ToSet(s)) = Len(s)
  <1>1. Len(s) \in Nat /\ DOMAIN s = 1 .. Len(s) /\ s \in [1 .. Len(s) -> ToSet(s)]
    BY DEF ToSet
  <1>2. s \in Surjection(1 .. Len(s), ToSet(s))
    BY <1>1 DEF Surjection, ToSet
  <1>3. IsFiniteSet(1 .. Len(s)) /\ Cardinality(1 .. Len(s)) = Len(s)
    BY <1>1, FS_Interval
  <1>4. /\ IsFiniteSet(ToSet(s))
        /\ Cardinality(ToSet(s)) <= Len(s)
        /\ Cardinality(ToSet(s)) = Len(s) <=> s \in Injection(1 .. Len(s), ToSet(s))
    BY <1>2, <1>3, FS_Surjection
  <1>5. IsInjective(s) => s \in Injection(1 .. Len(s), ToSet(s))
    BY <1>1 DEF IsInjective, Injection
  <1> QED
    BY <1>4, <1>5, FS_CardinalityType

----------------------------------------------------------------------------
(* The invariant.                                                          *)

\* The records of requests.
Statuses == {"None", "Pending", "Approved", "Rejected", "Expired", "Executed"}

RevealRequests == [status : Statuses, approvals : Nat, rejections : Nat, expired : BOOLEAN]

\* Shares an account can have sealed: the genuine ones are those of its places.
SealableBy(a) == {share \in [index : Nat, genuine : BOOLEAN] :
                    share.genuine => share.index \in Positions /\ holders[share.index] = a}

\* What a holder can have put on chain.
Submission(a, share, to, r) == [holder |-> a, sealed |-> SealedTo(to, share, r, a)]

Submissions ==
  UNION {{Submission(a, share, to, r) : share \in SealableBy(a), to \in Coordinators, r \in Requests} :
           a \in ToSet(holders)}

\* The type of the state.
EscrowTypeOK ==
  /\ holders \in Seq(Accounts)
  /\ quorum \in Nat /\ quorum >= 2 /\ quorum <= Len(holders)
  /\ handed = [i \in Positions |-> HandedOut(i)]
  /\ request \in [Requests -> RevealRequests]
  /\ voters \in [Requests -> SUBSET ToSet(holders)]
  /\ submitted \in [Requests -> SUBSET Submissions]

\* Of a request q, who voted on it and what was submitted for it.
RequestOK(q, voted, sent) ==
  /\ q.approvals + q.rejections = Cardinality(voted)
  /\ q.status = "None" => voted = {}
  /\ q.status = "Pending" => q.approvals < quorum /\ q.rejections <= Len(holders) - quorum
  /\ q.status = "Rejected" => q.rejections > Len(holders) - quorum
  /\ q.status \in {"Approved", "Executed"} => q.approvals >= quorum
  /\ sent # {} => q.status \in {"Approved", "Executed"}
  /\ q.status = "Executed" => Cardinality(sent) >= quorum
  /\ \A s, u \in sent : s.holder = u.holder => s = u

\* The invariant; LearnsByQuorum is a part of it.
EscrowInv ==
  /\ EscrowTypeOK
  /\ \A r \in Requests : RequestOK(request[r], voters[r], submitted[r])
  /\ LearnsByQuorum

\* A submission names a holder and is sealed over a share which, if genuine, is that
\* of a place of the holder.
LEMMA SubmissionIs ==
  ASSUME NEW s \in Submissions
  PROVE  /\ s.holder \in ToSet(holders)
         /\ decrypted(s.sealed) \in SealableBy(s.holder)
  <1>1. PICK a \in ToSet(holders) :
          \E share \in SealableBy(a), to \in Coordinators, r \in Requests :
             s = Submission(a, share, to, r)
    BY DEF Submissions
  <1>2. PICK share \in SealableBy(a), to \in Coordinators, r \in Requests :
          s = Submission(a, share, to, r)
    BY <1>1
  <1>3. s.holder = a /\ s.sealed = encrypt(getPublicKey(to), share, <<r, a>>)
    BY <1>2 DEF Submission, SealedTo
  <1>4. decrypted(s.sealed) = share
    BY <1>3, DecryptedIs
  <1> QED
    BY <1>2, <1>3, <1>4

\* Genuine shares with one index come from one account.
LEMMA SameIndex ==
  ASSUME NEW s \in Submissions, NEW u \in Submissions,
         decrypted(s.sealed).genuine, decrypted(u.sealed).genuine,
         decrypted(s.sealed).index = decrypted(u.sealed).index
  PROVE  s.holder = u.holder
  BY SubmissionIs DEF SealableBy

\* The places of those who send shares are finitely many.
FewSenders ==
  \A k : /\ IsFiniteSet(PlacesOfSenders(k))
         /\ Cardinality(PlacesOfSenders(k)) \in Nat

LEMMA SendersAreHolders == EscrowTypeOK => FewSenders
  <1> SUFFICES ASSUME EscrowTypeOK, NEW k
               PROVE  /\ IsFiniteSet(PlacesOfSenders(k))
                      /\ Cardinality(PlacesOfSenders(k)) \in Nat
    BY DEF FewSenders
  <1>1. Positions = 1 .. Len(holders) /\ Len(holders) \in Nat
    BY DEF EscrowTypeOK, Positions
  <1>2. IsFiniteSet(Positions)
    BY <1>1, FS_Interval
  <1>3. PlacesOfSenders(k) \subseteq Positions
    BY DEF PlacesOfSenders
  <1> QED
    BY <1>2, <1>3, FS_Subset, FS_CardinalityType

\* A step that changes one request, and takes nothing back.
LEMMA OneRequest ==
  ASSUME EscrowInv, UNCHANGED <<holders, quorum, handed, learned>>,
         NEW r \in Requests,
         NEW q \in RevealRequests, request' = [request EXCEPT ![r] = q],
         NEW V \in SUBSET ToSet(holders), voters' = [voters EXCEPT ![r] = V],
         NEW S \in SUBSET Submissions, submitted' = [submitted EXCEPT ![r] = S],
         submitted[r] \subseteq S,
         request[r].status \in {"Approved", "Executed"}
           => q.status \in {"Approved", "Executed"} /\ V = voters[r],
         RequestOK(q, V, S)
  PROVE  EscrowInv'
  <1>1. EscrowTypeOK'
    <2>1. Submissions' = Submissions /\ Positions' = Positions
      BY DEF Submissions, Submission, SealableBy, Positions
    <2>2. [i \in Positions |-> HandedOut(i)]' = [i \in Positions |-> HandedOut(i)]
      BY DEF HandedOut, Positions
    <2>3. ToSet(holders)' = ToSet(holders)
      OBVIOUS
    <2> QED
      BY <2>1, <2>2, <2>3 DEF EscrowInv, EscrowTypeOK
  <1>2. \A p \in Requests : RequestOK(request[p], voters[p], submitted[p])'
    <2> TAKE p \in Requests
    <2>1. CASE p = r
      <3>1. request'[p] = q /\ voters'[p] = V /\ submitted'[p] = S
        BY <2>1 DEF EscrowInv, EscrowTypeOK
      <3> QED
        BY <3>1 DEF RequestOK
    <2>2. CASE p # r
      <3>1. request'[p] = request[p] /\ voters'[p] = voters[p] /\ submitted'[p] = submitted[p]
        BY <2>2 DEF EscrowInv, EscrowTypeOK
      <3>2. RequestOK(request[p], voters[p], submitted[p])
        BY DEF EscrowInv
      <3> QED
        BY <3>1, <3>2 DEF RequestOK
    <2> QED
      BY <2>1, <2>2
  <1>3. LearnsByQuorum'
    <2>1. SUFFICES ASSUME NEW k \in learned
                   PROVE  /\ (Cardinality(PlacesOfSenders(k)) >= quorum)'
                          /\ \E p \in Requests :
                               (/\ request[p].status \in {"Approved", "Executed"}
                                /\ Cardinality(voters[p]) >= quorum)'
      BY DEF LearnsByQuorum
    <2>2. Cardinality(PlacesOfSenders(k)) >= quorum
      BY <2>1 DEF EscrowInv, LearnsByQuorum
    <2>3. PICK p \in Requests : /\ request[p].status \in {"Approved", "Executed"}
                                /\ Cardinality(voters[p]) >= quorum
      BY <2>1 DEF EscrowInv, LearnsByQuorum
    <2>4. OnChain \subseteq OnChain'
      BY DEF OnChain, EscrowInv, EscrowTypeOK
    <2>5. PlacesOfSenders(k) \subseteq PlacesOfSenders(k)'
      <3>1. SendersTo(k) \subseteq SendersTo(k)'
        BY <2>4 DEF SendersTo
      <3> QED
        BY <3>1 DEF PlacesOfSenders, Positions
    <2>6. IsFiniteSet(PlacesOfSenders(k)') /\ Cardinality(PlacesOfSenders(k)') \in Nat
      <3>1. FewSenders'
        BY <1>1, SendersAreHolders, PTL
      <3> QED
        BY <3>1 DEF FewSenders
    <2>7. Cardinality(PlacesOfSenders(k)) \in Nat /\ quorum \in Nat
      BY SendersAreHolders DEF EscrowInv, EscrowTypeOK, FewSenders
    <2>8. Cardinality(PlacesOfSenders(k)') >= Cardinality(PlacesOfSenders(k))
      BY <2>5, <2>6, FS_Subset
    <2>9. request'[p].status \in {"Approved", "Executed"} /\ voters'[p] = voters[p]
      BY <2>3 DEF EscrowInv, EscrowTypeOK
    <2>10. Cardinality(PlacesOfSenders(k)') >= quorum
      BY <2>2, <2>6, <2>7, <2>8
    <2> QED
      BY <2>3, <2>9, <2>10
  <1> QED
    BY <1>1, <1>2, <1>3 DEF EscrowInv

\* The invariant holds at the start.
LEMMA EscrowInitInv == EscrowInit => EscrowInv
  <1> SUFFICES ASSUME EscrowInit PROVE EscrowInv
    OBVIOUS
  <1>1. EscrowTypeOK
    BY EscrowAssumption DEF EscrowInit, EscrowTypeOK, RevealRequests, Statuses, NewRequest
  <1>2. ASSUME NEW r \in Requests
        PROVE  RequestOK(request[r], voters[r], submitted[r])
    <2>1. request[r] = NewRequest /\ voters[r] = {} /\ submitted[r] = {}
      BY DEF EscrowInit
    <2>2. Cardinality({}) = 0
      BY FS_EmptySet
    <2> QED
      BY <2>1, <2>2 DEF RequestOK, NewRequest
  <1> QED
    BY <1>1, <1>2 DEF EscrowInit, EscrowInv, LearnsByQuorum

\* Nothing changes in the voters of a request or in what was submitted.
LEMMA StatusStep ==
  ASSUME EscrowInv, UNCHANGED <<holders, quorum, handed, voters, submitted, learned>>,
         NEW r \in Requests, NEW q \in RevealRequests,
         request' = [request EXCEPT ![r] = q],
         request[r].status \in {"Approved", "Executed"} => q.status \in {"Approved", "Executed"},
         RequestOK(q, voters[r], submitted[r])
  PROVE  EscrowInv'
  <1>1. /\ voters' = [voters EXCEPT ![r] = voters[r]] /\ voters[r] \in SUBSET ToSet(holders)
        /\ submitted' = [submitted EXCEPT ![r] = submitted[r]]
        /\ submitted[r] \in SUBSET Submissions
    BY DEF EscrowInv, EscrowTypeOK
  <1> QED
    BY <1>1, OneRequest

\* A reveal is requested.
LEMMA RequestRevealInv ==
  ASSUME EscrowInv, NEW r \in Requests, RequestReveal(r)
  PROVE  EscrowInv'
  <1> DEFINE q == [request[r] EXCEPT !.status = "Pending"]
  <1>1. request[r] \in RevealRequests
    BY DEF EscrowInv, EscrowTypeOK
  <1>2. /\ q \in RevealRequests /\ q.status = "Pending"
        /\ q.approvals = request[r].approvals /\ q.rejections = request[r].rejections
        /\ request' = [request EXCEPT ![r] = q]
    BY <1>1 DEF RequestReveal, RevealRequests, Statuses
  <1> HIDE DEF q
  <1>3. RequestOK(request[r], voters[r], submitted[r]) /\ request[r].status = "None"
    BY DEF EscrowInv, RequestReveal
  <1>4. voters[r] = {} /\ Cardinality({}) = 0
    BY <1>3, FS_EmptySet DEF RequestOK
  <1>5. request[r].approvals = 0 /\ request[r].rejections = 0
    BY <1>1, <1>3, <1>4 DEF RequestOK, RevealRequests
  <1>6. RequestOK(q, voters[r], submitted[r])
    BY <1>2, <1>3, <1>4, <1>5 DEF RequestOK, EscrowInv, EscrowTypeOK
  <1> QED
    BY <1>2, <1>3, <1>6, StatusStep DEF RequestReveal

\* The voting period of a request runs out.
LEMMA LapseInv ==
  ASSUME EscrowInv, NEW r \in Requests, Lapse(r)
  PROVE  EscrowInv'
  <1> DEFINE q == [request[r] EXCEPT !.expired = TRUE]
  <1>1. request[r] \in RevealRequests
    BY DEF EscrowInv, EscrowTypeOK
  <1>2. /\ q \in RevealRequests /\ q.status = request[r].status
        /\ q.approvals = request[r].approvals /\ q.rejections = request[r].rejections
        /\ request' = [request EXCEPT ![r] = q]
    BY <1>1 DEF Lapse, RevealRequests
  <1> HIDE DEF q
  <1>3. RequestOK(q, voters[r], submitted[r])
    BY <1>2 DEF RequestOK, EscrowInv
  <1> QED
    BY <1>2, <1>3, StatusStep DEF Lapse

\* A request expires.
LEMMA ExpireRequestInv ==
  ASSUME EscrowInv, NEW r \in Requests, ExpireRequest(r)
  PROVE  EscrowInv'
  <1> DEFINE q == [request[r] EXCEPT !.status = "Expired"]
  <1>1. request[r] \in RevealRequests
    BY DEF EscrowInv, EscrowTypeOK
  <1>2. /\ q \in RevealRequests /\ q.status = "Expired"
        /\ q.approvals = request[r].approvals /\ q.rejections = request[r].rejections
        /\ request' = [request EXCEPT ![r] = q]
    BY <1>1 DEF ExpireRequest, RevealRequests, Statuses
  <1> HIDE DEF q
  <1>3. request[r].status = "Pending" /\ RequestOK(request[r], voters[r], submitted[r])
    BY DEF ExpireRequest, EscrowInv
  <1>4. RequestOK(q, voters[r], submitted[r])
    BY <1>2, <1>3 DEF RequestOK
  <1> QED
    BY <1>2, <1>3, <1>4, StatusStep DEF ExpireRequest

\* A reveal is executed.
LEMMA FinalizeRevealInv ==
  ASSUME EscrowInv, NEW r \in Requests, FinalizeReveal(r)
  PROVE  EscrowInv'
  <1> DEFINE q == [request[r] EXCEPT !.status = "Executed"]
  <1>1. request[r] \in RevealRequests
    BY DEF EscrowInv, EscrowTypeOK
  <1>2. /\ q \in RevealRequests /\ q.status = "Executed"
        /\ q.approvals = request[r].approvals /\ q.rejections = request[r].rejections
        /\ request' = [request EXCEPT ![r] = q]
    BY <1>1 DEF FinalizeReveal, RevealRequests, Statuses
  <1> HIDE DEF q
  <1>3. /\ request[r].status = "Approved" /\ RequestOK(request[r], voters[r], submitted[r])
        /\ Cardinality(submitted[r]) >= quorum
    BY DEF FinalizeReveal, EscrowInv
  <1>4. RequestOK(q, voters[r], submitted[r])
    BY <1>2, <1>3 DEF RequestOK
  <1> QED
    BY <1>2, <1>4, StatusStep DEF FinalizeReveal

\* A holder votes.
LEMMA VoteOnRevealInv ==
  ASSUME EscrowInv, NEW r \in Requests, NEW a, NEW approve \in BOOLEAN,
         VoteOnReveal(r, a, approve)
  PROVE  EscrowInv'
  <1> DEFINE approvals  == request[r].approvals + (IF approve THEN 1 ELSE 0)
             rejections == request[r].rejections + (IF approve THEN 0 ELSE 1)
             q == [status |-> Tallied(approvals, rejections),
                   approvals |-> approvals, rejections |-> rejections, expired |-> FALSE]
             V == voters[r] \cup {a}
  <1>1. /\ request[r] \in RevealRequests /\ request[r].status = "Pending"
        /\ RequestOK(request[r], voters[r], submitted[r])
        /\ voters[r] \in SUBSET ToSet(holders) /\ a \in ToSet(holders) \ voters[r]
        /\ submitted[r] \in SUBSET Submissions
    BY DEF EscrowInv, EscrowTypeOK, VoteOnReveal
  <1>2. /\ approvals \in Nat /\ rejections \in Nat
        /\ approvals + rejections = request[r].approvals + request[r].rejections + 1
    BY <1>1 DEF RevealRequests
  <1>3. /\ request' = [request EXCEPT ![r] = q]
        /\ voters' = [voters EXCEPT ![r] = V]
        /\ submitted' = [submitted EXCEPT ![r] = submitted[r]]
        /\ UNCHANGED <<holders, quorum, handed, learned>>
    BY DEF VoteOnReveal, EscrowInv, EscrowTypeOK
  <1>4. /\ q \in RevealRequests
        /\ q.status = Tallied(approvals, rejections)
        /\ q.approvals = approvals /\ q.rejections = rejections
    BY <1>2 DEF RevealRequests, Statuses, Tallied
  <1>5. V \in SUBSET ToSet(holders)
    BY <1>1
  <1>6. Cardinality(V) = Cardinality(voters[r]) + 1
    <2>1. IsFiniteSet(voters[r])
      BY <1>1, ListedAccounts, FS_Subset DEF EscrowInv, EscrowTypeOK
    <2> QED
      BY <1>1, <2>1, FS_AddElement
  <1>7. submitted[r] = {}
    BY <1>1 DEF RequestOK
  <1> HIDE DEF q, V, approvals, rejections
  <1>8. RequestOK(q, V, submitted[r])
    <2>1. q.approvals + q.rejections = Cardinality(V)
      BY <1>1, <1>2, <1>4, <1>6 DEF RequestOK
    <2>2. quorum \in Nat /\ Len(holders) \in Nat
      BY DEF EscrowInv, EscrowTypeOK
    <2>3. /\ q.status # "None" /\ q.status # "Executed"
          /\ q.status = "Pending" => q.approvals < quorum /\ q.rejections <= Len(holders) - quorum
          /\ q.status = "Rejected" => q.rejections > Len(holders) - quorum
          /\ q.status \in {"Approved", "Executed"} => q.approvals >= quorum
      BY <1>2, <1>4, <2>2 DEF Tallied
    <2> QED
      BY <1>7, <2>1, <2>3 DEF RequestOK
  <1> QED
    BY <1>1, <1>3, <1>4, <1>5, <1>8, OneRequest

\* What a holder can decrypt was handed to it, so what it seals is its own or made up.
LEMMA SealsOwn ==
  ASSUME EscrowTypeOK, NEW a \in ToSet(holders), NEW share \in SharesOf(a)
  PROVE  share \in SealableBy(a)
  <1>1. Positions \subseteq Nat
    BY DEF EscrowTypeOK, Positions
  <1>2. ASSUME NEW i \in Positions, DecryptsShare(a, i) PROVE decryptShare(i) \in SealableBy(a)
    <2>1. handed[i] = HandedOut(i)
      BY DEF EscrowTypeOK
    <2>2. decryptShare(i) = ShareOf(i)
      BY <2>1, DecryptedIs DEF decryptShare, HandedOut
    <2> DEFINE e == <<"handed", i>>
    <2>3. Decrypts(a, encrypt(getPublicKey(holders[i]), ShareOf(i), e))
      BY <1>2, <2>1 DEF DecryptsShare, HandedOut
    <2> HIDE DEF e
    <2>4. [hkdf |-> {e, holders[i]}] = [hkdf |-> {a, e}]
      BY <2>3 DEF Decrypts, encrypt, aesGcmOpens, aesGcmEncrypt, deriveKey, getSharedSecret,
                  getPublicKey
    <2>5. {e, holders[i]} = {a, e}
      <3>1. [hkdf |-> {e, holders[i]}].hkdf = [hkdf |-> {a, e}].hkdf
        BY <2>4
      <3> QED
        BY <3>1
    <2>6. holders[i] = a
      BY <2>5
    <2> QED
      BY <1>1, <2>2, <2>6 DEF ShareOf, SealableBy
  <1>3. ASSUME NEW i \in MadeUpIndices PROVE [index |-> i, genuine |-> FALSE] \in SealableBy(a)
    BY EscrowAssumption DEF EscrowAssumption, SealableBy
  <1> QED
    BY <1>2, <1>3 DEF SharesOf

\* A holder submits a share, through the SDK or not.
LEMMA SubmitShareInv ==
  ASSUME EscrowInv, NEW r \in Requests, NEW a \in ToSet(holders), NEW to \in Coordinators,
         NEW share \in SharesOf(a), SubmitShare(r, a, share, to) \/ SubmitDirectly(r, a, share, to)
  PROVE  EscrowInv'
  <1> DEFINE s == Submission(a, share, to, r)
             S == submitted[r] \cup {s}
  <1>1. /\ request[r].status = "Approved"
        /\ ~ \E u \in submitted[r] : u.holder = a
        /\ submitted' = [submitted EXCEPT ![r] = S]
        /\ UNCHANGED <<holders, quorum, handed, request, voters, learned>>
    BY DEF SubmitShare, SubmitDirectly, SubmitShareForReveal, Submission
  <1>2. share \in SealableBy(a)
    BY SealsOwn DEF EscrowInv
  <1>3. s \in Submissions /\ s.holder = a
    BY <1>2 DEF Submissions, Submission
  <1> HIDE DEF s
  <1>4. /\ RequestOK(request[r], voters[r], submitted[r])
        /\ request[r] \in RevealRequests
        /\ voters[r] \in SUBSET ToSet(holders)
        /\ submitted[r] \in SUBSET Submissions
    BY DEF EscrowInv, EscrowTypeOK
  <1>5. /\ request' = [request EXCEPT ![r] = request[r]]
        /\ voters' = [voters EXCEPT ![r] = voters[r]]
    BY <1>1 DEF EscrowInv, EscrowTypeOK
  <1>6. RequestOK(request[r], voters[r], S)
    BY <1>1, <1>3, <1>4 DEF RequestOK
  <1>7. S \in SUBSET Submissions
    BY <1>3, <1>4
  <1> HIDE DEF S
  <1>8. submitted[r] \subseteq S
    BY DEF S
  <1> QED
    BY <1>1, <1>4, <1>5, <1>6, <1>7, <1>8, OneRequest

\* A set of shares that opens the metadata has as many as the threshold, and is genuine.
LEMMA Opens ==
  ASSUME NEW pieces
  PROVE  DecryptsWithViewingKey(combinedKey(pieces), EncryptedMetadata)
           <=> Cardinality(pieces) >= quorum /\ \A s \in pieces : s.genuine
  <1> DEFINE enough == Cardinality(pieces) >= quorum /\ \A s \in pieces : s.genuine
  <1>1. DecryptsWithViewingKey(combinedKey(pieces), EncryptedMetadata)
          <=> ViewingKey = combinedKey(pieces)
    BY DEF DecryptsWithViewingKey, EncryptedMetadata, encryptWithViewingKey, aesGcmEncrypt,
           aesGcmOpens
  <1>2. ViewingKey = [combined |-> TRUE] /\ combinedKey(pieces) = [combined |-> enough]
    BY DEF ViewingKey, combinedKey
  <1>3. enough \in BOOLEAN
    OBVIOUS
  <1> HIDE DEF enough
  <1>4. [combined |-> TRUE] = [combined |-> enough] <=> enough
    <2>1. CASE enough
      <3>1. enough = TRUE
        BY <2>1, <1>3
      <3> QED
        BY <2>1, <3>1
    <2>2. CASE ~enough
      <3>1. enough = FALSE
        BY <2>2, <1>3
      <3>2. [combined |-> TRUE].combined # [combined |-> FALSE].combined
        OBVIOUS
      <3> QED
        BY <2>2, <3>1, <3>2
    <2> QED
      BY <2>1, <2>2
  <1> QED
    BY <1>1, <1>2, <1>4 DEF enough

\* Genuine shares that combine are those of as many places of their senders.
LEMMA SharesBySenders ==
  ASSUME EscrowTypeOK, NEW k, NEW pieces \in SUBSET Collected(k), Combines(pieces),
         \A x \in pieces : x.genuine
  PROVE  /\ Cardinality(pieces) \in Nat
         /\ Cardinality(pieces) <= Cardinality(PlacesOfSenders(k))
  <1> DEFINE g == [x \in pieces |-> x.index]
  <1>1. OnChain \subseteq Submissions
    BY DEF OnChain, EscrowTypeOK
  <1>2. ASSUME NEW x \in pieces PROVE x.index \in PlacesOfSenders(k)
    <2>1. PICK s \in OnChain : Decrypts(k, s.sealed) /\ decrypted(s.sealed) = x
      BY DEF Collected
    <2>2. s.holder \in SendersTo(k)
      BY <2>1, DecryptsOwn DEF SendersTo
    <2>3. x \in SealableBy(s.holder)
      BY <1>1, <2>1, SubmissionIs
    <2> QED
      BY <2>2, <2>3 DEF SealableBy, PlacesOfSenders
  <1>3. g \in [pieces -> PlacesOfSenders(k)]
    BY <1>2
  <1>4. g \in Injection(pieces, PlacesOfSenders(k))
    BY <1>3 DEF Combines, Injection, IsInjective
  <1>5. IsFiniteSet(PlacesOfSenders(k))
    BY SendersAreHolders DEF FewSenders
  <1> HIDE DEF g
  <1>6. IsFiniteSet(pieces) /\ Cardinality(pieces) <= Cardinality(PlacesOfSenders(k))
    BY <1>4, <1>5, FS_Injection
  <1> QED
    BY <1>6, FS_CardinalityType

\* A coordinator learns the key.
LEMMA ReconstructInv ==
  ASSUME EscrowInv, NEW k, ReconstructAndDecrypt(k)
  PROVE  EscrowInv'
  <1>1. UNCHANGED <<holders, quorum, handed, request, voters, submitted>>
    BY DEF ReconstructAndDecrypt
  <1>2. EscrowTypeOK'
    <2>1. Submissions' = Submissions /\ Positions' = Positions
      BY <1>1 DEF Submissions, Submission, SealableBy, Positions
    <2>2. [i \in Positions |-> HandedOut(i)]' = [i \in Positions |-> HandedOut(i)]
      BY <1>1 DEF HandedOut, Positions
    <2> QED
      BY <1>1, <2>1, <2>2 DEF EscrowInv, EscrowTypeOK
  <1>3. \A p \in Requests : RequestOK(request[p], voters[p], submitted[p])'
    BY <1>1 DEF EscrowInv, RequestOK
  <1>4. Cardinality(PlacesOfSenders(k)) >= quorum /\ \E r \in Requests : submitted[r] # {}
    <2>1. PICK pieces \in SUBSET Collected(k) : Restores(pieces)
      BY DEF ReconstructAndDecrypt
    <2>2. /\ Combines(pieces) /\ Cardinality(pieces) >= quorum
          /\ \A x \in pieces : x.genuine
      BY <2>1, Opens DEF Restores
    <2>3. /\ Cardinality(pieces) \in Nat
          /\ Cardinality(pieces) <= Cardinality(PlacesOfSenders(k))
      BY <2>2, SharesBySenders DEF EscrowInv
    <2>4. quorum \in Nat /\ quorum >= 2 /\ Cardinality(PlacesOfSenders(k)) \in Nat
      BY SendersAreHolders DEF EscrowInv, EscrowTypeOK, FewSenders
    <2>5. pieces # {}
      BY <2>2, <2>4, FS_EmptySet
    <2>6. OnChain # {}
      BY <2>5 DEF Collected
    <2> QED
      BY <2>2, <2>3, <2>4, <2>6 DEF OnChain
  <1>5. PICK r \in Requests : submitted[r] # {}
    BY <1>4
  <1>6. request[r].status \in {"Approved", "Executed"} /\ Cardinality(voters[r]) >= quorum
    <2>1. /\ RequestOK(request[r], voters[r], submitted[r]) /\ request[r] \in RevealRequests
          /\ quorum \in Nat
      BY DEF EscrowInv, EscrowTypeOK
    <2> QED
      BY <1>5, <2>1 DEF RequestOK, RevealRequests
  <1>7. LearnsByQuorum'
    <2>1. SUFFICES ASSUME NEW c \in learned'
                   PROVE  /\ Cardinality(PlacesOfSenders(c)) >= quorum
                          /\ \E p \in Requests : /\ request[p].status \in {"Approved", "Executed"}
                                                 /\ Cardinality(voters[p]) >= quorum
      BY <1>1 DEF LearnsByQuorum, PlacesOfSenders, Positions, SendersTo, OnChain
    <2>2. CASE c \in learned
      BY <2>2 DEF EscrowInv, LearnsByQuorum
    <2>3. CASE c = k
      BY <1>4, <1>6, <2>3
    <2> QED
      BY <2>1, <2>2, <2>3 DEF ReconstructAndDecrypt
  <1> QED
    BY <1>2, <1>3, <1>7 DEF EscrowInv

\* Every step keeps the invariant.
LEMMA EscrowNextInv == EscrowInv /\ [EscrowNext]_escrowVars => EscrowInv'
  <1> SUFFICES ASSUME EscrowInv, [EscrowNext]_escrowVars PROVE EscrowInv'
    OBVIOUS
  <1>1. ASSUME NEW r \in Requests, RequestStep(r) PROVE EscrowInv'
    BY <1>1, RequestRevealInv, LapseInv, ExpireRequestInv, FinalizeRevealInv, VoteOnRevealInv,
       SubmitShareInv DEF RequestStep
  <1>2. ASSUME NEW k \in Coordinators, ReconstructAndDecrypt(k) PROVE EscrowInv'
    BY <1>2, ReconstructInv
  <1>3. CASE UNCHANGED escrowVars
    <2>1. UNCHANGED <<holders, quorum, handed, request, voters, submitted, learned>>
      BY <1>3 DEF escrowVars
    <2>2. Submissions' = Submissions /\ Positions' = Positions
      BY <2>1 DEF Submissions, Submission, SealableBy, Positions
    <2>3. [i \in Positions |-> HandedOut(i)]' = [i \in Positions |-> HandedOut(i)]
      BY <2>1 DEF HandedOut, Positions
    <2>4. EscrowTypeOK'
      BY <2>1, <2>2, <2>3 DEF EscrowInv, EscrowTypeOK
    <2>5. LearnsByQuorum'
      BY <2>1 DEF EscrowInv, LearnsByQuorum, PlacesOfSenders, Positions, SendersTo, OnChain
    <2> QED
      BY <2>1, <2>4, <2>5 DEF EscrowInv, RequestOK
  <1> QED
    BY <1>1, <1>2, <1>3 DEF EscrowNext

\* That a vote is closed when it is decided is arithmetic on what was counted.
LEMMA VotesDecideFollows == EscrowInv => VotesDecide
  <1> SUFFICES ASSUME EscrowInv, NEW r \in Requests
               PROVE  LET q    == request[r]
                          left == Cardinality(ToSet(holders) \ voters[r])
                      IN /\ q.status = "Pending"
                              => q.approvals < quorum /\ q.rejections <= Len(holders) - quorum
                         /\ q.status = "Rejected" => q.approvals + left < quorum
                         /\ q.status = "Pending" /\ IsInjective(holders)
                              => /\ q.approvals + left >= quorum
                                 /\ q.rejections + left > Len(holders) - quorum
                         /\ q.status \in {"Approved", "Executed"} => q.approvals >= quorum
    BY DEF VotesDecide
  <1> DEFINE all  == Cardinality(ToSet(holders))
             left == Cardinality(ToSet(holders) \ voters[r])
             cast == Cardinality(voters[r])
             a == request[r].approvals
             b == request[r].rejections
  <1>1. /\ IsFiniteSet(ToSet(holders)) /\ all \in Nat /\ all <= Len(holders)
        /\ IsInjective(holders) => all = Len(holders)
    BY ListedAccounts DEF EscrowInv, EscrowTypeOK
  <1>2. left = all - cast /\ cast \in Nat
    <2>1. voters[r] \subseteq ToSet(holders)
      BY DEF EscrowInv, EscrowTypeOK
    <2>2. IsFiniteSet(voters[r])
      BY <1>1, <2>1, FS_Subset
    <2>3. ToSet(holders) \cap voters[r] = voters[r]
      BY <2>1
    <2> QED
      <3>1. left = all - Cardinality(ToSet(holders) \cap voters[r])
        BY <1>1, FS_Difference
      <3>2. cast \in Nat
        BY <2>2, FS_CardinalityType
      <3> QED
        BY <2>3, <3>1, <3>2
  <1>3. /\ RequestOK(request[r], voters[r], submitted[r]) /\ request[r] \in RevealRequests
        /\ quorum \in Nat /\ Len(holders) \in Nat
    BY DEF EscrowInv, EscrowTypeOK
  <1>4. a \in Nat /\ b \in Nat /\ a + b = cast
    BY <1>3 DEF RequestOK, RevealRequests
  <1>5. /\ request[r].status = "Pending" => a < quorum /\ b <= Len(holders) - quorum
        /\ request[r].status = "Rejected" => b > Len(holders) - quorum
        /\ request[r].status \in {"Approved", "Executed"} => a >= quorum
    BY <1>3 DEF RequestOK
  <1> HIDE DEF all, left, cast, a, b
  <1>6. /\ request[r].status = "Rejected" => a + left < quorum
        /\ request[r].status = "Pending" /\ IsInjective(holders)
             => a + left >= quorum /\ b + left > Len(holders) - quorum
    BY <1>1, <1>2, <1>3, <1>4, <1>5
  <1> QED
    BY <1>5, <1>6 DEF left, a, b

\* Different submissions of a request hold different shares, so they combine.
LEMMA ExecutedOpensFollows == EscrowInv => ExecutedOpens
  <1> SUFFICES ASSUME EscrowInv, NEW r \in Requests, request[r].status = "Executed",
                      \A s \in submitted[r] : decrypted(s.sealed).genuine
               PROVE  Restores({decrypted(s.sealed) : s \in submitted[r]})
    BY DEF ExecutedOpens
  <1> DEFINE S == submitted[r]
             pieces == {decrypted(s.sealed) : s \in S}
             g == [s \in S |-> decrypted(s.sealed)]
  <1>1. /\ S \subseteq Submissions /\ EscrowTypeOK /\ quorum \in Nat /\ quorum >= 2
        /\ RequestOK(request[r], voters[r], S)
    BY DEF EscrowInv, EscrowTypeOK
  <1>2. ASSUME NEW s \in S, NEW u \in S, decrypted(s.sealed).index = decrypted(u.sealed).index
        PROVE  s = u
    <2>1. s.holder = u.holder
      BY <1>1, <1>2, SameIndex
    <2> QED
      BY <1>1, <2>1 DEF RequestOK
  <1>3. IsFiniteSet(S)
    <2> DEFINE h == [s \in S |-> s.holder]
    <2>1. h \in [S -> ToSet(holders)]
      BY <1>1, SubmissionIs
    <2>2. h \in Injection(S, ToSet(holders))
      BY <1>1, <2>1 DEF RequestOK, Injection, IsInjective
    <2>3. IsFiniteSet(ToSet(holders))
      BY ListedAccounts DEF EscrowInv, EscrowTypeOK
    <2> HIDE DEF h
    <2> QED
      BY <2>2, <2>3, FS_Injection
  <1>4. Cardinality(pieces) = Cardinality(S)
    <2>1. g \in Injection(S, pieces) /\ g \in Surjection(S, pieces)
      BY <1>2 DEF Injection, Surjection, IsInjective
    <2> HIDE DEF g, pieces
    <2> QED
      BY <1>3, <2>1, FS_Surjection
  <1>5. Cardinality(S) >= quorum /\ Cardinality(S) \in Nat
    BY <1>1, <1>3, FS_CardinalityType DEF RequestOK
  <1>6. Combines(pieces)
    <2>1. \A x, y \in pieces : x.index = y.index => x = y
      BY <1>2
    <2>2. Cardinality(pieces) >= 2
      BY <1>1, <1>4, <1>5
    <2> QED
      BY <2>1, <2>2 DEF Combines
  <1>7. \A x \in pieces : x.genuine
    OBVIOUS
  <1> HIDE DEF pieces
  <1>8. DecryptsWithViewingKey(combinedKey(pieces), EncryptedMetadata)
    BY <1>4, <1>5, <1>7, Opens
  <1> QED
    BY <1>6, <1>8 DEF Restores, pieces

\* For every list of holders, threshold and number of requests: whoever learns
\* the viewing key was sent shares by accounts that hold a quorum of the places, on
\* a request that a quorum of accounts approved, votes are closed when their outcome
\* is certain and, where each account is listed once, not before, and an executed
\* reveal whose shares are genuine opens the metadata
\* (ComplianceEscrow under ViewingKeySDK).
THEOREM HoldersDecideHolds == EscrowSpec => []HoldersDecide
  <1>1. EscrowInit => EscrowInv
    BY EscrowInitInv
  <1>2. EscrowInv /\ [EscrowNext]_escrowVars => EscrowInv'
    BY EscrowNextInv
  <1>3. EscrowInv => HoldersDecide
    BY VotesDecideFollows, ExecutedOpensFollows DEF HoldersDecide, EscrowInv
  <1> QED
    BY <1>1, <1>2, <1>3, PTL DEF EscrowSpec

----------------------------------------------------------------------------
(* What the code computes modulo the order.                                *)

BlsField == IsField(Scalars, ModAdd(order), ModMul(order), ModSub(order))

LEMMA OrderIsPrime ==
  /\ order \in Nat \ {0} /\ order \in Nat \ {0, 1} /\ IsPrime(order)
  /\ Scalars = Residues(order) /\ IsFiniteSet(Scalars) /\ Signers \subseteq Scalars
  <1>1. order \in Nat /\ participants \in 1 .. order - 1
    BY BlsAssumption
  <1>2. order \in Nat \ {0, 1}
    BY <1>1
  <1>3. IsPrime(order)
    BY <1>2, BlsAssumption DEF IsPrime
  <1>4. IsFiniteSet(Scalars)
    BY <1>1, FS_Interval DEF Scalars
  <1> QED
    BY <1>1, <1>2, <1>3, <1>4 DEF Residues, Scalars, Signers

LEMMA ScalarField ==
  /\ BlsField
  /\ Monoid(Scalars, ModAdd(order), 0)
  /\ Monoid(Scalars, ModMul(order), 1)
  /\ \A x, y \in Scalars : /\ ModAdd(order)[x][y] = (x + y) % order
                           /\ ModMul(order)[x][y] = (x * y) % order
                           /\ ModSub(order)[x][y] = (x - y) % order
  /\ \A x \in Scalars : x \in Int /\ x \in Nat /\ x % order = x
  /\ \A x \in Int : x % order \in Scalars
  <1>1. IsField(Residues(order), ModAdd(order), ModMul(order), ModSub(order))
    BY OrderIsPrime, PrimeField
  <1>2. BlsField
    BY <1>1, OrderIsPrime DEF BlsField
  <1>3. Monoid(Scalars, ModAdd(order), 0) /\ Monoid(Scalars, ModMul(order), 1)
    BY <1>2, FieldMonoids DEF BlsField
  <1>4. \A x, y \in Scalars : /\ ModAdd(order)[x][y] = (x + y) % order
                              /\ ModMul(order)[x][y] = (x * y) % order
                              /\ ModSub(order)[x][y] = (x - y) % order
    BY OrderIsPrime DEF ModAdd, ModMul, ModSub
  <1>5. \A x \in Scalars : x \in Int /\ x \in Nat /\ x % order = x
    BY OrderIsPrime, ResidueIs DEF Scalars
  <1>6. \A x \in Int : x % order \in Scalars
    BY OrderIsPrime, ResidueType
  <1> QED
    BY <1>2, <1>3, <1>4, <1>5, <1>6

\* The recursions behind SumMod and ProductMod.
IsSumMod(f, S, it) ==
  it = [T \in SUBSET S |-> IF T = {} THEN 0
                           ELSE (it[T \ {Chosen(T)}] + f[Chosen(T)]) % order]

IsProductMod(f, S, it) ==
  it = [T \in SUBSET S |-> IF T = {} THEN 1
                           ELSE (it[T \ {Chosen(T)}] * f[Chosen(T)]) % order]

Reduced(f) == [i \in DOMAIN f |-> f[i] % order]

LEMMA SumModUnfolds ==
  ASSUME NEW f
  PROVE  SumMod(f) = (CHOOSE it : IsSumMod(f, DOMAIN f, it))[DOMAIN f]
  BY DEF SumMod, FoldFunction, FoldFunctionOnSet, MapThenFoldSet, IsSumMod, Chosen

LEMMA ProductModUnfolds ==
  ASSUME NEW f
  PROVE  ProductMod(f) = (CHOOSE it : IsProductMod(f, DOMAIN f, it))[DOMAIN f]
  BY DEF ProductMod, FoldFunction, FoldFunctionOnSet, MapThenFoldSet, IsProductMod, Chosen

LEMMA SumModIsFold ==
  ASSUME NEW S, IsFiniteSet(S), NEW f \in [S -> Int]
  PROVE  SumMod(f) = Fold(ModAdd(order), 0, Reduced(f), S)
  <1> DEFINE g  == Reduced(f)
             op == ModAdd(order)
             jt == [T \in SUBSET S |-> Fold(op, 0, g, T)]
             it == CHOOSE it : IsSumMod(f, DOMAIN f, it)
  <1>1. DOMAIN f = S /\ Monoid(Scalars, op, 0)
    BY ScalarField
  <1>2. \A i \in S : g[i] = f[i] % order /\ g[i] \in Scalars /\ f[i] \in Int
    BY <1>1, ScalarField DEF Reduced
  <1>3. \A T \in SUBSET S : IsFiniteSet(T) /\ ValuesIn(Scalars, g, T)
    BY <1>2, FS_Subset DEF ValuesIn
  <1>4. Fold(op, 0, g, {}) = 0
    BY <1>1, FoldEmpty
  <1> HIDE DEF g, op
  <1>5. ASSUME NEW T \in SUBSET S, T # {}
        PROVE  /\ Chosen(T) \in T
               /\ Fold(op, 0, g, T) = (Fold(op, 0, g, T \ {Chosen(T)}) + f[Chosen(T)]) % order
    <2> DEFINE c == Chosen(T)
               v == Fold(op, 0, g, T \ {c})
    <2>1. c \in T /\ Takes(op, 0, g, T, c)
      BY <1>1, <1>3, <1>5, FoldChosen
    <2>2. v \in Scalars
      BY <1>1, <1>3, FoldType
    <2>3. Fold(op, 0, g, T) = op[g[c]][v]
      BY <2>1 DEF Takes
    <2>4. c \in S
      BY <2>1
    <2> HIDE DEF c, v
    <2>5. op[g[c]][v] = (g[c] + v) % order
      BY <1>2, <2>2, <2>4, ScalarField DEF op
    <2>6. g[c] = f[c] % order /\ f[c] \in Int /\ v \in Int
      BY <1>2, <2>2, <2>4, ScalarField
    <2>7. ((f[c] % order) + v) % order = (f[c] + v) % order
      BY <2>6, OrderIsPrime, RemainderOfSum
    <2>8. f[c] + v = v + f[c]
      BY <2>6
    <2> QED
      BY <2>1, <2>3, <2>5, <2>6, <2>7, <2>8 DEF c, v
  <1>6. IsSumMod(f, S, jt)
    BY <1>4, <1>5 DEF IsSumMod
  <1>7. IsSumMod(f, S, it)
    BY <1>1, <1>6
  <1> HIDE DEF it
  <1> DEFINE J      == SUBSET S
             Good   == {T \in J : it[T] = jt[T]}
             rank   == ChoiceRank(S)
             before == ChoiceBefore(S)
  <1>8. J \cap {{}} \subseteq Good
    BY <1>6, <1>7 DEF IsSumMod
  <1>9. \A T \in J \ {{}} : before[T] \in Good => T \in Good
    <2>1. ASSUME NEW T \in J \ {{}}, before[T] \in Good
          PROVE  T \in Good
      <3>1. it[T \ {Chosen(T)}] = jt[T \ {Chosen(T)}]
        BY <2>1 DEF ChoiceBefore
      <3>2. it[T] = (it[T \ {Chosen(T)}] + f[Chosen(T)]) % order
        BY <1>7 DEF IsSumMod
      <3> HIDE DEF jt
      <3>3. jt[T] = (jt[T \ {Chosen(T)}] + f[Chosen(T)]) % order
        BY <1>6 DEF IsSumMod
      <3> QED
        BY <3>1, <3>2, <3>3
    <2> QED
      BY <2>1
  <1>10. J \subseteq Good
    <2>1. rank \in [J -> Nat] /\ Founded(J, {{}}, rank, before)
      BY ChoosingEnds
    <2> HIDE DEF J, Good, rank, before
    <2> QED
      BY <1>8, <1>9, <2>1, AlongTheRanks
  <1>11. it[S] = Fold(op, 0, g, S)
    BY <1>10
  <1> QED
    BY <1>1, <1>11, SumModUnfolds DEF it, op, g

LEMMA ProductModIsFold ==
  ASSUME NEW S, IsFiniteSet(S), NEW f \in [S -> Int]
  PROVE  ProductMod(f) = Fold(ModMul(order), 1, Reduced(f), S)
  <1> DEFINE g  == Reduced(f)
             op == ModMul(order)
             jt == [T \in SUBSET S |-> Fold(op, 1, g, T)]
             it == CHOOSE it : IsProductMod(f, DOMAIN f, it)
  <1>1. DOMAIN f = S /\ Monoid(Scalars, op, 1)
    BY ScalarField
  <1>2. \A i \in S : g[i] = f[i] % order /\ g[i] \in Scalars /\ f[i] \in Int
    BY <1>1, ScalarField DEF Reduced
  <1>3. \A T \in SUBSET S : IsFiniteSet(T) /\ ValuesIn(Scalars, g, T)
    BY <1>2, FS_Subset DEF ValuesIn
  <1>4. Fold(op, 1, g, {}) = 1
    BY <1>1, FoldEmpty
  <1> HIDE DEF g, op
  <1>5. ASSUME NEW T \in SUBSET S, T # {}
        PROVE  /\ Chosen(T) \in T
               /\ Fold(op, 1, g, T) = (Fold(op, 1, g, T \ {Chosen(T)}) * f[Chosen(T)]) % order
    <2> DEFINE c == Chosen(T)
               v == Fold(op, 1, g, T \ {c})
    <2>1. c \in T /\ Takes(op, 1, g, T, c)
      BY <1>1, <1>3, <1>5, FoldChosen
    <2>2. v \in Scalars
      BY <1>1, <1>3, FoldType
    <2>3. Fold(op, 1, g, T) = op[g[c]][v]
      BY <2>1 DEF Takes
    <2>4. c \in S
      BY <2>1
    <2> HIDE DEF c, v
    <2>5. op[g[c]][v] = (g[c] * v) % order
      BY <1>2, <2>2, <2>4, ScalarField DEF op
    <2>6. g[c] = f[c] % order /\ f[c] \in Int /\ v \in Int
      BY <1>2, <2>2, <2>4, ScalarField
    <2>7. ((f[c] % order) * v) % order = (f[c] * v) % order
      BY <2>6, OrderIsPrime, RemainderOfProduct
    <2>8. f[c] * v = v * f[c]
      BY <2>6
    <2> QED
      BY <2>1, <2>3, <2>5, <2>6, <2>7, <2>8 DEF c, v
  <1>6. IsProductMod(f, S, jt)
    BY <1>4, <1>5 DEF IsProductMod
  <1>7. IsProductMod(f, S, it)
    BY <1>1, <1>6
  <1> HIDE DEF it
  <1> DEFINE J      == SUBSET S
             Good   == {T \in J : it[T] = jt[T]}
             rank   == ChoiceRank(S)
             before == ChoiceBefore(S)
  <1>8. J \cap {{}} \subseteq Good
    BY <1>6, <1>7 DEF IsProductMod
  <1>9. \A T \in J \ {{}} : before[T] \in Good => T \in Good
    <2>1. ASSUME NEW T \in J \ {{}}, before[T] \in Good
          PROVE  T \in Good
      <3>1. it[T \ {Chosen(T)}] = jt[T \ {Chosen(T)}]
        BY <2>1 DEF ChoiceBefore
      <3>2. it[T] = (it[T \ {Chosen(T)}] * f[Chosen(T)]) % order
        BY <1>7 DEF IsProductMod
      <3> HIDE DEF jt
      <3>3. jt[T] = (jt[T \ {Chosen(T)}] * f[Chosen(T)]) % order
        BY <1>6 DEF IsProductMod
      <3> QED
        BY <3>1, <3>2, <3>3
    <2> QED
      BY <2>1
  <1>10. J \subseteq Good
    <2>1. rank \in [J -> Nat] /\ Founded(J, {{}}, rank, before)
      BY ChoosingEnds
    <2> HIDE DEF J, Good, rank, before
    <2> QED
      BY <1>8, <1>9, <2>1, AlongTheRanks
  <1>11. it[S] = Fold(op, 1, g, S)
    BY <1>10
  <1> QED
    BY <1>1, <1>11, ProductModUnfolds DEF it, op, g

----------------------------------------------------------------------------
(* Powers and inverses.                                                    *)

\* The recursion behind modPow.
ModPowStep(from, e, b, result) ==
  IF e = 0 THEN result
  ELSE from[e \div 2][(b * b) % order][IF e % 2 = 1 THEN (result * b) % order ELSE result]

IsModPow(from, exp) ==
  from = [e \in 0 .. exp |->
            [b \in Scalars |-> [result \in Scalars |-> ModPowStep(from, e, b, result)]]]

LEMMA ModPowUnfolds ==
  ASSUME NEW base, NEW exp
  PROVE  modPow(base, exp) = (CHOOSE from : IsModPow(from, exp))[exp][base % order][1]
  BY DEF modPow, IsModPow, ModPowStep

LEMMA ModPowSteps ==
  ASSUME NEW exp, NEW from, IsModPow(from, exp),
         NEW e \in 0 .. exp, NEW b \in Scalars, NEW result \in Scalars
  PROVE  from[e][b][result] = ModPowStep(from, e, b, result)
  <1>1. from[e] = [c \in Scalars |-> [r \in Scalars |-> ModPowStep(from, e, c, r)]]
    BY DEF IsModPow
  <1>2. from[e][b] = [r \in Scalars |-> ModPowStep(from, e, b, r)]
    BY <1>1
  <1> QED
    BY <1>2

ScalarPower(b) == Powers(Scalars, ModMul(order), 1, b)

\* Square and multiply computes the power.
LEMMA ModPowIsPower ==
  ASSUME NEW base \in Int, NEW exp \in Nat
  PROVE  modPow(base, exp) = ScalarPower(base % order)[exp]
  <1> DEFINE F   == Scalars
             mul == ModMul(order)
             jt  == [e \in 0 .. exp |-> [b \in F |-> [r \in F |-> mul[r][ScalarPower(b)[e]]]]]
             it  == CHOOSE from : IsModPow(from, exp)
  <1>1. Monoid(F, mul, 1) /\ 1 \in F
    BY ScalarField DEF Monoid
  <1>2. \A b \in F : /\ ScalarPower(b)[0] = 1
                     /\ \A n \in Nat : /\ ScalarPower(b)[n] \in F
                                       /\ ScalarPower(b)[n + 1] = mul[b][ScalarPower(b)[n]]
    BY <1>1, PowersAre DEF ScalarPower
  <1>3. \A x, y \in F : mul[x][y] = (x * y) % order /\ mul[x][y] \in F
    BY <1>1, ScalarField DEF Monoid
  <1>4. \A b \in F : \A n \in Nat : ScalarPower(mul[b][b])[n] = ScalarPower(b)[2 * n]
    BY <1>1, PowersOfSquare DEF ScalarPower
  <1> HIDE DEF mul, F
  <1>5. ASSUME NEW e \in 0 .. exp, NEW b \in F, NEW r \in F, e # 0
        PROVE  /\ e \div 2 \in 0 .. exp /\ e \div 2 < e
               /\ (b * b) % order \in F
               /\ (IF e % 2 = 1 THEN (r * b) % order ELSE r) \in F
               /\ mul[r][ScalarPower(b)[e]]
                    = mul[IF e % 2 = 1 THEN (r * b) % order ELSE r]
                         [ScalarPower((b * b) % order)[e \div 2]]
    <2> DEFINE k == e \div 2
               d == k + k
               P == ScalarPower(b)
               v == P[d]
    <2>1. k \in Nat /\ e \in Nat /\ k \in 0 .. exp /\ k < e /\ d \in Nat /\ 2 * k = d
          /\ e = d + (e % 2) /\ e % 2 \in {0, 1}
      BY <1>5
    <2>2. ScalarPower((b * b) % order)[k] = v
      <3>1. (b * b) % order = mul[b][b]
        BY <1>3
      <3>2. ScalarPower(mul[b][b])[k] = ScalarPower(b)[2 * k]
        <4>1. k \in Nat
          BY <2>1
        <4> HIDE DEF k
        <4> QED
          BY <1>4, <4>1
      <3>3. 2 * k = d
        BY <2>1
      <3> HIDE DEF k, d
      <3> QED
        BY <3>1, <3>2, <3>3
    <2>3. v \in F /\ P[d + 1] = mul[b][v]
      BY <1>2, <2>1
    <2> HIDE DEF k, d, P, v
    <2>4. CASE e % 2 = 1
      <3>1. e = d + 1
        BY <2>1, <2>4
      <3>2. mul[mul[r][b]][v] = mul[r][mul[b][v]]
        BY <1>1, <2>3, MonoidAssociates
      <3>3. (r * b) % order = mul[r][b] /\ (r * b) % order \in F
        BY <1>3
      <3>4. P[e] = mul[b][v]
        BY <2>3, <3>1
      <3> QED
        BY <1>3, <2>1, <2>2, <2>4, <3>2, <3>3, <3>4 DEF k, P
    <2>5. CASE e % 2 = 0
      <3>1. e = d
        BY <2>1, <2>5
      <3>2. P[e] = v
        BY <3>1 DEF v
      <3> QED
        BY <1>3, <2>1, <2>2, <2>5, <3>2 DEF k, P
    <2> QED
      BY <2>1, <2>4, <2>5
  <1>6. IsModPow(jt, exp)
    <2>1. ASSUME NEW e \in 0 .. exp, NEW b \in F, NEW r \in F
          PROVE  jt[e][b][r] = ModPowStep(jt, e, b, r)
      <3>1. CASE e = 0
        <4>1. mul[r][ScalarPower(b)[0]] = r
          BY <1>1, <1>2, MonoidNeutral
        <4> QED
          BY <3>1, <4>1 DEF ModPowStep
      <3>2. CASE e # 0
        BY <1>5, <3>2 DEF ModPowStep
      <3> QED
        BY <3>1, <3>2
    <2>2. \A e \in 0 .. exp : \A b \in F :
            jt[e][b] = [r \in F |-> mul[r][ScalarPower(b)[e]]]
      OBVIOUS
    <2>3. \A e \in 0 .. exp : jt[e] = [b \in F |-> jt[e][b]]
      OBVIOUS
    <2>4. jt = [e \in 0 .. exp |-> jt[e]]
      OBVIOUS
    <2> HIDE DEF jt
    <2>5. \A e \in 0 .. exp : \A b \in F : jt[e][b] = [r \in F |-> ModPowStep(jt, e, b, r)]
      BY <2>1, <2>2
    <2>6. \A e \in 0 .. exp :
            jt[e] = [b \in F |-> [r \in F |-> ModPowStep(jt, e, b, r)]]
      BY <2>3, <2>5
    <2>7. jt = [e \in 0 .. exp |-> [b \in F |-> [r \in F |-> ModPowStep(jt, e, b, r)]]]
      BY <2>4, <2>6
    <2> QED
      BY <2>7 DEF IsModPow, F
  <1>7. IsModPow(it, exp)
    BY <1>6
  <1>15. \A e \in 0 .. exp : \A b, r \in F : /\ it[e][b][r] = ModPowStep(it, e, b, r)
                                             /\ jt[e][b][r] = ModPowStep(jt, e, b, r)
    <2> HIDE DEF it, jt
    <2> QED
      BY <1>6, <1>7, ModPowSteps DEF F
  <1> DEFINE I      == 0 .. exp
             Good   == {e \in I : \A b, r \in F : it[e][b][r] = jt[e][b][r]}
             rank   == [e \in I |-> e]
             before == [e \in I |-> e \div 2]
  <1> HIDE DEF it
  <1>8. I \cap {0} \subseteq Good
    <2>1. 0 \in I => \A b, r \in F : it[0][b][r] = r /\ jt[0][b][r] = r
      <3> HIDE DEF jt
      <3> QED
        BY <1>15 DEF ModPowStep
    <2> QED
      BY <2>1
  <1>9. \A e \in I \ {0} : before[e] \in Good => e \in Good
    <2>1. ASSUME NEW e \in I \ {0}, before[e] \in Good, NEW b \in F, NEW r \in F
          PROVE  it[e][b][r] = jt[e][b][r]
      <3> DEFINE s == IF e % 2 = 1 THEN (r * b) % order ELSE r
      <3>1. e \div 2 \in 0 .. exp /\ (b * b) % order \in F /\ s \in F
        BY <1>5
      <3>2. it[e \div 2][(b * b) % order][s] = jt[e \div 2][(b * b) % order][s]
        BY <2>1, <3>1
      <3> HIDE DEF jt
      <3>3. /\ it[e][b][r] = it[e \div 2][(b * b) % order][s]
            /\ jt[e][b][r] = jt[e \div 2][(b * b) % order][s]
        BY <1>15 DEF ModPowStep
      <3> QED
        BY <3>2, <3>3
    <2> QED
      BY <2>1
  <1>10. rank \in [I -> Nat] /\ Founded(I, {0}, rank, before)
    BY DEF Founded
  <1>11. I \subseteq Good
    <2> HIDE DEF I, Good, rank, before
    <2> QED
      BY <1>8, <1>9, <1>10, AlongTheRanks
  <1>12. base % order \in F /\ exp \in I
    BY ScalarField DEF F
  <1>13. it[exp][base % order][1] = mul[1][ScalarPower(base % order)[exp]]
    BY <1>1, <1>11, <1>12
  <1>14. mul[1][ScalarPower(base % order)[exp]] = ScalarPower(base % order)[exp]
    BY <1>1, <1>2, <1>12, MonoidNeutral
  <1> QED
    BY <1>13, <1>14, ModPowUnfolds DEF it

\* By Fermat's theorem, modInverse inverts.
LEMMA ModInverseInverts ==
  ASSUME NEW a \in Scalars \ {0}
  PROVE  modInverse(a) \in Scalars /\ ModMul(order)[modInverse(a)][a] = 1
  <1> DEFINE mul == ModMul(order)
             P == ScalarPower(a)
  <1>1. order - 2 \in Nat /\ (order - 2) + 1 = order - 1
    BY OrderIsPrime
  <1>2. a \in Int /\ a % order = a /\ Monoid(Scalars, mul, 1)
    BY ScalarField
  <1>3. modInverse(a) = P[order - 2]
    BY <1>1, <1>2, ModPowIsPower DEF modInverse
  <1>4. P[order - 2] \in Scalars /\ P[order - 1] = mul[a][P[order - 2]]
    BY <1>1, <1>2, PowersAre DEF ScalarPower
  <1>5. Cardinality(Scalars \ {0}) = order - 1
    <2> DEFINE m == order - 1
    <2>1. Scalars \ {0} = 1 .. m
      BY OrderIsPrime DEF Scalars
    <2>2. m \in Int /\ 1 <= m
      BY OrderIsPrime
    <2> HIDE DEF m
    <2>3. Cardinality(1 .. m) = m - 1 + 1
      BY <2>2, FS_Interval
    <2>5. m - 1 + 1 = m
      BY <2>2
    <2>4. Cardinality(Scalars \ {0}) = m
      BY <2>1, <2>3, <2>5
    <2> QED
      BY <2>4 DEF m
  <1>6. P[order - 1] = 1
    <2> DEFINE add == ModAdd(order)
               sub == ModSub(order)
    <2>3. IsField(Scalars, add, mul, sub) /\ IsFiniteSet(Scalars)
      BY ScalarField, OrderIsPrime DEF BlsField
    <2> HIDE DEF mul, add, sub
    <2>1. Powers(Scalars, mul, 1, a)[Cardinality(Scalars \ {0})] = 1
      BY <2>3, Fermat
    <2> QED
      BY <1>5, <2>1 DEF ScalarPower, mul
  <1>7. mul[a][P[order - 2]] = mul[P[order - 2]][a]
    BY <1>2, <1>4, Commutes
  <1> QED
    BY <1>3, <1>4, <1>6, <1>7

----------------------------------------------------------------------------
(* Polynomials and interpolation.                                          *)

BlsWeight(S, i) == Weight(Scalars, ModMul(order), ModSub(order), S, i)
BlsInterpolated(S, y) == Interpolated(Scalars, ModAdd(order), ModMul(order), ModSub(order), S, y)

\* computeLagrangeCoefficient computes the weight.
LEMMA CoefficientIsWeight ==
  ASSUME NEW S \in SUBSET Signers, NEW i \in S
  PROVE  computeLagrangeCoefficient(i, S) = BlsWeight(S, i) /\ BlsWeight(S, i) \in Scalars
  <1> DEFINE F   == Scalars
             add == ModAdd(order)
             mul == ModMul(order)
             sub == ModSub(order)
             R   == S \ {i}
             fn  == [j \in R |-> j]
             fd  == [j \in R |-> (j - i) % order]
             n   == ProductMod(fn)
             d   == ProductMod(fd)
             v   == modInverse(d)
  <1>1. IsField(F, add, mul, sub) /\ Monoid(F, mul, 1)
    BY ScalarField DEF BlsField
  <1>2. S \in SUBSET F /\ IsFiniteSet(S) /\ IsFiniteSet(R) /\ i \in F
    <2>1. S \in SUBSET F
      BY OrderIsPrime
    <2> QED
      BY <2>1, OrderIsPrime, FS_Subset
  <1>3. n = Numerator(F, mul, S, i)
    <2>1. fn \in [R -> Int]
      BY <1>2, ScalarField
    <2>2. \A j \in R : Reduced(fn)[j] = Point(F)[j]
      BY <1>2, ScalarField DEF Reduced, Point
    <2>3. ValuesIn(F, Point(F), R)
      BY <1>2 DEF ValuesIn, Point
    <2>4. ProductMod(fn) = Fold(mul, 1, Reduced(fn), R)
      <3> HIDE DEF fn
      <3> QED
        BY <1>2, <2>1, ProductModIsFold
    <2> HIDE DEF fn, R
    <2>5. Fold(mul, 1, Point(F), R) = Fold(mul, 1, Reduced(fn), R)
      BY <1>1, <1>2, <2>2, <2>3, FoldCongruence
    <2> QED
      BY <2>4, <2>5 DEF Numerator, R
  <1>4. d = Denominator(F, mul, sub, S, i)
    <2>1. ASSUME NEW j \in R
          PROVE  /\ fd[j] \in Int /\ Reduced(fd)[j] = Gap(F, sub, i)[j]
                 /\ Gap(F, sub, i)[j] \in F
      <3>1. j \in F /\ i \in F /\ j - i \in Int
        BY <1>2, ScalarField
      <3>2. (j - i) % order \in F
        BY <3>1, ScalarField
      <3>3. ((j - i) % order) % order = (j - i) % order /\ (j - i) % order \in Int
        BY <3>2, ScalarField
      <3>4. sub[j][i] = (j - i) % order
        BY <3>1, ScalarField
      <3> QED
        BY <3>1, <3>2, <3>3, <3>4 DEF Reduced, Gap
    <2>2. fd \in [R -> Int]
      BY <2>1
    <2>3. /\ \A j \in R : Gap(F, sub, i)[j] = Reduced(fd)[j]
          /\ ValuesIn(F, Gap(F, sub, i), R)
      BY <2>1 DEF ValuesIn
    <2>4. ProductMod(fd) = Fold(mul, 1, Reduced(fd), R)
      <3> HIDE DEF fd
      <3> QED
        BY <1>2, <2>2, ProductModIsFold
    <2> HIDE DEF fd, R
    <2>5. Fold(mul, 1, Gap(F, sub, i), R) = Fold(mul, 1, Reduced(fd), R)
      BY <1>1, <1>2, <2>3, FoldCongruence
    <2> QED
      BY <2>4, <2>5 DEF Denominator, R
  <1>5. computeLagrangeCoefficient(i, S) = (n * v) % order
    BY DEF computeLagrangeCoefficient
  <1> HIDE DEF F, add, mul, sub, n, d
  <1>6. d \in F \ {0} /\ n \in F
    BY <1>1, <1>2, <1>3, <1>4, Denominators
  <1>7. v \in F /\ mul[v][d] = 1
    BY <1>6, ModInverseInverts DEF F, mul
  <1> HIDE DEF v
  <1>8. mul[n][v] = (n * v) % order /\ mul[n][v] \in F
    BY <1>1, <1>6, <1>7, ScalarField, MonoidType DEF F, mul
  <1>9. mul[mul[n][v]][d] = n
    <2>1. mul[mul[n][v]][d] = mul[n][mul[v][d]]
      BY <1>1, <1>6, <1>7, MonoidAssociates
    <2>2. mul[n][1] = n
      BY <1>1, <1>6, MonoidNeutral
    <2> QED
      BY <1>7, <2>1, <2>2
  <1> DEFINE w == mul[n][v]
  <1>10. IsWeight(F, mul, sub, S, i, w)
    BY <1>3, <1>4, <1>8, <1>9 DEF IsWeight
  <1>11. w \in F
    BY <1>8
  <1> HIDE DEF w
  <1>12. w = Weight(F, mul, sub, S, i)
    BY <1>1, <1>2, <1>10, Weights
  <1> QED
    BY <1>5, <1>8, <1>11, <1>12 DEF w, BlsWeight, F, mul, sub

\* A sum of values with their coefficients interpolates them.
LEMMA SumInterpolates ==
  ASSUME NEW S \in SUBSET Signers, NEW y, ValuesIn(Scalars, y, S)
  PROVE  SumMod([i \in S |-> y[i] * computeLagrangeCoefficient(i, S)]) = BlsInterpolated(S, y)
  <1> DEFINE F   == Scalars
             add == ModAdd(order)
             mul == ModMul(order)
             sub == ModSub(order)
             f   == [i \in S |-> y[i] * computeLagrangeCoefficient(i, S)]
             t   == WeightedTerms(F, mul, sub, S, y)
  <1>1. IsField(F, add, mul, sub) /\ Monoid(F, add, 0)
    BY ScalarField DEF BlsField
  <1>2. S \in SUBSET F /\ IsFiniteSet(S)
    <2>1. S \in SUBSET F
      BY OrderIsPrime
    <2> QED
      BY <2>1, OrderIsPrime, FS_Subset
  <1>3. ASSUME NEW i \in S
        PROVE  f[i] \in Int /\ Reduced(f)[i] = t[i]
    <2> DEFINE w == BlsWeight(S, i)
    <2>1. computeLagrangeCoefficient(i, S) = w /\ w \in F /\ y[i] \in F
      BY CoefficientIsWeight DEF ValuesIn
    <2>2. y[i] * w \in Int /\ mul[y[i]][w] = (y[i] * w) % order
      <3> HIDE DEF w
      <3>1. y[i] \in Int /\ w \in Int
        BY <2>1, ScalarField
      <3> QED
        BY <2>1, <3>1, ScalarField
    <2>3. t[i] = mul[y[i]][w]
      BY DEF WeightedTerms, BlsWeight
    <2> QED
      BY <2>1, <2>2, <2>3 DEF Reduced
  <1>4. f \in [S -> Int] /\ \A i \in S : t[i] = Reduced(f)[i]
    BY <1>3
  <1> HIDE DEF f
  <1>5. SumMod(f) = Fold(add, 0, Reduced(f), S)
    BY <1>2, <1>4, SumModIsFold
  <1> HIDE DEF F, add, mul, sub
  <1>6. ValuesIn(F, t, S)
    <2>1. ValuesIn(F, y, S)
      BY DEF F
    <2> QED
      BY <1>1, <1>2, <2>1, TermsType
  <1>7. Fold(add, 0, t, S) = Fold(add, 0, Reduced(f), S)
    <2> HIDE DEF t
    <2> QED
      BY <1>1, <1>2, <1>4, <1>6, FoldCongruence
  <1> QED
    BY <1>5, <1>7 DEF f, Interpolated, BlsInterpolated, F, add, mul, sub

PowerTerms(c, k, x) == [i \in k .. Len(c) |-> ModMul(order)[c[i]][ScalarPower(x)[i - k]]]

\* What Horner's rule makes of c from its k-th coefficient on.
PartialHorner(c) ==
  [k \in 1 .. Len(c) + 1 |->
     [x \in Scalars |-> Fold(ModAdd(order), 0, PowerTerms(c, k, x), k .. Len(c))]]

LEMMA PowerTermsType ==
  ASSUME NEW c \in Seq(Scalars), NEW k \in 1 .. Len(c) + 1, NEW x \in Scalars
  PROVE  /\ Len(c) \in Nat /\ IsFiniteSet(k .. Len(c))
         /\ ValuesIn(Scalars, PowerTerms(c, k, x), k .. Len(c))
         /\ Fold(ModAdd(order), 0, PowerTerms(c, k, x), k .. Len(c)) \in Scalars
  <1>1. Len(c) \in Nat /\ k \in Int
    OBVIOUS
  <1>2. IsFiniteSet(k .. Len(c))
    BY <1>1, FS_Interval
  <1>3. ASSUME NEW i \in k .. Len(c)
        PROVE  PowerTerms(c, k, x)[i] \in Scalars
    <2>1. i - k \in Nat /\ c[i] \in Scalars
      BY <1>1
    <2>2. ScalarPower(x)[i - k] \in Scalars
      BY <2>1, ScalarField, PowersAre DEF ScalarPower
    <2>3. ModMul(order)[c[i]][ScalarPower(x)[i - k]] \in Scalars
      BY <2>1, <2>2, ScalarField, MonoidType
    <2> QED
      BY <2>3 DEF PowerTerms
  <1>4. ValuesIn(Scalars, PowerTerms(c, k, x), k .. Len(c))
    BY <1>3 DEF ValuesIn
  <1> QED
    BY <1>1, <1>2, <1>4, ScalarField, FoldType

LEMMA PartialHornerStep ==
  ASSUME NEW c \in Seq(Scalars), NEW k \in 1 .. Len(c), NEW x \in Scalars
  PROVE  Fold(ModAdd(order), 0, PowerTerms(c, k, x), k .. Len(c))
           = ModAdd(order)[ModMul(order)[Fold(ModAdd(order), 0, PowerTerms(c, k + 1, x),
                                              k + 1 .. Len(c))][x]][c[k]]
  <1> DEFINE F   == Scalars
             add == ModAdd(order)
             mul == ModMul(order)
             sub == ModSub(order)
             n   == Len(c)
             S   == k .. n
             R   == k + 1 .. n
             f   == PowerTerms(c, k, x)
             g   == PowerTerms(c, k + 1, x)
             a   == Fold(add, 0, g, R)
             P   == ScalarPower(x)
  <1>1. IsField(F, add, mul, sub) /\ Monoid(F, add, 0) /\ Monoid(F, mul, 1)
    BY ScalarField DEF BlsField
  <1>2. n \in Nat /\ k \in 1 .. n + 1 /\ k + 1 \in 1 .. n + 1 /\ k \in Int /\ c[k] \in F
    OBVIOUS
  <1>3. /\ IsFiniteSet(S) /\ ValuesIn(F, f, S)
        /\ IsFiniteSet(R) /\ ValuesIn(F, g, R) /\ a \in F
    BY <1>2, PowerTermsType
  <1>4. R = S \ {k} /\ k \in S
    BY <1>2
  <1>5. \A m \in Nat : P[m] \in F /\ P[m + 1] = mul[x][P[m]] /\ P[0] = 1
    <2>1. IsPowers(F, mul, 1, x, P)
      BY <1>1, PowersExist DEF ScalarPower
    <2> HIDE DEF P
    <2> QED
      BY <2>1 DEF IsPowers
  <1>6. \A i \in S : f[i] = mul[c[i]][P[i - k]]
    BY DEF PowerTerms
  <1>7. \A i \in R : g[i] = mul[c[i]][P[i - (k + 1)]]
    BY DEF PowerTerms
  <1>8. \A i \in R : c[i] \in F /\ i - (k + 1) \in Nat /\ i - k = (i - (k + 1)) + 1 /\ i \in S
    BY <1>2
  <1> HIDE DEF F, add, mul, sub, f, g, P, n, S, R, a
  <1>9. ASSUME NEW i \in R
        PROVE  f[i] = mul[x][g[i]]
    <2> DEFINE m == i - (k + 1)
               p == P[m]
               b == c[i]
    <2>1. m \in Nat /\ b \in F /\ i - k = m + 1 /\ i \in S
      BY <1>8
    <2>2. p \in F /\ P[m + 1] = mul[x][p]
      BY <1>5, <2>1
    <2>3. f[i] = mul[b][mul[x][p]]
      BY <1>6, <2>1, <2>2
    <2>4. g[i] = mul[b][p]
      BY <1>7
    <2>6. x \in F
      BY DEF F
    <2> HIDE DEF m, p, b
    <2>5. mul[b][mul[x][p]] = mul[x][mul[b][p]]
      BY <1>1, <2>1, <2>2, <2>6, MonoidSwap
    <2> QED
      BY <2>3, <2>4, <2>5
  <1>10. x \in F
    BY DEF F
  <1>11. Fold(add, 0, f, R) = mul[x][a]
    <2>1. \A i \in R : f[i] = mul[x][g[i]]
      BY <1>9
    <2> QED
      BY <1>1, <1>3, <1>10, <2>1, SumScaled DEF a
  <1>12. Takes(add, 0, f, S, k)
    BY <1>1, <1>3, <1>4, FoldRemove
  <1>13. f[k] = c[k]
    <2>1. f[k] = mul[c[k]][P[0]]
      BY <1>2, <1>4, <1>6
    <2>2. mul[c[k]][1] = c[k]
      BY <1>1, <1>2, MonoidNeutral
    <2> QED
      BY <1>5, <2>1, <2>2
  <1> DEFINE b == mul[x][a]
             d == c[k]
  <1>14. b \in F /\ b = mul[a][x] /\ d \in F
    BY <1>1, <1>2, <1>3, <1>10, MonoidType, Commutes
  <1>15. Fold(add, 0, f, S) = add[d][b]
    BY <1>4, <1>11, <1>12, <1>13 DEF Takes
  <1> HIDE DEF b, d
  <1>16. add[d][b] = add[b][d]
    BY <1>1, <1>14, Commutes
  <1> QED
    BY <1>14, <1>15, <1>16 DEF F, add, mul, f, g, n, S, R, a, d

\* polynomialAt, and the commitment to it, evaluate as Horner's rule does.
LEMMA PolynomialHorner ==
  ASSUME NEW c \in Seq(Scalars), c # <<>>
  PROVE  /\ IsHorner(Scalars, ModAdd(order), ModMul(order), Len(c), c, PartialHorner(c))
         /\ \A x \in Scalars : /\ polynomialAt(c, x) = PartialHorner(c)[1][x]
                               /\ polynomialAt(c, x) \in Scalars
  <1> DEFINE F   == Scalars
             add == ModAdd(order)
             mul == ModMul(order)
             n   == Len(c)
             h   == PartialHorner(c)
  <1>1. n \in Nat \ {0} /\ c \in [1 .. n -> F] /\ DOMAIN c = 1 .. n
    OBVIOUS
  <1>2. h \in [1 .. n + 1 -> [F -> F]]
    BY PowerTermsType DEF PartialHorner
  <1>3. ASSUME NEW x \in F PROVE h[n + 1][x] = 0
    <2>1. n + 1 .. n = {} /\ n + 1 \in 1 .. n + 1
      BY <1>1
    <2>2. Fold(add, 0, PowerTerms(c, n + 1, x), {}) = 0
      BY ScalarField, FoldEmpty
    <2> QED
      BY <2>1, <2>2 DEF PartialHorner
  <1>4. ASSUME NEW k \in 1 .. n, NEW x \in F
        PROVE  h[k][x] = add[mul[h[k + 1][x]][x]][c[k]]
    <2>1. k \in 1 .. n + 1 /\ k + 1 \in 1 .. n + 1
      BY <1>1
    <2>2. /\ h[k][x] = Fold(add, 0, PowerTerms(c, k, x), k .. n)
          /\ h[k + 1][x] = Fold(add, 0, PowerTerms(c, k + 1, x), k + 1 .. n)
      BY <2>1 DEF PartialHorner
    <2> QED
      BY <2>2, PartialHornerStep
  <1>5. IsHorner(F, add, mul, n, c, h)
    <2> HIDE DEF h
    <2> QED
      BY <1>1, <1>2, <1>3, <1>4 DEF IsHorner
  <1>6. ASSUME NEW x \in F
        PROVE  polynomialAt(c, x) = h[1][x]
    <2> DEFINE S == 1 .. n
               f == [i \in S |-> c[i] * modPow(x, i - 1)]
               t == PowerTerms(c, 1, x)
    <2>1. ASSUME NEW i \in S
          PROVE  f[i] \in Int /\ Reduced(f)[i] = t[i]
      <3> DEFINE p == ScalarPower(x)[i - 1]
                 b == c[i]
      <3>1. i - 1 \in Nat /\ b \in F
        BY <1>1
      <3>2. p \in F
        BY <3>1, ScalarField, PowersAre DEF ScalarPower
      <3>3. modPow(x, i - 1) = p
        <4>1. x \in Int /\ x % order = x
          BY ScalarField
        <4> QED
          BY <3>1, <4>1, ModPowIsPower
      <3>4. f[i] = b * p
        BY <3>3
      <3>5. t[i] = mul[b][p]
        BY <1>1 DEF PowerTerms
      <3>6. Reduced(f)[i] = f[i] % order
        BY DEF Reduced
      <3> HIDE DEF p, b, f, t
      <3>7. b \in Int /\ p \in Int /\ mul[b][p] = (b * p) % order
        BY <3>1, <3>2, ScalarField
      <3>8. b * p \in Int
        BY <3>7
      <3> QED
        BY <3>4, <3>5, <3>6, <3>7, <3>8
    <2>2. f \in [S -> Int] /\ \A i \in S : t[i] = Reduced(f)[i]
      BY <2>1
    <2>3. IsFiniteSet(S) /\ ValuesIn(F, t, S)
      <3>1. 1 \in 1 .. n + 1
        BY <1>1
      <3> QED
        BY <3>1, PowerTermsType
    <2>4. polynomialAt(c, x) = SumMod(f)
      BY <1>1 DEF polynomialAt
    <2> HIDE DEF f
    <2>5. SumMod(f) = Fold(add, 0, Reduced(f), S)
      BY <2>2, <2>3, SumModIsFold
    <2>6. Fold(add, 0, t, S) = Fold(add, 0, Reduced(f), S)
      <3>1. Monoid(F, add, 0)
        BY ScalarField
      <3> HIDE DEF t, F, add, S
      <3> QED
        BY <2>2, <2>3, <3>1, FoldCongruence
    <2>7. h[1][x] = Fold(add, 0, t, S)
      BY <1>1 DEF PartialHorner
    <2> QED
      BY <2>4, <2>5, <2>6, <2>7
  <1>7. ASSUME NEW x \in F PROVE h[1][x] \in F
    BY <1>1, <1>2
  <1> QED
    BY <1>5, <1>6, <1>7

\* Any quorum of points of a polynomial has its first coefficient.
LEMMA QuorumInterpolates ==
  ASSUME NEW c \in Seq(Scalars), c # <<>>,
         NEW S \in SUBSET Signers, Cardinality(S) >= Len(c),
         NEW y, \A i \in S : y[i] = polynomialAt(c, i)
  PROVE  /\ ValuesIn(Scalars, y, S)
         /\ BlsInterpolated(S, y) = c[1]
  <1> DEFINE F   == Scalars
             add == ModAdd(order)
             mul == ModMul(order)
             sub == ModSub(order)
             h   == PartialHorner(c)
             n   == Len(c)
             z   == h[1]
  <1>1. IsField(F, add, mul, sub) /\ Monoid(F, add, 0)
    BY ScalarField DEF BlsField
  <1>2. S \in SUBSET F /\ IsFiniteSet(S)
    <2>1. S \in SUBSET F
      BY OrderIsPrime
    <2> QED
      BY <2>1, OrderIsPrime, FS_Subset
  <1>3. n \in Nat \ {0} /\ IsHorner(F, add, mul, n, c, h)
    BY PolynomialHorner
  <1>4. \A i \in S : y[i] = z[i] /\ y[i] \in F
    BY <1>2, PolynomialHorner
  <1>5. ValuesIn(F, y, S)
    BY <1>4 DEF ValuesIn
  <1>6. Cardinality(S) >= n
    OBVIOUS
  <1> HIDE DEF F, add, mul, sub, h, n
  <1>7. Interpolated(F, add, mul, sub, S, h[1]) = c[1]
    BY <1>1, <1>2, <1>3, <1>6, InterpolatesAtZero
  <1>8. Interpolated(F, add, mul, sub, S, y) = Interpolated(F, add, mul, sub, S, z)
    <2>1. WeightedTerms(F, mul, sub, S, y) = WeightedTerms(F, mul, sub, S, z)
      <3> HIDE DEF z
      <3> QED
        BY <1>4 DEF WeightedTerms
    <2> QED
      BY <2>1 DEF Interpolated
  <1> QED
    BY <1>5, <1>7, <1>8 DEF BlsInterpolated, F, add, mul, sub

----------------------------------------------------------------------------
(* The scheme.                                                             *)

ShareType == [index : Signers, secretShare : Scalars, publicKey : Scalars]

\* Participants keep the share they were dealt unless it was altered.
BlsInv ==
  /\ \E t \in Thresholds : commitments \in [1 .. t -> PrivateKeys]
  /\ acting \in SUBSET Signers
  /\ altered \in SUBSET Signers
  /\ shares \in [Signers -> ShareType]
  /\ \A i \in Signers : shares[i].index = i
  /\ \A i \in Signers \ altered : shares[i] = KeyShares(commitments)[i]

LEMMA CommitmentsType ==
  ASSUME NEW t \in Thresholds, NEW c \in [1 .. t -> PrivateKeys]
  PROVE  /\ c \in Seq(Scalars) /\ c # <<>> /\ Len(c) = t /\ t \in Nat \ {0}
         /\ DOMAIN c = 1 .. Len(c)
  <1>1. t \in Nat \ {0}
    BY BlsAssumption
  <1>2. PrivateKeys \subseteq Scalars
    BY OrderIsPrime DEF PrivateKeys, Scalars
  <1>3. c \in [1 .. t -> Scalars]
    BY <1>2
  <1> QED
    BY <1>1, <1>3

LEMMA SharesType ==
  ASSUME NEW c \in Seq(Scalars), c # <<>>
  PROVE  KeyShares(c) \in [Signers -> ShareType]
  <1>1. \A i \in Signers : i \in Scalars
    BY OrderIsPrime
  <1>2. \A i \in Signers : polynomialAt(c, i) \in Scalars
    BY <1>1, PolynomialHorner
  <1> QED
    BY <1>2 DEF KeyShares, Shares, ShareType

LEMMA BlsInitInv ==
  ASSUME BlsInit
  PROVE  BlsInv
  <1>1. PICK t \in Thresholds : commitments \in [1 .. t -> PrivateKeys]
    BY DEF BlsInit
  <1>2. KeyShares(commitments) \in [Signers -> ShareType]
    BY <1>1, CommitmentsType, SharesType
  <1>3. shares = KeyShares(commitments) /\ altered = {} /\ acting = {}
    BY DEF BlsInit
  <1>4. \A i \in Signers : shares[i].index = i
    BY <1>3 DEF KeyShares
  <1> QED
    BY <1>1, <1>2, <1>3, <1>4 DEF BlsInv

LEMMA BlsStepInv ==
  ASSUME BlsInv, [BlsNext]_blsVars
  PROVE  BlsInv'
  <1>1. CASE Act
    BY <1>1 DEF Act, BlsInv
  <1>2. ASSUME NEW i \in Signers, Alter(i)
        PROVE  BlsInv'
    <2>1. PICK s \in PrivateKeys, k \in PrivateKeys :
            shares' = [shares EXCEPT ![i].secretShare = s, ![i].publicKey = k]
      BY <1>2 DEF Alter
    <2>2. s \in Scalars /\ k \in Scalars
      BY OrderIsPrime DEF PrivateKeys, Scalars
    <2>3. altered' = {i} /\ UNCHANGED <<commitments, acting>> /\ altered = {}
      BY <1>2 DEF Alter
    <2>4. shares \in [Signers -> ShareType] /\ \A j \in Signers : shares[j].index = j
      BY DEF BlsInv
    <2>5. \A j \in Signers \ {i} : shares'[j] = shares[j]
      BY <2>1, <2>4
    <2>6. shares'[i] = [index |-> i, secretShare |-> s, publicKey |-> k]
      <3> DEFINE kept == shares[i]
      <3>1. shares'[i] = [[kept EXCEPT !.secretShare = s] EXCEPT !.publicKey = k]
        BY <2>1, <2>4
      <3>2. kept \in ShareType /\ kept.index = i
        BY <2>4
      <3> HIDE DEF kept
      <3>3. PICK a \in Signers, b \in Scalars, c \in Scalars :
              kept = [index |-> a, secretShare |-> b, publicKey |-> c]
        BY <3>2 DEF ShareType
      <3>4. a = i
        BY <3>2, <3>3
      <3>5. shares'[i] = [[[index |-> a, secretShare |-> b, publicKey |-> c]
                             EXCEPT !.secretShare = s] EXCEPT !.publicKey = k]
        BY <3>1, <3>3
      <3> QED
        BY <3>4, <3>5
    <2>7. shares' \in [Signers -> ShareType] /\ \A j \in Signers : shares'[j].index = j
      <3>1. shares'[i] \in ShareType
        BY <2>2, <2>6 DEF ShareType
      <3>2. shares' = [j \in Signers |-> shares'[j]]
        BY <2>1, <2>4
      <3>3. \A j \in Signers : shares'[j] \in ShareType /\ shares'[j].index = j
        BY <2>4, <2>5, <2>6, <3>1
      <3> QED
        BY <3>2, <3>3
    <2>8. \A j \in Signers \ altered' : shares'[j] = KeyShares(commitments)'[j]
      BY <2>3, <2>5 DEF BlsInv, KeyShares, Shares
    <2> QED
      BY <2>3, <2>7, <2>8 DEF BlsInv
  <1>3. CASE UNCHANGED blsVars
    BY <1>3 DEF blsVars, BlsInv, KeyShares, Shares
  <1> QED
    BY <1>1, <1>2, <1>3 DEF BlsNext

\* The hash of the message times a scalar, as the field multiplies.
LEMMA HashedPoint ==
  ASSUME NEW x \in Scalars
  PROVE  /\ MessageHash % order \in Scalars
         /\ (x * MessageHash) % order = ModMul(order)[MessageHash % order][x]
         /\ (x * MessageHash) % order \in Scalars
  <1> DEFINE h == MessageHash % order
  <1>1. order \in Nat \ {0} /\ x \in Int /\ MessageHash \in Int
    BY OrderIsPrime, ScalarField DEF MessageHash
  <1>2. h \in Scalars
    BY <1>1, ScalarField
  <1>3. (h * x) % order = (MessageHash * x) % order
    BY <1>1, RemainderOfProduct
  <1>4. MessageHash * x = x * MessageHash
    BY <1>1 DEF MessageHash
  <1>5. ModMul(order)[h][x] = (h * x) % order
    BY <1>2, ScalarField
  <1>6. x * MessageHash \in Int
    BY <1>1 DEF MessageHash
  <1>7. (x * MessageHash) % order \in Scalars
    BY <1>6, ScalarField
  <1> QED
    BY <1>2, <1>3, <1>4, <1>5, <1>7

\* Partial signatures under the shares of one polynomial aggregate to the signature under
\* its first coefficient.
LEMMA QuorumSigns ==
  ASSUME NEW c \in Seq(Scalars), c # <<>>,
         NEW S \in SUBSET Signers, Cardinality(S) >= Len(c),
         NEW g \in [S -> Int],
         \A i \in S : g[i] = (polynomialAt(c, i) * MessageHash) % order
  PROVE  aggregateSignatures(g) = (c[1] * MessageHash) % order
  <1> DEFINE F   == Scalars
             add == ModAdd(order)
             mul == ModMul(order)
             sub == ModSub(order)
             y   == [i \in S |-> polynomialAt(c, i)]
             h   == MessageHash % order
  <1>1. IsField(F, add, mul, sub)
    BY ScalarField DEF BlsField
  <1>2. S \in SUBSET F /\ IsFiniteSet(S)
    <2>1. S \in SUBSET F
      BY OrderIsPrime
    <2> QED
      BY <2>1, OrderIsPrime, FS_Subset
  <1>3. ValuesIn(F, y, S) /\ BlsInterpolated(S, y) = c[1]
    BY QuorumInterpolates
  <1>4. c[1] \in F
    OBVIOUS
  <1>5. \A i \in S : y[i] \in F /\ g[i] = (y[i] * MessageHash) % order
    BY <1>3 DEF ValuesIn
  <1>6. h \in F
    BY <1>4, HashedPoint
  <1>7. \A i \in S : g[i] = mul[h][y[i]] /\ g[i] \in F
    BY <1>5, HashedPoint
  <1>8. BlsInterpolated(S, g) = mul[h][BlsInterpolated(S, y)]
    <2> HIDE DEF F, add, mul, sub, h, y
    <2>1. \A i \in S : g[i] = mul[h][y[i]]
      BY <1>7
    <2>2. Interpolated(F, add, mul, sub, S, g) = mul[h][Interpolated(F, add, mul, sub, S, y)]
      BY <1>1, <1>2, <1>3, <1>6, <2>1, InterpolatedScaled
    <2> QED
      BY <2>2 DEF BlsInterpolated, F, add, mul, sub
  <1>9. ValuesIn(F, g, S)
    BY <1>7 DEF ValuesIn
  <1>10. SumMod([i \in S |-> g[i] * computeLagrangeCoefficient(i, S)]) = BlsInterpolated(S, g)
    BY <1>9, SumInterpolates
  <1>11. aggregateSignatures(g) = SumMod([i \in S |-> g[i] * computeLagrangeCoefficient(i, S)])
    BY DEF aggregateSignatures
  <1>12. mul[h][c[1]] = (c[1] * MessageHash) % order
    BY <1>4, HashedPoint
  <1> QED
    BY <1>3, <1>8, <1>10, <1>11, <1>12

\* A reconstruction uses as many shares as there are coefficients, of distinct signers.
LEMMA ListReconstructs ==
  ASSUME NEW c \in Seq(Scalars), c # <<>>,
         NEW S \in SUBSET Signers,
         NEW used \in [1 .. Len(c) -> ShareType],
         \A j \in 1 .. Len(c) : /\ used[j].index \in S
                                /\ used[j].secretShare = polynomialAt(c, used[j].index),
         \A j, k \in 1 .. Len(c) : used[j].index = used[k].index => j = k
  PROVE  SumMod([j \in DOMAIN used |->
                   used[j].secretShare
                     * computeLagrangeCoefficient(used[j].index, {used[k].index : k \in DOMAIN used})])
           = c[1]
  <1> DEFINE n   == Len(c)
             J   == 1 .. n
             all == {used[k].index : k \in DOMAIN used}
             pi  == [j \in J |-> used[j].index]
             y   == [i \in all |-> polynomialAt(c, i)]
             f   == [i \in all |-> y[i] * computeLagrangeCoefficient(i, all)]
             r   == [j \in J |-> used[j].secretShare * computeLagrangeCoefficient(used[j].index, all)]
             add == ModAdd(order)
  <1>1. n \in Nat /\ DOMAIN used = J
    OBVIOUS
  <1>2. all \in SUBSET Signers /\ IsFiniteSet(all) /\ IsFiniteSet(J)
    <2>1. all \in SUBSET Signers
      BY <1>1
    <2>2. IsFiniteSet(J)
      BY <1>1, FS_Interval
    <2> QED
      BY <2>1, <2>2, OrderIsPrime, FS_Subset
  <1>3. pi \in Bijection(J, all)
    <2>1. pi \in [J -> all]
      BY <1>1
    <2>2. \A a, b \in J : pi[a] = pi[b] => a = b
      OBVIOUS
    <2>3. \A i \in all : \E j \in J : pi[j] = i
      BY <1>1
    <2> QED
      BY <2>1, <2>2, <2>3 DEF Bijection, Injection, Surjection, IsInjective
  <1>4. Cardinality(all) = n
    <2>1. Cardinality(J) = n
      BY <1>1, FS_Interval
    <2>2. ExistsBijection(J, all)
      BY <1>3 DEF ExistsBijection
    <2> HIDE DEF J, all, n
    <2> QED
      BY <1>2, <2>1, <2>2, FS_Bijection
  <1>5. ValuesIn(Scalars, y, all) /\ BlsInterpolated(all, y) = c[1]
    <2>1. Cardinality(all) >= Len(c)
      BY <1>1, <1>4
    <2>2. \A i \in all : y[i] = polynomialAt(c, i)
      OBVIOUS
    <2> HIDE DEF all, y
    <2> QED
      BY <1>2, <2>1, <2>2, QuorumInterpolates
  <1>6. SumMod(f) = BlsInterpolated(all, y)
    <2> HIDE DEF all, y
    <2> QED
      BY <1>2, <1>5, SumInterpolates
  <1>7. \A i \in all : y[i] \in Int /\ computeLagrangeCoefficient(i, all) \in Int
    <2> HIDE DEF all, y
    <2>1. \A i \in all : y[i] \in Int
      BY <1>5, ScalarField DEF ValuesIn
    <2>2. \A i \in all : computeLagrangeCoefficient(i, all) \in Scalars
      BY <1>2, CoefficientIsWeight
    <2> QED
      BY <2>1, <2>2, ScalarField
  <1>8. f \in [all -> Int]
    <2> DEFINE L(i) == computeLagrangeCoefficient(i, all)
    <2>1. \A i \in all : y[i] \in Int /\ L(i) \in Int
      BY <1>7
    <2>2. f = [i \in all |-> y[i] * L(i)]
      OBVIOUS
    <2> HIDE DEF all, y, L, f
    <2>3. \A i \in all : y[i] * L(i) \in Int
      BY <2>1
    <2> QED
      BY <2>2, <2>3
  <1>9. \A j \in J : pi[j] \in all /\ r[j] = f[pi[j]]
    BY <1>1
  <1>10. r \in [J -> Int]
    <2>1. \A j \in J : r[j] \in Int
      <3> HIDE DEF f, r, pi, all, J
      <3> QED
        BY <1>8, <1>9
    <2>2. r = [j \in J |-> r[j]]
      OBVIOUS
    <2> HIDE DEF r, J
    <2> QED
      BY <2>1, <2>2
  <1>11. \A j \in J : Reduced(r)[j] = Reduced(f)[pi[j]]
    BY <1>9 DEF Reduced
  <1>12. ValuesIn(Scalars, Reduced(f), all)
    <2> HIDE DEF f, all
    <2>1. \A i \in all : f[i] \in Int /\ Reduced(f)[i] = f[i] % order
      BY <1>8 DEF Reduced
    <2> QED
      BY <2>1, ScalarField DEF ValuesIn
  <1> HIDE DEF f, r, pi, all, J
  <1>13. Monoid(Scalars, add, 0)
    BY ScalarField
  <1>14. Fold(add, 0, Reduced(r), J) = Fold(add, 0, Reduced(f), all)
    <2> HIDE DEF add
    <2> QED
      BY <1>2, <1>3, <1>11, <1>12, <1>13, FoldReindexed
  <1>15. SumMod(r) = Fold(add, 0, Reduced(r), J) /\ SumMod(f) = Fold(add, 0, Reduced(f), all)
    BY <1>2, <1>8, <1>10, SumModIsFold
  <1> QED
    BY <1>1, <1>5, <1>6, <1>14, <1>15 DEF r, all, J


\* Any list of the shares of a quorum, none of them altered, opens what was sealed under
\* the group's secret.
LEMMA ListedSharesOpen ==
  ASSUME BlsInv, Enough, acting \cap altered = {},
         NEW list \in SetToSeqs({shares[i] : i \in acting})
  PROVE  reconstructSecret(list, Len(commitments)) = commitments[1]
  <1> DEFINE c    == commitments
             n    == Len(c)
             held == {shares[i] : i \in acting}
             m    == Cardinality(held)
             used == SubSeq(list, 1, n)
  <1>1. c \in Seq(Scalars) /\ c # <<>> /\ n \in Nat \ {0}
    BY CommitmentsType DEF BlsInv
  <1>2. acting \in SUBSET Signers /\ IsFiniteSet(acting)
    BY OrderIsPrime, FS_Subset DEF BlsInv
  <1>3. \A i \in acting : /\ shares[i] \in ShareType
                          /\ shares[i].index = i
                          /\ shares[i].secretShare = polynomialAt(c, i)
    <2> TAKE i \in acting
    <2>1. i \in Signers \ altered
      BY <1>2
    <2>2. shares[i] = KeyShares(c)[i] /\ shares[i].index = i /\ shares[i] \in ShareType
      BY <2>1 DEF BlsInv
    <2>3. KeyShares(c)[i].secretShare = polynomialAt(c, i)
      BY <2>1 DEF KeyShares, Shares
    <2> QED
      BY <2>2, <2>3
  <1>4. m >= n /\ m \in Nat
    <2> DEFINE pi == [i \in acting |-> shares[i]]
    <2>1. pi \in Bijection(acting, held)
      <3>1. pi \in [acting -> held]
        OBVIOUS
      <3>2. \A a, b \in acting : pi[a] = pi[b] => a = b
        <4> TAKE a, b \in acting
        <4> HAVE pi[a] = pi[b]
        <4>1. shares[a] = shares[b] /\ shares[a].index = a /\ shares[b].index = b
          BY <1>3
        <4>2. shares[a].index = shares[b].index
          BY <4>1
        <4> QED
          BY <4>1, <4>2
      <3>3. \A s \in held : \E i \in acting : pi[i] = s
        OBVIOUS
      <3> HIDE DEF pi, held
      <3>4. pi \in Injection(acting, held)
        BY <3>1, <3>2 DEF Injection, IsInjective
      <3>5. pi \in Surjection(acting, held)
        BY <3>1, <3>3 DEF Surjection
      <3> QED
        BY <3>4, <3>5 DEF Bijection
    <2> HIDE DEF held, pi
    <2>2. ExistsBijection(acting, held)
      BY <2>1 DEF ExistsBijection
    <2>4. Cardinality(held) = Cardinality(acting)
      BY <1>2, <2>2, FS_Bijection
    <2>5. Cardinality(acting) \in Nat
      BY <1>2, FS_CardinalityType
    <2> QED
      BY <2>4, <2>5 DEF Enough
  <1>5. list \in [1 .. m -> held] /\ \A j, k \in 1 .. m : list[j] = list[k] => j = k
    BY DEF SetToSeqs
  <1>6. /\ used \in [1 .. n -> held]
        /\ \A j \in 1 .. n : used[j] = list[j]
    <2>1. \A i \in 1 .. n : list[i] \in held
      BY <1>1, <1>4, <1>5
    <2> HIDE DEF held, used, n
    <2>2. /\ SubSeq(list, 1, n) \in Seq(held)
          /\ Len(SubSeq(list, 1, n)) = IF 1 <= n THEN n - 1 + 1 ELSE 0
          /\ \A i \in 1 .. n - 1 + 1 : SubSeq(list, 1, n)[i] = list[1 + i - 1]
      BY <1>1, <2>1, SubSeqProperties
    <2>3. used \in Seq(held) /\ Len(used) = n
      BY <1>1, <2>2 DEF used
    <2>4. \A i \in 1 .. n : used[i] = list[i]
      <3> TAKE i \in 1 .. n
      <3>1. i \in 1 .. n - 1 + 1 /\ 1 + i - 1 = i
        BY <1>1
      <3> QED
        BY <2>2, <3>1 DEF used
    <2> QED
      BY <2>3, <2>4
  <1>7. used \in [1 .. n -> ShareType]
    BY <1>3, <1>6
  <1>8. \A j \in 1 .. n : /\ used[j].index \in acting
                          /\ used[j].secretShare = polynomialAt(c, used[j].index)
                          /\ used[j] = shares[used[j].index]
    <2> TAKE j \in 1 .. n
    <2>1. PICK i \in acting : used[j] = shares[i]
      BY <1>6
    <2>2. used[j].index = shares[i].index /\ used[j].secretShare = shares[i].secretShare
      BY <2>1
    <2>3. used[j].index = i
      BY <1>3, <2>2
    <2> QED
      BY <1>3, <2>1, <2>2, <2>3
  <1>9. \A j, k \in 1 .. n : used[j].index = used[k].index => j = k
    <2> TAKE j, k \in 1 .. n
    <2> HAVE used[j].index = used[k].index
    <2>1. used[j] = used[k]
      BY <1>8
    <2>2. list[j] = list[k] /\ j \in 1 .. m /\ k \in 1 .. m
      BY <1>1, <1>4, <1>6, <2>1
    <2> QED
      BY <1>5, <2>2
  <1> HIDE DEF used
  <1>10. SumMod([j \in DOMAIN used |->
                   used[j].secretShare
                     * computeLagrangeCoefficient(used[j].index,
                                                  {used[k].index : k \in DOMAIN used})])
           = c[1]
    <2>1. used \in [1 .. Len(c) -> ShareType]
      BY <1>7
    <2>2. \A j \in 1 .. Len(c) : /\ used[j].index \in acting
                                 /\ used[j].secretShare = polynomialAt(c, used[j].index)
      BY <1>8
    <2>3. \A j, k \in 1 .. Len(c) : used[j].index = used[k].index => j = k
      BY <1>9
    <2> HIDE DEF c, n
    <2> QED
      BY <1>1, <1>2, <2>1, <2>2, <2>3, ListReconstructs
  <1> QED
    BY <1>10 DEF reconstructSecret, used

\* The checks on the parts are the hypotheses of the lemmas.
LEMMA BlsInvQuorum ==
  ASSUME BlsInv
  PROVE  QuorumActs
  <1> DEFINE c == commitments
  <1>1. c \in Seq(Scalars) /\ c # <<>> /\ acting \in SUBSET Signers
    BY CommitmentsType DEF BlsInv
  <1>2. VerifiedPartsSuffice
    <2> SUFFICES ASSUME Enough,
                        \A i \in acting : /\ verifyShare(i, shares[i], c)
                                           /\ verifyPartialSignature(Partial[i], shares[i].publicKey)
                 PROVE  verifyThresholdSignature(aggregateSignatures(Partial), c)
      BY DEF VerifiedPartsSuffice
    <2>1. \A i \in acting : shares[i].publicKey = polynomialAt(c, i)
      BY DEF verifyShare, polynomialAt
    <2>2. \A i \in acting : Partial[i] = (polynomialAt(c, i) * MessageHash) % order
      BY <2>1 DEF verifyPartialSignature
    <2>3. Partial \in [acting -> Int]
      <3>1. \A i \in acting : polynomialAt(c, i) \in Scalars
        BY <1>1, OrderIsPrime, PolynomialHorner
      <3>2. \A i \in acting : Partial[i] \in Int
        BY <2>2, <3>1, HashedPoint, ScalarField
      <3>3. Partial = [i \in acting |-> Partial[i]]
        BY DEF Partial
      <3> QED
        BY <3>2, <3>3
    <2>4. Cardinality(acting) >= Len(c)
      BY DEF Enough
    <2> HIDE DEF c
    <2>5. aggregateSignatures(Partial) = (c[1] * MessageHash) % order
      BY <1>1, <2>2, <2>3, <2>4, QuorumSigns
    <2> QED
      BY <2>5 DEF verifyThresholdSignature, verifyPartialSignature
  <1>3. QuorumOpensKey
    <2> SUFFICES ASSUME Enough, acting \cap altered = {},
                        NEW list \in SetToSeqs({shares[i] : i \in acting})
                 PROVE  DecryptsViewingKey(encryptViewingKey("viewing key", c[1]), list, Len(c))
      BY DEF QuorumOpensKey
    <2>1. reconstructSecret(list, Len(c)) = c[1]
      BY ListedSharesOpen
    <2> QED
      BY <2>1 DEF DecryptsViewingKey, encryptViewingKey
  <1> QED
    BY <1>2, <1>3 DEF QuorumActs

\* Whatever the prime order, the participants, the threshold and the coefficients: a
\* quorum whose shares and parts are verified signs for the group, though a share was
\* altered, and one of unaltered shares opens what was sealed under its secret:
\* aggregateSignatures, reconstructSecret and decryptViewingKey, threshold-bls.ts.
THEOREM AnyQuorumActs == BlsSpec => []QuorumActs
  <1>1. BlsInit => BlsInv
    BY BlsInitInv
  <1>2. BlsInv /\ [BlsNext]_blsVars => BlsInv'
    BY BlsStepInv
  <1>3. BlsInv => QuorumActs
    BY BlsInvQuorum
  <1> QED
    BY <1>1, <1>2, <1>3, PTL DEF BlsSpec

----------------------------------------------------------------------------
(* The field of split and combine.                                         *)

\* There are twice as many subsets with one element more.
LEMMA PowerDoubles == \A n \in Nat : 2 ^ (n + 1) = 2 * 2 ^ n
  <1> SUFFICES ASSUME NEW n \in Nat PROVE 2 ^ (n + 1) = 2 * 2 ^ n
    OBVIOUS
  <1> DEFINE x == n + 1
             S == 1 .. n
             R == 1 .. n + 1
             A == SUBSET S
             B == {T \cup {x} : T \in A}
             f == [T \in A |-> T \cup {x}]
  <1>1. IsFiniteSet(S) /\ Cardinality(S) = n
    BY FS_Interval
  <1>2. IsFiniteSet(R) /\ Cardinality(R) = n + 1
    BY FS_Interval
  <1>3. x \notin S /\ R = S \cup {x}
    OBVIOUS
  <1>4. IsFiniteSet(A) /\ Cardinality(A) = 2 ^ n /\ Cardinality(SUBSET R) = 2 ^ (n + 1)
    BY <1>1, <1>2, FS_SUBSET
  <1> HIDE DEF x, S, R
  <1>5. f \in Bijection(A, B)
    <2>1. f \in [A -> B]
      OBVIOUS
    <2>2. \A T, U \in A : f[T] = f[U] => T = U
      BY <1>3
    <2>3. \A U \in B : \E T \in A : f[T] = U
      OBVIOUS
    <2> HIDE DEF A, B, f
    <2>4. f \in Injection(A, B)
      BY <2>1, <2>2 DEF Injection, IsInjective
    <2>5. f \in Surjection(A, B)
      BY <2>1, <2>3 DEF Surjection
    <2> QED
      BY <2>4, <2>5 DEF Bijection
  <1>6. SUBSET R = A \cup B /\ A \cap B = {}
    <2>1. \A T \in SUBSET R : x \in T => T = (T \ {x}) \cup {x} /\ T \ {x} \in A
      BY <1>3
    <2>2. \A T \in SUBSET R : x \notin T => T \in A
      BY <1>3
    <2>3. SUBSET R \subseteq A \cup B
      BY <2>1, <2>2
    <2>4. A \cup B \subseteq SUBSET R
      BY <1>3
    <2>5. A \cap B = {}
      BY <1>3
    <2> QED
      BY <2>3, <2>4, <2>5
  <1> HIDE DEF A, B, f
  <1>7. IsFiniteSet(B) /\ Cardinality(B) = 2 ^ n
    <2>1. ExistsBijection(A, B)
      BY <1>5 DEF ExistsBijection
    <2> QED
      BY <1>4, <2>1, FS_Bijection
  <1>8. Cardinality(A \cup B) = Cardinality(A) + Cardinality(B) - Cardinality(A \cap B)
    BY <1>4, <1>7, FS_Union
  <1>9. Cardinality(A \cap B) = 0
    BY <1>6, FS_EmptySet
  <1>10. 2 ^ n \in Nat
    BY PowersOfTwo
  <1>11. Cardinality(SUBSET R) = Cardinality(A \cup B)
    BY <1>6
  <1> DEFINE p == 2 ^ n
             q == 2 ^ (n + 1)
  <1>12. q = Cardinality(A \cup B) /\ p \in Nat /\ Cardinality(A) = p /\ Cardinality(B) = p
    BY <1>4, <1>7, <1>10, <1>11
  <1> HIDE DEF p, q
  <1>13. q = 2 * p
    BY <1>8, <1>9, <1>12
  <1> QED
    BY <1>13 DEF p, q

LEMMA FieldSize ==
  /\ Bits \in Nat \ {0} /\ 2 ^ Bits \in Nat /\ 2 ^ Bits >= 4
  /\ GF = 0 .. 2 ^ Bits - 1 /\ Order = 2 ^ Bits - 1 /\ Order \in Nat
  /\ IsFiniteSet(GF)
  /\ \E h \in Nat : h = 2 ^ (Bits - 1) /\ 2 ^ Bits = 2 * h /\ h >= 2
  /\ GF_PRIMITIVE - 2 ^ Bits \in GF
  <1>1. Bits \in Nat \ {0} /\ MaxShares \in 2 .. 2 ^ Bits - 1
    BY ShamirAssumption
  <1>2. 2 ^ Bits \in Nat /\ 2 ^ (Bits - 1) \in Nat
    BY <1>1, PowersOfTwo
  <1>3. 2 ^ Bits = 2 * 2 ^ (Bits - 1)
    <2>1. Bits - 1 \in Nat /\ (Bits - 1) + 1 = Bits
      BY <1>1
    <2>2. 2 ^ ((Bits - 1) + 1) = 2 * 2 ^ (Bits - 1)
      BY <2>1, PowerDoubles
    <2> QED
      BY <2>1, <2>2
  <1>4. 2 ^ Bits >= 3
    BY <1>1, <1>2
  <1>5. 2 ^ (Bits - 1) >= 2 /\ 2 ^ Bits >= 4
    BY <1>2, <1>3, <1>4
  <1>6. IsFiniteSet(GF)
    <2>1. 2 ^ Bits - 1 \in Int
      BY <1>2
    <2> QED
      BY <2>1, FS_Interval DEF GF
  <1>7. 2 ^ (Bits + 1) = 2 * 2 ^ Bits
    BY <1>1, PowerDoubles
  <1>8. GF_PRIMITIVE - 2 ^ Bits \in GF
    <2>1. GF_PRIMITIVE \in 2 ^ Bits .. 2 ^ (Bits + 1) - 1
      BY ShamirAssumption
    <2> QED
      BY <1>2, <1>7, <2>1 DEF GF
  <1> QED
    BY <1>1, <1>2, <1>3, <1>5, <1>6, <1>8 DEF GF, Order

IsXorTable(t) ==
  t = [a \in GF |-> [b \in GF |-> IF a = 0 THEN b ELSE 2 * t[a \div 2][b \div 2] + ((a + b) % 2)]]

LEMMA XorSteps ==
  \A a, b \in GF : /\ XorTable[0][b] = b
                   /\ a \div 2 \in GF /\ b \div 2 \in GF /\ (a # 0 => a \div 2 < a)
                   /\ XorTable[a][b] \in Nat
                   /\ XorTable[a][b] = 2 * XorTable[a \div 2][b \div 2] + ((a + b) % 2)
  <1> DEFINE V      == [GF -> Nat]
             rank   == [a \in GF |-> a]
             before == [a \in GF |-> a \div 2]
             start  == [a \in GF |-> [b \in GF |-> b]]
             step   == [a \in GF |-> [r \in V |-> [b \in GF |-> 2 * r[b \div 2] + ((a + b) % 2)]]]
  <1>1. 0 \in GF /\ GF \subseteq Nat /\ \A a \in GF : a \div 2 \in GF /\ (a # 0 => a \div 2 < a)
    BY FieldSize
  <1>2. rank \in [GF -> Nat] /\ Founded(GF, {0}, rank, before)
    BY <1>1 DEF Founded
  <1>3. \A a \in GF \cap {0} : start[a] \in V
    BY <1>1
  <1>4. \A a \in GF \ {0} : step[a] \in [V -> V]
    <2>1. ASSUME NEW a \in GF, NEW r \in V, NEW b \in GF
          PROVE  2 * r[b \div 2] + ((a + b) % 2) \in Nat
      <3>1. r[b \div 2] \in Nat
        BY <1>1
      <3>2. (a + b) % 2 \in Nat
        BY <1>1
      <3> QED
        BY <3>1, <3>2
    <2>2. \A a \in GF : \A r \in V : [b \in GF |-> 2 * r[b \div 2] + ((a + b) % 2)] \in V
      BY <2>1
    <2> HIDE DEF V
    <2> QED
      BY <2>2
  <1>5. \E t \in [GF -> V] : Recurs(t, GF, {0}, before, start, step)
    <2> HIDE DEF V, rank, before, start, step
    <2> QED
      BY <1>2, <1>3, <1>4, RecursionExists
  <1>6. PICK t \in [GF -> V] : Recurs(t, GF, {0}, before, start, step)
    BY <1>5
  <1>7. IsXorTable(t)
    <2>1. \A a \in GF \ {0} : t[before[a]] \in V
      BY <1>1
    <2>2. \A a \in GF : t[a] = IF a \in {0} THEN start[a] ELSE step[a][t[before[a]]]
      BY <1>6 DEF Recurs
    <2>3. \A a \in GF \ {0} : t[a] = [b \in GF |-> 2 * t[a \div 2][b \div 2] + ((a + b) % 2)]
      BY <2>1, <2>2, ZenonT(30)
    <2>4. t[0] = [b \in GF |-> b]
      BY <1>1, <2>2
    <2>5. \A a \in GF :
            t[a] = [b \in GF |-> IF a = 0 THEN b
                                 ELSE 2 * t[a \div 2][b \div 2] + ((a + b) % 2)]
      BY <2>3, <2>4
    <2> QED
      BY <1>6, <2>5 DEF IsXorTable
  <1>8. IsXorTable(XorTable)
    <2>1. XorTable = CHOOSE u : IsXorTable(u)
      BY DEF XorTable, IsXorTable
    <2> QED
      BY <1>7, <2>1
  <1> HIDE DEF V
  <1>9. \A a, b \in GF :
          XorTable[a][b] = IF a = 0 THEN b ELSE 2 * XorTable[a \div 2][b \div 2] + ((a + b) % 2)
    BY <1>8 DEF IsXorTable
  <1>10. \A b \in GF : XorTable[0][b] = b
    BY <1>1, <1>9
  <1>11. \A a, b \in GF : XorTable[a][b] = 2 * XorTable[a \div 2][b \div 2] + ((a + b) % 2)
    <2> TAKE a, b \in GF
    <2>1. CASE a = 0
      <3>1. 0 \div 2 = 0
        OBVIOUS
      <3>2. XorTable[0][b \div 2] = b \div 2 /\ XorTable[0][b] = b
        BY <1>1, <1>10
      <3>3. b = 2 * (b \div 2) + (b % 2) /\ 0 + b = b
        BY <1>1
      <3> QED
        BY <2>1, <3>1, <3>2, <3>3
    <2>2. CASE a # 0
      BY <1>9, <2>2
    <2> QED
      BY <2>1, <2>2
  <1> DEFINE Good == {a \in GF : \A b \in GF : XorTable[a][b] \in Nat}
  <1>12. GF \cap {0} \subseteq Good
    BY <1>1, <1>10
  <1>13. \A a \in GF \ {0} : before[a] \in Good => a \in Good
    <2>1. ASSUME NEW a \in GF \ {0}, before[a] \in Good, NEW b \in GF
          PROVE  XorTable[a][b] \in Nat
      <3>1. XorTable[a \div 2][b \div 2] \in Nat
        BY <1>1, <2>1
      <3>2. (a + b) % 2 \in Nat
        BY <1>1
      <3> QED
        BY <1>11, <3>1, <3>2
    <2> QED
      BY <2>1
  <1>14. GF \subseteq Good
    <2> HIDE DEF Good, rank, before
    <2> QED
      BY <1>2, <1>12, <1>13, AlongTheRanks
  <1> QED
    BY <1>1, <1>10, <1>11, <1>14

\* What holds of 0, and of a if of its half, holds throughout.
LEMMA AlongTheHalves ==
  ASSUME NEW Good, 0 \in Good, \A a \in GF \ {0} : a \div 2 \in Good => a \in Good
  PROVE  GF \subseteq Good
  <1> DEFINE rank   == [a \in GF |-> a]
             before == [a \in GF |-> a \div 2]
  <1>1. GF \subseteq Nat /\ \A a \in GF : a \div 2 \in GF /\ (a # 0 => a \div 2 < a)
    BY FieldSize
  <1>2. rank \in [GF -> Nat] /\ Founded(GF, {0}, rank, before)
    BY <1>1 DEF Founded
  <1>3. GF \cap {0} \subseteq Good /\ \A a \in GF \ {0} : before[a] \in Good => a \in Good
    OBVIOUS
  <1> HIDE DEF rank, before
  <1> QED
    BY <1>2, <1>3, AlongTheRanks

LEMMA PowerOfZero == 2 ^ 0 = 1
  <1>1. IsFiniteSet({}) /\ Cardinality({}) = 0
    BY FS_EmptySet
  <1>2. Cardinality(SUBSET {}) = 2 ^ 0
    BY <1>1, FS_SUBSET
  <1>3. Cardinality({{}}) = 1
    BY FS_Singleton
  <1>4. SUBSET {} = {{}}
    OBVIOUS
  <1> QED
    BY <1>2, <1>3, <1>4

LEMMA PowersPositive == \A n \in Nat : 2 ^ n # 0
  <1> DEFINE Good == {n \in Nat : 2 ^ n # 0}
  <1>1. 0 \in Good
    BY PowerOfZero
  <1>2. ASSUME NEW n \in Nat, n \in Good PROVE n + 1 \in Good
    <2>1. 2 ^ (n + 1) = 2 * 2 ^ n /\ 2 ^ n \in Nat /\ 2 ^ n # 0
      BY <1>2, PowerDoubles, PowersOfTwo
    <2> QED
      BY <2>1
  <1>3. Nat \subseteq Good
    <2> HIDE DEF Good
    <2> QED
      BY <1>1, <1>2, InductionOnNat
  <1> QED
    BY <1>3

LEMMA XorBelow ==
  \A k \in Nat : \A a, b \in GF : a < 2 ^ k /\ b < 2 ^ k => XorTable[a][b] < 2 ^ k
  <1> DEFINE Holds(p) == \A a, b \in GF : a < p /\ b < p => XorTable[a][b] < p
             Good == {k \in Nat : Holds(2 ^ k)}
  <1>1. GF \subseteq Nat /\ 0 \in GF
    BY FieldSize
  <1>2. 0 \in Good
    <2>1. \A a, b \in GF : a < 1 /\ b < 1 => a = 0 /\ b = 0
      BY <1>1
    <2>2. Holds(1)
      BY <1>1, <2>1, XorSteps
    <2> HIDE DEF Holds
    <2> QED
      BY <2>2, PowerOfZero
  <1>3. ASSUME NEW k \in Nat, k \in Good PROVE k + 1 \in Good
    <2> DEFINE p == 2 ^ k
    <2>1. p \in Nat /\ 2 ^ (k + 1) = 2 * p /\ Holds(p)
      BY <1>3, PowersOfTwo, PowerDoubles
    <2> HIDE DEF p
    <2>2. ASSUME NEW a \in GF, NEW b \in GF, a < 2 * p, b < 2 * p
          PROVE  XorTable[a][b] < 2 * p
      <3> DEFINE c == a \div 2
                 d == b \div 2
                 y == XorTable[c][d]
                 r == (a + b) % 2
      <3>1. XorTable[a][b] = 2 * y + r /\ c \in GF /\ d \in GF /\ y \in Nat
        BY XorSteps
      <3>2. c < p /\ d < p /\ r \in {0, 1}
        BY <1>1, <2>1, <2>2
      <3>3. y < p
        BY <2>1, <3>1, <3>2
      <3> HIDE DEF y, r
      <3> QED
        BY <2>1, <3>1, <3>2, <3>3
    <2>3. Holds(2 * p)
      BY <2>2
    <2> HIDE DEF Holds
    <2> QED
      BY <2>1, <2>3
  <1>4. Nat \subseteq Good
    <2> HIDE DEF Good
    <2> QED
      BY <1>2, <1>3, InductionOnNat
  <1> QED
    BY <1>4

LEMMA XorType == \A a, b \in GF : XorTable[a][b] \in GF
  <1>1. Bits \in Nat /\ \A a \in GF : a < 2 ^ Bits
    BY FieldSize
  <1>2. ASSUME NEW a \in GF, NEW b \in GF PROVE XorTable[a][b] \in GF
    <2>1. XorTable[a][b] \in Nat
      BY XorSteps
    <2>2. XorTable[a][b] < 2 ^ Bits
      BY <1>1, XorBelow
    <2> HIDE DEF XorTable
    <2> QED
      BY <2>1, <2>2, FieldSize
  <1> QED
    BY <1>2

\* Exclusive or, an abelian group in which each element is its own inverse.
LEMMA XorGroup ==
  /\ Monoid(GF, XorTable, 0)
  /\ \A a \in GF : XorTable[a][a] = 0
  <1>1. GF \subseteq Nat /\ 0 \in GF
    BY FieldSize
  <1>2. \A a, b \in GF : XorTable[a][b] = XorTable[b][a]
    <2> DEFINE Good == {a \in GF : \A b \in GF : XorTable[a][b] = XorTable[b][a]}
    <2>1. 0 \in Good
      <3> DEFINE Fine == {b \in GF : XorTable[b][0] = b}
      <3>1. 0 \in Fine
        BY <1>1, XorSteps
      <3>2. ASSUME NEW b \in GF \ {0}, b \div 2 \in Fine PROVE b \in Fine
        <4>1. XorTable[b][0] = 2 * XorTable[b \div 2][0 \div 2] + ((b + 0) % 2)
          BY <1>1, XorSteps
        <4>2. 0 \div 2 = 0 /\ b + 0 = b /\ b = 2 * (b \div 2) + (b % 2)
          BY <1>1
        <4>3. XorTable[b \div 2][0] = b \div 2
          BY <3>2
        <4> QED
          BY <4>1, <4>2, <4>3
      <3>3. GF \subseteq Fine
        <4> HIDE DEF Fine
        <4> QED
          BY <3>1, <3>2, AlongTheHalves
      <3> QED
        BY <1>1, <3>3, XorSteps
    <2>2. ASSUME NEW a \in GF \ {0}, a \div 2 \in Good PROVE a \in Good
      <3>1. ASSUME NEW b \in GF PROVE XorTable[a][b] = XorTable[b][a]
        <4>1. /\ XorTable[a][b] = 2 * XorTable[a \div 2][b \div 2] + ((a + b) % 2)
              /\ XorTable[b][a] = 2 * XorTable[b \div 2][a \div 2] + ((b + a) % 2)
              /\ b \div 2 \in GF
          BY XorSteps
        <4>2. XorTable[a \div 2][b \div 2] = XorTable[b \div 2][a \div 2]
          BY <2>2, <4>1
        <4>3. a + b = b + a
          BY <1>1
        <4> QED
          BY <4>1, <4>2, <4>3
      <3> QED
        BY <3>1
    <2>3. GF \subseteq Good
      <3> HIDE DEF Good
      <3> QED
        BY <2>1, <2>2, AlongTheHalves
    <2> QED
      BY <2>3
  <1>3. \A a, b, c \in GF : XorTable[XorTable[a][b]][c] = XorTable[a][XorTable[b][c]]
    <2> DEFINE Good == {a \in GF : \A b, c \in GF :
                          XorTable[XorTable[a][b]][c] = XorTable[a][XorTable[b][c]]}
    <2>1. 0 \in Good
      <3>1. \A b, c \in GF : XorTable[0][b] = b /\ XorTable[0][XorTable[b][c]] = XorTable[b][c]
        BY XorSteps, XorType
      <3> QED
        BY <1>1, <3>1
    <2>2. ASSUME NEW a \in GF \ {0}, a \div 2 \in Good PROVE a \in Good
      <3>1. ASSUME NEW b \in GF, NEW c \in GF
            PROVE  XorTable[XorTable[a][b]][c] = XorTable[a][XorTable[b][c]]
        <4> DEFINE a2 == a \div 2
                   b2 == b \div 2
                   c2 == c \div 2
                   x  == XorTable[a][b]
                   y  == XorTable[b][c]
                   x2 == XorTable[a2][b2]
                   y2 == XorTable[b2][c2]
        <4>1. a2 \in GF /\ b2 \in GF /\ c2 \in GF /\ x \in GF /\ y \in GF /\ x2 \in GF /\ y2 \in GF
          BY XorSteps, XorType
        <4>2. x = 2 * x2 + ((a + b) % 2) /\ y = 2 * y2 + ((b + c) % 2)
          BY XorSteps
        <4>3. XorTable[x2][c2] = XorTable[a2][y2]
          BY <2>2, <4>1
        <4>4. a \in Nat /\ b \in Nat /\ c \in Nat
          BY <1>1
        <4> HIDE DEF x, y, x2, y2, a2, b2, c2
        <4>5. x \in Nat /\ y \in Nat /\ x2 \in Nat /\ y2 \in Nat
          BY <1>1, <4>1
        <4>6. x \div 2 = x2 /\ y \div 2 = y2 /\ (x + c) % 2 = (a + y) % 2
          BY <4>2, <4>4, <4>5
        <4>7. XorTable[x][c] = 2 * XorTable[x \div 2][c \div 2] + ((x + c) % 2)
          BY <4>1, XorSteps
        <4>8. XorTable[a][y] = 2 * XorTable[a \div 2][y \div 2] + ((a + y) % 2)
          BY <4>1, XorSteps
        <4>9. XorTable[x][c] = XorTable[a][y]
          BY <4>3, <4>6, <4>7, <4>8 DEF a2, c2
        <4> QED
          BY <4>9 DEF x, y
      <3> QED
        BY <3>1
    <2>3. GF \subseteq Good
      <3> HIDE DEF Good
      <3> QED
        BY <2>1, <2>2, AlongTheHalves
    <2> QED
      BY <2>3
  <1>4. \A a \in GF : XorTable[a][a] = 0
    <2> DEFINE Good == {a \in GF : XorTable[a][a] = 0}
    <2>1. 0 \in Good
      BY <1>1, XorSteps
    <2>2. ASSUME NEW a \in GF \ {0}, a \div 2 \in Good PROVE a \in Good
      <3>1. XorTable[a][a] = 2 * XorTable[a \div 2][a \div 2] + ((a + a) % 2)
        BY XorSteps
      <3>2. (a + a) % 2 = 0
        BY <1>1
      <3> QED
        BY <2>2, <3>1, <3>2
    <2>3. GF \subseteq Good
      <3> HIDE DEF Good
      <3> QED
        BY <2>1, <2>2, AlongTheHalves
    <2> QED
      BY <2>3
  <1>5. Monoid(GF, XorTable, 0)
    BY <1>1, <1>2, <1>3, XorSteps, XorType DEF Monoid
  <1> QED
    BY <1>4, <1>5

\* The bits at and above the k-th, and those below, do not mix.
SplitsAt(p) ==
  \A a, b \in GF : \A u, v \in {0, p} :
     a < p /\ b < p /\ a + u \in GF /\ b + v \in GF
       => XorTable[a + u][b + v] = XorTable[a][b] + (IF u = v THEN 0 ELSE p)

LEMMA XorSplits ==
  ASSUME NEW m \in Nat, NEW h, h = 2 ^ m
  PROVE  SplitsAt(h)
  <1> DEFINE Good == {k \in Nat : SplitsAt(2 ^ k)}
  <1>1. GF \subseteq Nat /\ 0 \in GF
    BY FieldSize
  <1>2. 0 \in Good
    <2>1. ASSUME NEW u \in {0, 1}, NEW v \in {0, 1}, u \in GF, v \in GF
          PROVE  XorTable[u][v] = IF u = v THEN 0 ELSE 1
      <3>1. XorTable[u][v] = 2 * XorTable[u \div 2][v \div 2] + ((u + v) % 2)
        BY <2>1, XorSteps
      <3>2. u \div 2 = 0 /\ v \div 2 = 0 /\ XorTable[0][0] = 0
        BY <1>1, XorSteps
      <3>3. XorTable[u][v] = (u + v) % 2
        <4>1. XorTable[u][v] = 2 * 0 + ((u + v) % 2)
          BY <3>1, <3>2
        <4> QED
          BY <4>1
      <3>4. (u + v) % 2 = IF u = v THEN 0 ELSE 1
        OBVIOUS
      <3> QED
        BY <3>3, <3>4
    <2>2. ASSUME NEW a \in GF, NEW b \in GF, NEW u \in {0, 1}, NEW v \in {0, 1},
                 a < 1, b < 1, a + u \in GF, b + v \in GF
          PROVE  XorTable[a + u][b + v] = XorTable[a][b] + (IF u = v THEN 0 ELSE 1)
      <3>1. a = 0 /\ b = 0 /\ a + u = u /\ b + v = v
        BY <1>1, <2>2
      <3>2. XorTable[0][0] = 0 /\ XorTable[u][v] = IF u = v THEN 0 ELSE 1
        BY <1>1, <2>1, <2>2, <3>1, XorSteps, SMTT(30)
      <3> QED
        BY <3>1, <3>2
    <2>3. SplitsAt(1)
      BY <2>2, ZenonT(30) DEF SplitsAt
    <2> QED
      BY <2>3, PowerOfZero
  <1>3. ASSUME NEW k \in Nat, k \in Good PROVE k + 1 \in Good
    <2> DEFINE p == 2 ^ k
               q == 2 * p
    <2>1. p \in Nat /\ 2 ^ (k + 1) = q /\ SplitsAt(p) /\ p > 0
      <3>1. p \in Nat /\ p # 0
        BY PowersOfTwo, PowersPositive
      <3> QED
        BY <1>3, <3>1, PowerDoubles
    <2> HIDE DEF p
    <2>2. ASSUME NEW a \in GF, NEW b \in GF, NEW u \in {0, q}, NEW v \in {0, q},
                 a < q, b < q, a + u \in GF, b + v \in GF
          PROVE  XorTable[a + u][b + v] = XorTable[a][b] + (IF u = v THEN 0 ELSE q)
      <3> DEFINE a2 == a \div 2
                 b2 == b \div 2
                 u2 == IF u = 0 THEN 0 ELSE p
                 v2 == IF v = 0 THEN 0 ELSE p
                 r  == (a + b) % 2
                 y  == XorTable[a2][b2]
                 z  == XorTable[a2 + u2][b2 + v2]
      <3>1. a \in Nat /\ b \in Nat
        BY <1>1
      <3>2. /\ (a + u) \div 2 = a2 + u2 /\ (b + v) \div 2 = b2 + v2
            /\ ((a + u) + (b + v)) % 2 = r
            /\ a2 < p /\ b2 < p /\ u2 \in {0, p} /\ v2 \in {0, p} /\ (u = v <=> u2 = v2)
        BY <2>1, <2>2, <3>1
      <3>3. a2 \in GF /\ b2 \in GF /\ a2 + u2 \in GF /\ b2 + v2 \in GF
        BY <2>2, <3>2, XorSteps
      <3>4. XorTable[a][b] = 2 * y + r /\ y \in Nat
        BY <3>3, XorSteps
      <3>5. XorTable[a + u][b + v] = 2 * z + r
        <4>1. XorTable[a + u][b + v]
                = 2 * XorTable[(a + u) \div 2][(b + v) \div 2] + (((a + u) + (b + v)) % 2)
          BY <2>2, XorSteps
        <4> QED
          BY <3>2, <4>1
      <3>6. z = y + (IF u2 = v2 THEN 0 ELSE p)
        BY <2>1, <3>2, <3>3, ZenonT(30) DEF SplitsAt
      <3>7. r \in Nat
        BY <3>1
      <3> HIDE DEF a2, b2, u2, v2, r, y, z
      <3> QED
        BY <2>1, <3>2, <3>4, <3>5, <3>6, <3>7
    <2>3. SplitsAt(q)
      BY <2>2, ZenonT(30) DEF SplitsAt
    <2> HIDE DEF q
    <2> QED
      BY <2>1, <2>3
  <1>4. Nat \subseteq Good
    <2> HIDE DEF Good
    <2> QED
      BY <1>2, <1>3, InductionOnNat
  <1> QED
    BY <1>4

\* f commutes with the addition.
Linear(f) == /\ \A a \in GF : f[a] \in GF
             /\ \A a, b \in GF : f[XorTable[a][b]] = XorTable[f[a]][f[b]]

Doubled == [a \in GF |-> Double(a)]

\* The reduction by the polynomial is linear: it depends on the highest bit alone.
LEMMA DoubledLinear == Linear(Doubled)
  <1>1. PICK h \in Nat : h = 2 ^ (Bits - 1) /\ 2 ^ Bits = 2 * h /\ h >= 2
    BY FieldSize
  <1>2. Bits - 1 \in Nat /\ GF = 0 .. (2 * h) - 1 /\ GF \subseteq Nat /\ 0 \in GF
    BY <1>1, FieldSize
  <1> DEFINE R == GF_PRIMITIVE - 2 ^ Bits
             Low(a) == IF a < h THEN a ELSE a - h
             Top(a) == IF a < h THEN 0 ELSE h
             Fed(a) == IF a < h THEN 0 ELSE R
  <1>3. R \in GF
    BY FieldSize
  <1>4. Monoid(GF, XorTable, 0)
    BY XorGroup
  <1>5. \A a \in GF : /\ Low(a) \in GF /\ Low(a) < h /\ 2 * Low(a) \in GF
                      /\ Top(a) \in {0, h} /\ a = Low(a) + Top(a) /\ Fed(a) \in GF
    BY <1>1, <1>2, <1>3
  <1>6. ASSUME NEW a \in GF
        PROVE  Doubled[a] = XorTable[2 * Low(a)][Fed(a)]
    <2>1. CASE a < h
      <3>1. 2 * a \in GF /\ Low(a) = a /\ Fed(a) = 0
        BY <1>1, <1>2, <2>1
      <3>2. XorTable[2 * a][0] = 2 * a
        BY <1>4, <3>1, MonoidNeutral
      <3>3. Doubled[a] = 2 * a
        BY <3>1 DEF Doubled, Double
      <3> QED
        BY <3>1, <3>2, <3>3
    <2>2. CASE ~(a < h)
      <3>1. 2 * a \notin GF /\ 2 * a - 2 ^ Bits = 2 * Low(a) /\ Fed(a) = R
        BY <1>1, <1>2, <2>2
      <3>2. Doubled[a] = XorTable[2 * a - 2 ^ Bits][GF_PRIMITIVE - 2 ^ Bits]
        BY <3>1 DEF Doubled, Double, gfAdd
      <3> QED
        BY <3>1, <3>2
    <2> QED
      BY <2>1, <2>2
  <1>7. ASSUME NEW a \in GF, NEW b \in GF
        PROVE  /\ XorTable[2 * Low(a)][2 * Low(b)] = 2 * Low(XorTable[a][b])
               /\ XorTable[Fed(a)][Fed(b)] = Fed(XorTable[a][b])
    <2> DEFINE a0 == Low(a)
               b0 == Low(b)
               y  == XorTable[a0][b0]
               x  == XorTable[a][b]
    <2>1. a0 \in GF /\ b0 \in GF /\ a0 < h /\ b0 < h /\ 2 * a0 \in GF /\ 2 * b0 \in GF
      BY <1>5
    <2>2. y < h /\ y \in Nat
      BY <1>1, <1>2, <2>1, XorBelow, XorSteps, ZenonT(30)
    <2>3. x = y + (IF Top(a) = Top(b) THEN 0 ELSE h)
      <3>1. \A c, d \in GF : \A u, v \in {0, h} :
              c < h /\ d < h /\ c + u \in GF /\ d + v \in GF
                => XorTable[c + u][d + v] = XorTable[c][d] + (IF u = v THEN 0 ELSE h)
        <4> DEFINE k == Bits - 1
        <4>1. k \in Nat /\ h = 2 ^ k
          BY <1>1, <1>2
        <4> HIDE DEF k
        <4>2. SplitsAt(h)
          BY <4>1, XorSplits
        <4> QED
          BY <4>2 DEF SplitsAt
      <3> DEFINE u == Top(a)
                 v == Top(b)
      <3>2. u \in {0, h} /\ v \in {0, h} /\ a = a0 + u /\ b = b0 + v
        BY <1>5
      <3> HIDE DEF a0, b0, u, v
      <3>3. a0 + u \in GF /\ b0 + v \in GF
        BY <3>2
      <3>4. XorTable[a0 + u][b0 + v] = XorTable[a0][b0] + (IF u = v THEN 0 ELSE h)
        BY <2>1, <3>1, <3>2, <3>3
      <3>5. XorTable[a][b] = XorTable[a0][b0] + (IF u = v THEN 0 ELSE h)
        BY <3>2, <3>4
      <3> QED
        BY <3>5 DEF u, v
    <2>4. Low(x) = y
      BY <1>1, <2>2, <2>3
    <2>5. Top(x) = IF Top(a) = Top(b) THEN 0 ELSE h
      BY <1>1, <2>2, <2>3
    <2>6. XorTable[2 * a0][2 * b0] = 2 * y
      <3>1. XorTable[2 * a0][2 * b0]
              = 2 * XorTable[(2 * a0) \div 2][(2 * b0) \div 2] + ((2 * a0 + 2 * b0) % 2)
        BY <2>1, XorSteps
      <3>2. /\ (2 * a0) \div 2 = a0 /\ (2 * b0) \div 2 = b0
            /\ (2 * a0 + 2 * b0) % 2 = 0
        <4>1. a0 \in Nat /\ b0 \in Nat
          BY <1>2, <2>1
        <4> HIDE DEF a0, b0
        <4> QED
          BY <4>1
      <3> HIDE DEF a0, b0
      <3> QED
        BY <2>2, <3>1, <3>2
    <2>7. XorTable[Fed(a)][Fed(b)] = Fed(x)
      <3>1. XorTable[0][0] = 0 /\ XorTable[R][0] = R /\ XorTable[0][R] = R /\ XorTable[R][R] = 0
        BY <1>2, <1>3, <1>4, XorGroup, MonoidNeutral
      <3>2. /\ Fed(a) = IF Top(a) = 0 THEN 0 ELSE R
            /\ Fed(b) = IF Top(b) = 0 THEN 0 ELSE R
            /\ Fed(x) = IF Top(x) = 0 THEN 0 ELSE R
        BY <1>1
      <3>3. Top(a) \in {0, h} /\ Top(b) \in {0, h} /\ h # 0
        BY <1>1
      <3> HIDE DEF Fed, Top, R
      <3> QED
        BY <2>5, <3>1, <3>2, <3>3
    <2> QED
      BY <2>4, <2>6, <2>7
  <1> HIDE DEF Low, Top, Fed
  <1>8. \A a \in GF : Doubled[a] \in GF
    <2> TAKE a \in GF
    <2> DEFINE l == 2 * Low(a)
               e == Fed(a)
    <2>1. l \in GF /\ e \in GF /\ Doubled[a] = XorTable[l][e]
      BY <1>5, <1>6
    <2> HIDE DEF l, e
    <2> QED
      BY <2>1, XorType
  <1>9. ASSUME NEW a \in GF, NEW b \in GF
        PROVE  Doubled[XorTable[a][b]] = XorTable[Doubled[a]][Doubled[b]]
    <2> DEFINE la == 2 * Low(a)
               lb == 2 * Low(b)
               ea == Fed(a)
               eb == Fed(b)
               x  == XorTable[a][b]
               lx == 2 * Low(x)
               ex == Fed(x)
    <2>1. la \in GF /\ lb \in GF /\ ea \in GF /\ eb \in GF /\ x \in GF
      BY <1>5, XorType
    <2>2. /\ Doubled[a] = XorTable[la][ea] /\ Doubled[b] = XorTable[lb][eb]
          /\ Doubled[x] = XorTable[lx][ex]
      BY <1>6, <2>1
    <2>3. lx = XorTable[la][lb] /\ ex = XorTable[ea][eb]
      BY <1>7
    <2> HIDE DEF la, lb, ea, eb, lx, ex
    <2>4. XorTable[XorTable[la][ea]][XorTable[lb][eb]] = XorTable[XorTable[la][lb]][XorTable[ea][eb]]
      BY <1>4, <2>1, MonoidMix
    <2> QED
      BY <2>2, <2>3, <2>4
  <1> QED
    BY <1>8, <1>9 DEF Linear

\* The recursion behind gfMultiplyNoTable.
MultiplyStep(from, left, x, result) ==
  IF left = 0 THEN result
  ELSE from[left \div 2][Double(x)][IF left % 2 = 1 THEN gfAdd(result, x) ELSE result]

IsMultiply(from) ==
  from = [left \in GF |-> [x \in GF |-> [result \in GF |-> MultiplyStep(from, left, x, result)]]]

LEMMA MultiplyUnfolds ==
  ASSUME NEW a, NEW b
  PROVE  gfMultiplyNoTable(a, b) = (CHOOSE from : IsMultiply(from))[b][a][0]
  BY DEF gfMultiplyNoTable, IsMultiply, MultiplyStep

LEMMA MultiplySteps ==
  ASSUME NEW from, IsMultiply(from), NEW left \in GF, NEW x \in GF, NEW result \in GF
  PROVE  from[left][x][result] = MultiplyStep(from, left, x, result)
  <1>1. from[left] = [y \in GF |-> [r \in GF |-> MultiplyStep(from, left, y, r)]]
    BY DEF IsMultiply
  <1>2. from[left][x] = [r \in GF |-> MultiplyStep(from, left, x, r)]
    BY <1>1
  <1> QED
    BY <1>2

LEMMA MultiplyExists == \E from : IsMultiply(from)
  <1> DEFINE V      == [GF -> [GF -> GF]]
             rank   == [left \in GF |-> left]
             before == [left \in GF |-> left \div 2]
             start  == [left \in GF |-> [x \in GF |-> [r \in GF |-> r]]]
             Step(left, v, x, r) == v[Double(x)][IF left % 2 = 1 THEN gfAdd(r, x) ELSE r]
             step   == [left \in GF |-> [v \in V |->
                          [x \in GF |-> [r \in GF |-> Step(left, v, x, r)]]]]
  <1>1. 0 \in GF /\ GF \subseteq Nat /\ \A a \in GF : a \div 2 \in GF /\ (a # 0 => a \div 2 < a)
    BY FieldSize
  <1>2. rank \in [GF -> Nat] /\ Founded(GF, {0}, rank, before)
    BY <1>1 DEF Founded
  <1>3. \A left \in GF \cap {0} : start[left] \in V
    OBVIOUS
  <1>4. \A left \in GF \ {0} : step[left] \in [V -> V]
    <2>1. ASSUME NEW left \in GF, NEW v \in V, NEW x \in GF, NEW r \in GF
          PROVE  Step(left, v, x, r) \in GF
      <3>1. Double(x) \in GF
        BY DoubledLinear DEF Linear, Doubled
      <3>2. gfAdd(r, x) \in GF
        BY XorType DEF gfAdd
      <3> QED
        BY <3>1, <3>2
    <2> HIDE DEF Step
    <2>2. \A left \in GF : \A v \in V :
            [x \in GF |-> [r \in GF |-> Step(left, v, x, r)]] \in V
      BY <2>1
    <2> HIDE DEF V
    <2> QED
      BY <2>2
  <1>5. \E t \in [GF -> V] : Recurs(t, GF, {0}, before, start, step)
    <2> HIDE DEF V, rank, before, start, step
    <2> QED
      BY <1>2, <1>3, <1>4, RecursionExists
  <1>6. PICK t \in [GF -> V] : Recurs(t, GF, {0}, before, start, step)
    BY <1>5
  <1>7. \A a \in GF : t[a] = IF a \in {0} THEN start[a] ELSE step[a][t[before[a]]]
    BY <1>6 DEF Recurs
  <1>8. \A a \in GF : \A x, r \in GF : t[a][x][r] = MultiplyStep(t, a, x, r)
    <2> TAKE a \in GF
    <2>1. CASE a = 0
      <3>1. t[a] = [x \in GF |-> [r \in GF |-> r]]
        BY <1>7, <2>1
      <3> QED
        BY <2>1, <3>1 DEF MultiplyStep
    <2>2. CASE a # 0
      <3>1. t[a] = step[a][t[a \div 2]] /\ t[a \div 2] \in V
        BY <1>1, <1>6, <1>7, <2>2
      <3> DEFINE v == t[a \div 2]
      <3>2. t[a] = [x \in GF |-> [r \in GF |-> Step(a, v, x, r)]]
        <4> HIDE DEF Step, V, v
        <4> QED
          BY <3>1 DEF v
      <3> HIDE DEF Step
      <3>3. \A x, r \in GF : t[a][x][r] = Step(a, v, x, r)
        BY <3>2
      <3> QED
        BY <2>2, <3>3 DEF MultiplyStep, Step
    <2> QED
      BY <2>1, <2>2
  <1>9. t = [a \in GF |-> [x \in GF |-> [r \in GF |-> t[a][x][r]]]]
    <2>1. \A a \in GF : t[a] \in [GF -> [GF -> GF]]
      BY <1>6
    <2>2. \A a, x \in GF : t[a][x] = [r \in GF |-> t[a][x][r]]
      BY <2>1
    <2>3. \A a \in GF : t[a] = [x \in GF |-> t[a][x]]
      BY <2>1
    <2>4. t = [a \in GF |-> t[a]]
      BY <1>6
    <2>5. \A a \in GF : t[a] = [x \in GF |-> [r \in GF |-> t[a][x][r]]]
      BY <2>2, <2>3
    <2> QED
      BY <2>4, <2>5
  <1> HIDE DEF V
  <1>10. \A a, x \in GF : [r \in GF |-> t[a][x][r]] = [r \in GF |-> MultiplyStep(t, a, x, r)]
    BY <1>8
  <1>11. \A a \in GF : [x \in GF |-> [r \in GF |-> t[a][x][r]]]
                         = [x \in GF |-> [r \in GF |-> MultiplyStep(t, a, x, r)]]
    BY <1>10
  <1>12. IsMultiply(t)
    BY <1>9, <1>11 DEF IsMultiply
  <1> QED
    BY <1>12

Tripled == [a \in GF |-> XorTable[a][Doubled[a]]]

\* Two rounds of the loop.
LEMMA MultiplyByThree ==
  ASSUME NEW a \in GF
  PROVE  gfMultiplyNoTable(a, 3) = Tripled[a]
  <1> DEFINE from == CHOOSE f : IsMultiply(f)
  <1>1. IsMultiply(from)
    BY MultiplyExists
  <1>2. gfMultiplyNoTable(a, 3) = from[3][a][0]
    BY MultiplyUnfolds
  <1> HIDE DEF from
  <1>3. 0 \in GF /\ 1 \in GF /\ 3 \in GF
    BY FieldSize
  <1> DEFINE d == Doubled[a]
             e == Doubled[d]
             x == XorTable[a][d]
  <1>4. d \in GF /\ e \in GF /\ x \in GF /\ d = Double(a) /\ e = Double(d)
    <2>1. d \in GF /\ d = Double(a)
      BY DoubledLinear DEF Linear, Doubled
    <2> HIDE DEF d
    <2> QED
      BY <2>1, DoubledLinear, XorType DEF Linear, Doubled
  <1> HIDE DEF d, e, x
  <1>5. XorTable[0][a] = a
    BY XorSteps
  <1>6. from[3][a][0] = from[1][d][a]
    <2>1. from[3][a][0] = MultiplyStep(from, 3, a, 0)
      BY <1>1, <1>3, MultiplySteps
    <2>2. 3 \div 2 = 1 /\ 3 % 2 = 1
      OBVIOUS
    <2> QED
      BY <1>4, <1>5, <2>1, <2>2 DEF MultiplyStep, gfAdd
  <1>7. from[1][d][a] = from[0][e][x]
    <2>1. from[1][d][a] = MultiplyStep(from, 1, d, a)
      BY <1>1, <1>3, <1>4, MultiplySteps
    <2>2. 1 \div 2 = 0 /\ 1 % 2 = 1
      OBVIOUS
    <2> QED
      BY <1>4, <2>1, <2>2 DEF MultiplyStep, gfAdd, x
  <1>8. from[0][e][x] = x
    <2>1. from[0][e][x] = MultiplyStep(from, 0, e, x)
      BY <1>1, <1>3, <1>4, MultiplySteps
    <2> QED
      BY <2>1 DEF MultiplyStep
  <1> QED
    BY <1>2, <1>6, <1>7, <1>8 DEF Tripled, x, d

LEMMA TripledLinear == Linear(Tripled)
  <1>1. Monoid(GF, XorTable, 0) /\ Linear(Doubled)
    BY XorGroup, DoubledLinear
  <1>2. \A a \in GF : Doubled[a] \in GF /\ Tripled[a] = XorTable[a][Doubled[a]] /\ Tripled[a] \in GF
    BY <1>1, XorType DEF Linear, Tripled
  <1>3. ASSUME NEW a \in GF, NEW b \in GF
        PROVE  Tripled[XorTable[a][b]] = XorTable[Tripled[a]][Tripled[b]]
    <2> DEFINE c == Doubled[a]
               d == Doubled[b]
               x == XorTable[a][b]
    <2>1. c \in GF /\ d \in GF /\ x \in GF /\ Doubled[x] = XorTable[c][d]
      BY <1>1, <1>2, XorType DEF Linear
    <2>2. Tripled[a] = XorTable[a][c] /\ Tripled[b] = XorTable[b][d] /\ Tripled[x] = XorTable[x][Doubled[x]]
      BY <1>2, <2>1
    <2> HIDE DEF c, d
    <2>3. XorTable[XorTable[a][b]][XorTable[c][d]] = XorTable[XorTable[a][c]][XorTable[b][d]]
      BY <1>1, <2>1, MonoidMix
    <2> QED
      BY <2>1, <2>2, <2>3
  <1> QED
    BY <1>2, <1>3 DEF Linear

Exponents == 0 .. Order - 1

IsPowersOfThree(x) ==
  x = [i \in 0 .. Order - 1 |-> IF i = 0 THEN 1 ELSE gfMultiplyNoTable(x[i - 1], 3)]

LEMMA ExpUnfolds ==
  expTable = [i \in 0 .. Order |-> (CHOOSE x : IsPowersOfThree(x))[i % Order]]
  BY DEF expTable, IsPowersOfThree

LEMMA ExpSteps ==
  /\ expTable[0] = 1
  /\ \A i \in Exponents : /\ expTable[i] \in GF
                          /\ i # 0 => i - 1 \in Exponents /\ expTable[i] = Tripled[expTable[i - 1]]
  <1> DEFINE I      == Exponents
             rank   == [i \in I |-> i]
             before == [i \in I |-> i - 1]
             start  == [i \in I |-> 1]
             step   == [i \in I |-> Tripled]
             it     == CHOOSE x : IsPowersOfThree(x)
  <1>1. /\ I \subseteq Nat /\ Order \in Nat \ {0} /\ 0 \in I /\ 1 \in GF
        /\ \A i \in I : /\ i % Order = i /\ i \in 0 .. Order
                        /\ i # 0 => i - 1 \in I /\ i - 1 < i
    <2>1. Order \in Nat /\ Order >= 3 /\ 1 \in GF
      BY FieldSize
    <2>2. \A i \in Residues(Order) : i % Order = i
      BY <2>1, ResidueIs
    <2> QED
      BY <2>1, <2>2 DEF Exponents, Residues
  <1>2. rank \in [I -> Nat] /\ Founded(I, {0}, rank, before)
    BY <1>1 DEF Founded
  <1>3. Tripled \in [GF -> GF]
    BY TripledLinear DEF Linear, Tripled
  <1>4. \E t \in [I -> GF] : Recurs(t, I, {0}, before, start, step)
    <2>1. \A i \in I \cap {0} : start[i] \in GF
      BY <1>1
    <2>2. \A i \in I \ {0} : step[i] \in [GF -> GF]
      BY <1>3
    <2> HIDE DEF rank, before, start, step, I
    <2> QED
      BY <1>2, <2>1, <2>2, RecursionExists
  <1>5. PICK t \in [I -> GF] : Recurs(t, I, {0}, before, start, step)
    BY <1>4
  <1>6. IsPowersOfThree(t)
    <2>1. \A i \in I : t[i] = IF i = 0 THEN 1 ELSE Tripled[t[i - 1]]
      BY <1>5 DEF Recurs
    <2>2. \A i \in I : i # 0 => Tripled[t[i - 1]] = gfMultiplyNoTable(t[i - 1], 3)
      BY <1>1, <1>5, MultiplyByThree
    <2>3. \A i \in I : t[i] = IF i = 0 THEN 1 ELSE gfMultiplyNoTable(t[i - 1], 3)
      BY <2>1, <2>2
    <2> QED
      BY <1>5, <2>3 DEF IsPowersOfThree, Exponents
  <1>7. IsPowersOfThree(it)
    BY <1>6
  <1> HIDE DEF it
  <1>8. \A i \in I : it[i] = IF i = 0 THEN 1 ELSE gfMultiplyNoTable(it[i - 1], 3)
    BY <1>7 DEF IsPowersOfThree, Exponents
  <1> DEFINE Good == {i \in I : it[i] \in GF}
  <1>9. I \cap {0} \subseteq Good
    BY <1>1, <1>8
  <1>10. \A i \in I \ {0} : before[i] \in Good => i \in Good
    <2>1. ASSUME NEW i \in I \ {0}, before[i] \in Good
          PROVE  it[i] \in GF
      <3>1. it[i - 1] \in GF
        BY <1>1, <2>1
      <3>2. it[i] = gfMultiplyNoTable(it[i - 1], 3)
        BY <1>8
      <3>3. gfMultiplyNoTable(it[i - 1], 3) = Tripled[it[i - 1]]
        BY <3>1, MultiplyByThree
      <3> QED
        BY <1>3, <3>1, <3>2, <3>3
    <2> QED
      BY <2>1
  <1>11. I \subseteq Good
    <2> HIDE DEF Good, rank, before, I
    <2> QED
      BY <1>2, <1>9, <1>10, AlongTheRanks
  <1>12. \A i \in I : i # 0 => it[i] = Tripled[it[i - 1]]
    <2> TAKE i \in I
    <2> HAVE i # 0
    <2>1. it[i - 1] \in GF
      BY <1>1, <1>11
    <2> QED
      BY <1>8, <2>1, MultiplyByThree
  <1>13. \A i \in I : expTable[i] = it[i]
    BY <1>1, ExpUnfolds DEF it
  <1>14. \A i \in I : it[i] \in GF
    BY <1>11
  <1> HIDE DEF I
  <1> QED
    BY <1>1, <1>8, <1>12, <1>13, <1>14 DEF I

\* Each element but 0 has one logarithm.
LEMMA ExpBijective ==
  /\ \A i \in Exponents : expTable[i] # 0
  /\ \A i, j \in Exponents : expTable[i] = expTable[j] => i = j
  /\ \A x \in GF \ {0} : \E i \in Exponents : expTable[i] = x
  <1> DEFINE J == Exponents
             U == GF \ {0}
             I == {i \in J : expTable[i] # 0}
             f == [i \in I |-> expTable[i]]
  <1>1. Order \in Nat /\ Order >= 3
    BY FieldSize
  <1>2. IsFiniteSet(J) /\ Cardinality(J) = Order
    <2>1. J = 0 .. Order - 1 /\ Order - 1 \in Int /\ (Order - 1) - 0 + 1 = Order /\ 0 <= Order - 1
      BY <1>1 DEF Exponents
    <2> QED
      BY <2>1, FS_Interval
  <1>3. IsFiniteSet(U) /\ Cardinality(U) = Order
    <2>1. U = 1 .. Order
      BY FieldSize
    <2> DEFINE m == Order
    <2>2. m - 1 + 1 = m /\ 1 <= m /\ m \in Int
      BY <1>1
    <2> HIDE DEF m
    <2>3. IsFiniteSet(1 .. m) /\ Cardinality(1 .. m) = m - 1 + 1
      BY <2>2, FS_Interval
    <2> HIDE DEF U
    <2> QED
      BY <2>1, <2>2, <2>3 DEF m
  <1>4. \A x \in U : \E i \in J : expTable[i] = x
    BY GeneratorAssumption DEF Exponents
  <1>5. f \in Surjection(I, U)
    <2>1. f \in [I -> U]
      BY ExpSteps
    <2>2. \A x \in U : \E i \in I : f[i] = x
      BY <1>4
    <2> HIDE DEF f, I, U
    <2> QED
      BY <2>1, <2>2 DEF Surjection
  <1>6. IsFiniteSet(I) /\ Cardinality(I) <= Cardinality(J) /\ (Cardinality(I) = Cardinality(J) => I = J)
    <2>1. I \in SUBSET J
      OBVIOUS
    <2> HIDE DEF I, J
    <2> QED
      BY <1>2, <2>1, FS_Subset
  <1>7. /\ Cardinality(U) <= Cardinality(I)
        /\ Cardinality(U) = Cardinality(I) <=> f \in Injection(I, U)
    <2> HIDE DEF f, I, U
    <2> QED
      BY <1>5, <1>6, FS_Surjection
  <1>8. Cardinality(I) = Order
    <2>1. Cardinality(I) \in Nat
      BY <1>6, FS_CardinalityType
    <2> QED
      BY <1>1, <1>2, <1>3, <1>6, <1>7, <2>1
  <1>9. I = J
    BY <1>2, <1>6, <1>8
  <1>10. \A i, j \in I : f[i] = f[j] => i = j
    <2>1. f \in Injection(I, U)
      BY <1>3, <1>7, <1>8
    <2>2. DOMAIN f = I
      OBVIOUS
    <2> HIDE DEF f, I, U
    <2> QED
      BY <2>1, <2>2 DEF Injection, IsInjective
  <1>11. \A i, j \in I : expTable[i] = expTable[j] => i = j
    BY <1>10
  <1> QED
    BY <1>4, <1>9, <1>11

\* Multiplication by 3 loses nothing: what it took to 0 it would add to 1 unseen.
LEMMA TripledInjective == \A a, b \in GF : Tripled[a] = Tripled[b] => a = b
  <1>1. Linear(Tripled) /\ Monoid(GF, XorTable, 0) /\ \A a \in GF : XorTable[a][a] = 0
    BY TripledLinear, XorGroup
  <1>2. Order \in Nat /\ Order >= 3 /\ 0 \in GF /\ 1 \in GF
    BY FieldSize
  <1>3. ASSUME NEW k \in GF, k # 0, Tripled[k] = 0
        PROVE  FALSE
    <2>1. \A i \in Exponents : i # Order - 1 =>
            /\ i + 1 \in Exponents
            /\ expTable[i + 1] = Tripled[expTable[i]]
            /\ expTable[i] # k
      <3>1. ASSUME NEW i \in Exponents, i # Order - 1
            PROVE  /\ i + 1 \in Exponents
                   /\ expTable[i + 1] = Tripled[expTable[i]]
                   /\ expTable[i] # k
        <4>1. i + 1 \in Exponents /\ i + 1 # 0 /\ (i + 1) - 1 = i
          BY <1>2, <3>1 DEF Exponents
        <4>2. expTable[i + 1] = Tripled[expTable[i]]
          BY <4>1, ExpSteps
        <4>3. expTable[i + 1] # 0
          BY <4>1, ExpBijective
        <4> QED
          BY <1>3, <4>1, <4>2, <4>3
      <3> QED
        BY <3>1
    <2>2. 0 \in Exponents /\ 0 # Order - 1 /\ expTable[0] = 1
      BY <1>2, ExpSteps DEF Exponents
    <2> DEFINE s == XorTable[1][k]
    <2>3. s \in GF /\ XorTable[s][k] = 1
      <3>1. XorTable[XorTable[1][k]][k] = XorTable[1][XorTable[k][k]]
        BY <1>1, <1>2, <1>3, MonoidAssociates
      <3>2. XorTable[1][0] = 1
        BY <1>1, <1>2, MonoidNeutral
      <3> QED
        BY <1>1, <1>2, <1>3, <3>1, <3>2, XorType
    <2>4. s # 0
      <3>1. XorTable[0][k] = k
        BY <1>1, <1>3, MonoidNeutral
      <3>2. 1 # k
        BY <2>1, <2>2
      <3> QED
        BY <2>3, <3>1, <3>2
    <2>5. s # k
      BY <1>1, <1>3, <2>3
    <2>6. s # 1
      <3>1. XorTable[s][1] = XorTable[1][s]
        BY <1>1, <1>2, <2>3, Commutes
      <3>2. ASSUME s = 1 PROVE FALSE
        <4>1. XorTable[1][k] = 1 /\ XorTable[1][1] = 0
          BY <1>1, <1>2, <3>2
        <4>2. XorTable[XorTable[1][1]][k] = XorTable[1][XorTable[1][k]]
          BY <1>1, <1>2, <1>3, MonoidAssociates
        <4>3. XorTable[0][k] = k
          BY <1>1, <1>3, MonoidNeutral
        <4> QED
          BY <1>3, <4>1, <4>2, <4>3
      <3> QED
        BY <3>2
    <2>7. Tripled[s] = Tripled[1]
      <3>1. Tripled[s] = XorTable[Tripled[1]][Tripled[k]] /\ Tripled[1] \in GF
        BY <1>1, <1>2, <1>3 DEF Linear
      <3>2. XorTable[Tripled[1]][0] = Tripled[1]
        BY <1>1, <3>1, MonoidNeutral
      <3> QED
        BY <1>3, <3>1, <3>2
    <2> HIDE DEF s
    <2>8. PICK j \in Exponents : expTable[j] = s
      BY <2>3, <2>4, ExpBijective
    <2>9. PICK m \in Exponents : expTable[m] = k
      BY <1>3, ExpBijective
    <2>10. m = Order - 1
      BY <2>1, <2>9
    <2>11. j # Order - 1 /\ j # 0
      BY <2>2, <2>5, <2>6, <2>8, <2>9, <2>10
    <2>12. expTable[j + 1] = expTable[0 + 1] /\ j + 1 \in Exponents /\ 0 + 1 \in Exponents
      BY <2>1, <2>2, <2>7, <2>8, <2>11
    <2>13. j + 1 = 0 + 1
      BY <2>12, ExpBijective
    <2>14. j \in Nat
      BY <1>2 DEF Exponents
    <2> QED
      BY <2>11, <2>13, <2>14
  <1>4. ASSUME NEW a \in GF, NEW b \in GF, Tripled[a] = Tripled[b]
        PROVE  a = b
    <2> DEFINE s == XorTable[a][b]
    <2>1. s \in GF /\ Tripled[s] = XorTable[Tripled[a]][Tripled[b]] /\ Tripled[b] \in GF
      BY <1>1, XorType DEF Linear
    <2>2. Tripled[s] = 0
      BY <1>1, <1>4, <2>1
    <2>3. s = 0
      BY <1>3, <2>1, <2>2
    <2>4. XorTable[XorTable[a][b]][b] = XorTable[a][XorTable[b][b]]
      BY <1>1, MonoidAssociates
    <2>5. XorTable[a][0] = a /\ XorTable[0][b] = b /\ XorTable[b][b] = 0
      BY <1>1, MonoidNeutral
    <2> QED
      BY <2>3, <2>4, <2>5
  <1> QED
    BY <1>4

\* The powers of 3 close a cycle.
LEMMA ExpCycles ==
  ASSUME NEW i \in Exponents
  PROVE  /\ (i + 1) % Order \in Exponents
         /\ Tripled[expTable[i]] = expTable[(i + 1) % Order]
  <1>1. Order \in Nat /\ Order >= 3 /\ i \in Nat /\ i <= Order - 1
    BY FieldSize DEF Exponents
  <1>2. CASE i # Order - 1
    <2>1. i + 1 \in Exponents /\ i + 1 # 0 /\ (i + 1) - 1 = i
      BY <1>1, <1>2 DEF Exponents
    <2>2. (i + 1) % Order = i + 1
      <3>1. i + 1 \in Residues(Order) /\ Order \in Nat \ {0}
        BY <1>1, <2>1 DEF Exponents, Residues
      <3> QED
        BY <3>1, ResidueIs
    <2> QED
      BY <2>1, <2>2, ExpSteps
  <1>3. CASE i = Order - 1
    <2> DEFINE t == Tripled[expTable[i]]
    <2>1. (i + 1) % Order = 0
      BY <1>1, <1>3
    <2>2. expTable[i] \in GF /\ expTable[i] # 0 /\ t \in GF
      BY ExpSteps, ExpBijective, TripledLinear DEF Linear
    <2>3. 0 \in GF /\ Tripled[0] = 0
      <3>1. 0 \in GF /\ XorTable[0][0] = 0 /\ \A a \in GF : XorTable[a][a] = 0
        BY FieldSize, XorGroup
      <3>2. Tripled[XorTable[0][0]] = XorTable[Tripled[0]][Tripled[0]] /\ Tripled[0] \in GF
        BY <3>1, TripledLinear DEF Linear
      <3> QED
        BY <3>1, <3>2
    <2>4. t # 0
      BY <2>2, <2>3, TripledInjective
    <2> HIDE DEF t
    <2>5. PICK m \in Exponents : expTable[m] = t
      BY <2>2, <2>4, ExpBijective
    <2>6. m = 0
      <3>1. ASSUME m # 0 PROVE FALSE
        <4>1. m - 1 \in Exponents /\ t = Tripled[expTable[m - 1]] /\ expTable[m - 1] \in GF
          BY <2>5, <3>1, ExpSteps
        <4>2. expTable[m - 1] = expTable[i]
          BY <2>2, <4>1, TripledInjective DEF t
        <4>3. m - 1 = i
          BY <4>1, <4>2, ExpBijective
        <4>4. m \in Nat /\ m <= Order - 1
          BY <1>1 DEF Exponents
        <4> QED
          BY <1>1, <1>3, <4>3, <4>4
      <3> QED
        BY <3>1
    <2> QED
      BY <2>1, <2>5, <2>6 DEF t
  <1> QED
    BY <1>2, <1>3

\* The logarithm of each element but 0 is its exponent.
LEMMA Logarithms ==
  /\ \A i \in Exponents : expTable[i] \in GF \ {0} /\ logTable[expTable[i]] = i
  /\ \A x \in GF \ {0} : logTable[x] \in Exponents /\ expTable[logTable[x]] = x
  <1>1. \A i \in Exponents : i \in Nat /\ expTable[i] \in GF \ {0}
    BY FieldSize, ExpSteps, ExpBijective DEF Exponents
  <1>2. ASSUME NEW i \in Exponents PROVE logTable[expTable[i]] = i
    <2> DEFINE x == expTable[i]
               S == {0} \cup {j \in 0 .. Order - 1 : expTable[j] = x}
    <2>1. logTable[x] = Max(S)
      BY <1>1 DEF logTable
    <2>2. \A j \in S : j = 0 \/ j = i
      BY ExpBijective DEF Exponents
    <2>3. i \in S /\ i \in Nat
      BY <1>1 DEF Exponents
    <2>4. \A j \in S : i >= j
      BY <2>2, <2>3
    <2> HIDE DEF S
    <2>5. \A m \in S : (\A j \in S : m >= j) => m = i
      BY <2>2, <2>3, <2>4
    <2>6. Max(S) = i
      BY <2>3, <2>4, <2>5 DEF Max
    <2> QED
      BY <2>1, <2>6
  <1>3. ASSUME NEW x \in GF \ {0}
        PROVE  logTable[x] \in Exponents /\ expTable[logTable[x]] = x
    <2>1. PICK i \in Exponents : expTable[i] = x
      BY ExpBijective
    <2> QED
      BY <1>2, <2>1
  <1> QED
    BY <1>1, <1>2, <1>3

MulTable == [a \in GF |-> [b \in GF |-> gfMultiply(a, b)]]

LEMMA Multiplies ==
  /\ \A a, b \in GF : MulTable[a][b] = gfMultiply(a, b) /\ MulTable[a][b] \in GF
  /\ \A a \in GF : MulTable[0][a] = 0 /\ MulTable[a][0] = 0
  /\ \A i, j \in Exponents : /\ (i + j) % Order \in Exponents
                             /\ MulTable[expTable[i]][expTable[j]] = expTable[(i + j) % Order]
  <1>1. 0 \in GF /\ Order \in Nat \ {0}
    BY FieldSize
  <1>2. \A i, j \in Exponents : (i + j) % Order \in Exponents
    <2> TAKE i, j \in Exponents
    <2>1. i + j \in Int
      BY <1>1 DEF Exponents
    <2> QED
      BY <1>1, <2>1, ResidueType DEF Residues, Exponents
  <1>3. ASSUME NEW a \in GF, NEW b \in GF
        PROVE  gfMultiply(a, b) \in GF
    <2>1. CASE a = 0 \/ b = 0
      BY <1>1, <2>1 DEF gfMultiply
    <2>2. CASE ~(a = 0 \/ b = 0)
      <3>1. logTable[a] \in Exponents /\ logTable[b] \in Exponents
        BY <2>2, Logarithms
      <3>2. expTable[(logTable[a] + logTable[b]) % Order] \in GF
        BY <1>2, <3>1, ExpSteps
      <3> QED
        BY <2>2, <3>2 DEF gfMultiply
    <2> QED
      BY <2>1, <2>2
  <1>4. \A a, b \in GF : MulTable[a][b] = gfMultiply(a, b)
    BY DEF MulTable
  <1>5. \A a \in GF : gfMultiply(0, a) = 0 /\ gfMultiply(a, 0) = 0
    BY DEF gfMultiply
  <1>6. ASSUME NEW i \in Exponents, NEW j \in Exponents
        PROVE  MulTable[expTable[i]][expTable[j]] = expTable[(i + j) % Order]
    <2>1. /\ expTable[i] \in GF \ {0} /\ expTable[j] \in GF \ {0}
          /\ logTable[expTable[i]] = i /\ logTable[expTable[j]] = j
      BY Logarithms
    <2> DEFINE a == expTable[i]
               b == expTable[j]
    <2>2. a \in GF /\ b \in GF /\ a # 0 /\ b # 0 /\ logTable[a] = i /\ logTable[b] = j
      BY <2>1
    <2> HIDE DEF a, b
    <2>3. MulTable[a][b] = expTable[(i + j) % Order]
      BY <1>4, <2>2 DEF gfMultiply
    <2> QED
      BY <2>3 DEF a, b
  <1> QED
    BY <1>1, <1>2, <1>3, <1>4, <1>5, <1>6

\* Multiplication by 1, and by the next power of 3.
LEMMA MultiplyByPowers ==
  /\ \A x \in GF : MulTable[1][x] = x
  /\ \A i \in Exponents : i # 0 =>
        \A x \in GF : MulTable[expTable[i]][x] = Tripled[MulTable[expTable[i - 1]][x]]
  <1>1. Order \in Nat \ {0} /\ 0 \in GF /\ 0 \in Exponents /\ \A i \in Exponents : i \in Nat
    BY FieldSize DEF Exponents
  <1>2. Tripled[0] = 0
    <2>1. XorTable[0][0] = 0 /\ \A a \in GF : XorTable[a][a] = 0
      BY <1>1, XorGroup
    <2>2. Tripled[XorTable[0][0]] = XorTable[Tripled[0]][Tripled[0]] /\ Tripled[0] \in GF
      BY <1>1, TripledLinear DEF Linear
    <2> QED
      BY <2>1, <2>2
  <1>3. \A x \in GF : x = 0 \/ \E j \in Exponents : x = expTable[j]
    BY ExpBijective
  <1>4. ASSUME NEW j \in Exponents PROVE MulTable[1][expTable[j]] = expTable[j]
    <2>1. expTable[0] = 1 /\ 0 + j = j
      BY <1>1, ExpSteps
    <2>2. j % Order = j
      BY <1>1, ResidueIs DEF Exponents, Residues
    <2>3. MulTable[expTable[0]][expTable[j]] = expTable[(0 + j) % Order]
      BY <1>1, Multiplies
    <2> QED
      BY <2>1, <2>2, <2>3
  <1>5. ASSUME NEW i \in Exponents, i # 0, NEW j \in Exponents
        PROVE  MulTable[expTable[i]][expTable[j]] = Tripled[MulTable[expTable[i - 1]][expTable[j]]]
    <2> DEFINE k == i - 1
               m == (k + j) % Order
    <2>1. k \in Exponents /\ i \in Nat /\ j \in Nat /\ k \in Nat
      BY <1>1, <1>5, ExpSteps
    <2>2. m \in Exponents /\ MulTable[expTable[k]][expTable[j]] = expTable[m]
      BY <2>1, Multiplies
    <2>3. Tripled[expTable[m]] = expTable[(m + 1) % Order]
      BY <2>2, ExpCycles
    <2>4. (m + 1) % Order = (i + j) % Order
      <3>1. (((k + j) % Order) + 1) % Order = ((k + j) + 1) % Order
        <4>1. k + j \in Int /\ 1 \in Int
          BY <2>1
        <4> HIDE DEF k
        <4> QED
          BY <1>1, <4>1, RemainderOfSum
      <3>2. (k + j) + 1 = i + j
        BY <2>1
      <3> QED
        BY <3>1, <3>2
    <2>5. MulTable[expTable[i]][expTable[j]] = expTable[(i + j) % Order]
      BY Multiplies
    <2> HIDE DEF m
    <2> QED
      BY <2>2, <2>3, <2>4, <2>5
  <1>6. ASSUME NEW x \in GF PROVE MulTable[1][x] = x
    <2>1. MulTable[1][0] = 0
      BY FieldSize, Multiplies
    <2> QED
      BY <1>3, <1>4, <2>1
  <1>7. ASSUME NEW i \in Exponents, i # 0, NEW x \in GF
        PROVE  MulTable[expTable[i]][x] = Tripled[MulTable[expTable[i - 1]][x]]
    <2>1. CASE x = 0
      <3>1. MulTable[expTable[i]][0] = 0 /\ MulTable[expTable[i - 1]][0] = 0
        BY <1>7, ExpSteps, Multiplies
      <3> QED
        BY <1>2, <2>1, <3>1
    <2>2. CASE x # 0
      BY <1>3, <1>5, <1>7, <2>2
    <2> QED
      BY <2>1, <2>2
  <1> QED
    BY <1>6, <1>7

\* Multiplication by any element is linear: it repeats the multiplication by 3.
LEMMA MultiplicationLinear == \A x \in GF : Linear(MulTable[x])
  <1>1. Order \in Nat \ {0} /\ 0 \in GF /\ \A i \in Exponents : i \in Nat
    BY FieldSize DEF Exponents
  <1>2. Linear(Tripled) /\ Monoid(GF, XorTable, 0)
    BY TripledLinear, XorGroup
  <1>3. \A x, y \in GF : MulTable[x][y] \in GF
    BY Multiplies
  <1> DEFINE Good == {k \in Nat : k \in Exponents => Linear(MulTable[expTable[k]])}
  <1>4. 0 \in Good
    <2>1. \A y \in GF : MulTable[1][y] = y
      BY MultiplyByPowers
    <2>2. Linear(MulTable[1])
      BY <2>1, XorType DEF Linear
    <2> QED
      BY <2>2, ExpSteps
  <1>5. ASSUME NEW k \in Nat, k \in Good PROVE k + 1 \in Good
    <2> SUFFICES ASSUME k + 1 \in Exponents PROVE Linear(MulTable[expTable[k + 1]])
      OBVIOUS
    <2> DEFINE m == k + 1
               u == MulTable[expTable[k]]
               v == MulTable[expTable[m]]
    <2>1. m \in Exponents /\ m # 0 /\ m - 1 = k
      OBVIOUS
    <2>2. k \in Exponents
      BY <2>1, ExpSteps
    <2>3. Linear(u)
      BY <1>5, <2>2
    <2>4. \A y \in GF : v[y] = Tripled[u[y]]
      <3>1. \A y \in GF : MulTable[expTable[m]][y] = Tripled[MulTable[expTable[m - 1]][y]]
        BY <2>1, MultiplyByPowers
      <3> QED
        BY <2>1, <3>1
    <2> HIDE DEF u, v, m
    <2>5. \A y \in GF : u[y] \in GF /\ v[y] \in GF
      BY <1>2, <2>3, <2>4 DEF Linear
    <2>6. ASSUME NEW a \in GF, NEW b \in GF
          PROVE  v[XorTable[a][b]] = XorTable[v[a]][v[b]]
      <3> DEFINE x == XorTable[a][b]
                 c == u[a]
                 d == u[b]
      <3>1. x \in GF /\ c \in GF /\ d \in GF /\ u[x] = XorTable[c][d]
        BY <2>3, <2>5, XorType DEF Linear
      <3>2. v[x] = Tripled[XorTable[c][d]] /\ v[a] = Tripled[c] /\ v[b] = Tripled[d]
        BY <2>4, <3>1
      <3> HIDE DEF c, d
      <3>3. Tripled[XorTable[c][d]] = XorTable[Tripled[c]][Tripled[d]]
        BY <1>2, <3>1 DEF Linear
      <3> QED
        BY <3>2, <3>3
    <2>7. Linear(v)
      BY <2>5, <2>6 DEF Linear
    <2> QED
      BY <2>7 DEF v, m
  <1>6. Nat \subseteq Good
    <2> HIDE DEF Good
    <2> QED
      BY <1>4, <1>5, InductionOnNat
  <1>7. Linear(MulTable[0])
    <2>1. \A y \in GF : MulTable[0][y] = 0
      BY Multiplies
    <2>2. XorTable[0][0] = 0
      BY <1>1, XorGroup
    <2> QED
      BY <1>1, <2>1, <2>2, XorType DEF Linear
  <1> QED
    BY <1>1, <1>6, <1>7, ExpBijective

\* The tables are those of a field.
ShamirField == IsField(GF, XorTable, MulTable, XorTable)

LEMMA TablesAreField == ShamirField /\ Monoid(GF, XorTable, 0) /\ Monoid(GF, MulTable, 1)
  <1>1. Order \in Nat \ {0} /\ 0 \in GF /\ 1 \in GF /\ \A i \in Exponents : i \in Nat
    BY FieldSize DEF Exponents
  <1>2. \A x \in GF : x = 0 \/ \E j \in Exponents : x = expTable[j]
    BY ExpBijective
  <1>3. \A x, y \in GF : MulTable[x][y] \in GF
    BY Multiplies
  <1>4. \A x, y \in GF : MulTable[x][y] = MulTable[y][x]
    <2>1. ASSUME NEW i \in Exponents, NEW j \in Exponents
          PROVE  MulTable[expTable[i]][expTable[j]] = MulTable[expTable[j]][expTable[i]]
      <3>1. i + j = j + i
        BY <1>1
      <3> QED
        BY <3>1, Multiplies
    <2>2. \A x \in GF : MulTable[0][x] = MulTable[x][0]
      BY Multiplies
    <2> QED
      BY <1>2, <2>1, <2>2
  <1>5. \A x, y, z \in GF : MulTable[MulTable[x][y]][z] = MulTable[x][MulTable[y][z]]
    <2>1. ASSUME NEW i \in Exponents, NEW j \in Exponents, NEW k \in Exponents
          PROVE  MulTable[MulTable[expTable[i]][expTable[j]]][expTable[k]]
                   = MulTable[expTable[i]][MulTable[expTable[j]][expTable[k]]]
      <3> DEFINE m == (i + j) % Order
                 n == (j + k) % Order
      <3>1. /\ m \in Exponents /\ MulTable[expTable[i]][expTable[j]] = expTable[m]
            /\ n \in Exponents /\ MulTable[expTable[j]][expTable[k]] = expTable[n]
        BY Multiplies
      <3>2. (m + k) % Order = (i + n) % Order
        <4> DEFINE plus == ModAdd(Order)
        <4>1. Monoid(Exponents, plus, 0)
          BY <1>1, ModAddMonoid DEF Residues, Exponents
        <4>2. \A x, y \in Exponents : plus[x][y] = (x + y) % Order
          BY DEF ModAdd, Residues, Exponents
        <4> HIDE DEF plus
        <4>3. m = plus[i][j] /\ n = plus[j][k]
          BY <4>2
        <4>4. (m + k) % Order = plus[m][k] /\ (i + n) % Order = plus[i][n]
          BY <3>1, <4>2
        <4>5. plus[plus[i][j]][k] = plus[i][plus[j][k]]
          BY <4>1, MonoidAssociates
        <4> HIDE DEF m, n
        <4> QED
          BY <4>3, <4>4, <4>5
      <3> HIDE DEF m, n
      <3>3. MulTable[expTable[m]][expTable[k]] = expTable[(m + k) % Order]
        BY <3>1, Multiplies
      <3>4. MulTable[expTable[i]][expTable[n]] = expTable[(i + n) % Order]
        BY <3>1, Multiplies
      <3> QED
        BY <3>1, <3>2, <3>3, <3>4
    <2>2. ASSUME NEW x \in GF, NEW y \in GF, NEW z \in GF, x = 0 \/ y = 0 \/ z = 0
          PROVE  MulTable[MulTable[x][y]][z] = MulTable[x][MulTable[y][z]]
      <3>1. \A a \in GF : MulTable[0][a] = 0 /\ MulTable[a][0] = 0
        BY Multiplies
      <3>2. MulTable[x][y] \in GF /\ MulTable[y][z] \in GF
        BY <1>3
      <3>3. CASE x = 0
        BY <3>1, <3>2, <3>3
      <3>4. CASE y = 0
        BY <3>1, <3>4
      <3>5. CASE z = 0
        BY <3>1, <3>2, <3>5
      <3> QED
        BY <2>2, <3>3, <3>4, <3>5
    <2>3. ASSUME NEW x \in GF, NEW y \in GF, NEW z \in GF, x # 0, y # 0, z # 0
          PROVE  MulTable[MulTable[x][y]][z] = MulTable[x][MulTable[y][z]]
      <3>1. PICK i \in Exponents : x = expTable[i]
        BY <1>2, <2>3
      <3>2. PICK j \in Exponents : y = expTable[j]
        BY <1>2, <2>3
      <3>3. PICK k \in Exponents : z = expTable[k]
        BY <1>2, <2>3
      <3> QED
        BY <2>1, <3>1, <3>2, <3>3
    <2> QED
      BY <2>2, <2>3
  <1>6. Monoid(GF, MulTable, 1)
    BY <1>1, <1>3, <1>4, <1>5, MultiplyByPowers DEF Monoid
  <1>7. \A x, y, z \in GF :
          MulTable[x][XorTable[y][z]] = XorTable[MulTable[x][y]][MulTable[x][z]]
    BY MultiplicationLinear DEF Linear
  <1>8. Monoid(GF, XorTable, 0) /\ \A a \in GF : XorTable[a][a] = 0
    BY XorGroup
  <1>9. \A x, y \in GF : XorTable[x][y] \in GF /\ XorTable[XorTable[x][y]][y] = x
    <2> TAKE x, y \in GF
    <2>1. XorTable[XorTable[x][y]][y] = XorTable[x][XorTable[y][y]]
      BY <1>8, MonoidAssociates
    <2>2. XorTable[x][0] = x
      BY <1>8, MonoidNeutral
    <2> QED
      BY <1>8, <2>1, <2>2, XorType
  <1>10. \A x \in GF \ {0} : \E y \in GF : MulTable[x][y] = 1
    <2> TAKE x \in GF \ {0}
    <2>1. PICK i \in Exponents : x = expTable[i]
      BY <1>2
    <2> DEFINE j == IF i = 0 THEN 0 ELSE Order - i
    <2>2. j \in Exponents /\ (i + j) % Order = 0
      <3>1. i \in Nat /\ i < Order /\ 0 \in Exponents
        BY <1>1 DEF Exponents
      <3>2. CASE i = 0
        <4>1. 0 % Order = 0
          BY <1>1
        <4> QED
          BY <3>1, <3>2, <4>1
      <3>3. CASE i # 0
        <4>1. i + (Order - i) = Order /\ Order % Order = 0 /\ Order - i \in Exponents
          BY <1>1, <3>1, <3>3 DEF Exponents
        <4> QED
          BY <3>3, <4>1
      <3> QED
        BY <3>2, <3>3
    <2> HIDE DEF j
    <2>3. MulTable[expTable[i]][expTable[j]] = 1 /\ expTable[j] \in GF
      BY <2>2, Multiplies, ExpSteps
    <2> QED
      BY <2>1, <2>3
  <1>11. ShamirField
    BY <1>6, <1>7, <1>8, <1>9, <1>10 DEF ShamirField, IsField
  <1> QED
    BY <1>6, <1>8, <1>11

\* Division undoes multiplication.
LEMMA Divides ==
  ASSUME NEW a \in GF, NEW b \in GF \ {0}
  PROVE  gfDivide(a, b) \in GF /\ MulTable[gfDivide(a, b)][b] = a
  <1>1. CASE a = 0
    <2>1. gfDivide(a, b) = 0
      BY <1>1 DEF gfDivide
    <2> QED
      BY <1>1, <2>1, Multiplies
  <1>2. CASE a # 0
    <2> DEFINE i == logTable[a]
               j == logTable[b]
               d == (i - j) + Order
               k == d % Order
    <2>1. /\ i \in Exponents /\ expTable[i] = a
          /\ j \in Exponents /\ expTable[j] = b
      BY <1>2, Logarithms
    <2>2. gfDivide(a, b) = expTable[k]
      BY <1>2 DEF gfDivide
    <2> HIDE DEF i, j
    <2>3. Order \in Nat \ {0} /\ i \in Nat /\ j \in Nat /\ d \in Int /\ d + j = i + Order
      BY <2>1, FieldSize DEF Exponents
    <2>4. k \in Exponents
      <3> HIDE DEF d
      <3> QED
        BY <2>3, ResidueType DEF Residues, Exponents
    <2>5. (k + j) % Order = i
      <3> DEFINE After(x, y) == ((x % Order) + y) % Order
                 Sum(x, y) == (x + y) % Order
      <3>1. \A x, y \in Int : After(x, y) = Sum(x, y)
        BY <2>3, RemainderOfSum
      <3> HIDE DEF d, After, Sum
      <3>6. d \in Int /\ i \in Int /\ j \in Int /\ Order \in Int
        BY <2>3
      <3>7. After(d, j) = Sum(d, j) /\ After(Order, i) = Sum(Order, i)
        BY <3>1, <3>6
      <3>2. (k + j) % Order = (d + j) % Order
        BY <3>7 DEF After, Sum
      <3>3. i % Order = i
        BY <2>1, <2>3, ResidueIs DEF Exponents, Residues
      <3>4. ((Order % Order) + i) % Order = (Order + i) % Order
        BY <3>7 DEF After, Sum
      <3>5. (Order % Order) = 0 /\ Order + i = i + Order /\ 0 + i = i
        BY <2>3
      <3> QED
        BY <2>3, <3>2, <3>3, <3>4, <3>5
    <2> HIDE DEF k
    <2>6. MulTable[expTable[k]][expTable[j]] = expTable[(k + j) % Order]
      BY <2>1, <2>4, Multiplies
    <2> QED
      BY <2>1, <2>2, <2>4, <2>5, <2>6, ExpSteps
  <1> QED
    BY <1>1, <1>2

----------------------------------------------------------------------------
(* Sharing and combining.                                                  *)

\* The recursions behind SumOf and ProductOf.
IsSumOf(f, S, it) ==
  it = [T \in SUBSET S |-> IF T = {} THEN 0
                           ELSE gfAdd(it[T \ {Chosen(T)}], f[Chosen(T)])]

LEMMA SumOfUnfolds ==
  ASSUME NEW f
  PROVE  SumOf(f) = (CHOOSE it : IsSumOf(f, DOMAIN f, it))[DOMAIN f]
  BY DEF SumOf, FoldFunction, FoldFunctionOnSet, MapThenFoldSet, IsSumOf, Chosen

LEMMA SumOfIsFold ==
  ASSUME NEW S, IsFiniteSet(S), NEW f \in [S -> GF]
  PROVE  SumOf(f) = Fold(XorTable, 0, f, S)
  <1> DEFINE jt == [T \in SUBSET S |-> Fold(XorTable, 0, f, T)]
             it == CHOOSE it : IsSumOf(f, DOMAIN f, it)
  <1>1. DOMAIN f = S /\ Monoid(GF, XorTable, 0)
    BY TablesAreField
  <1>2. \A T \in SUBSET S : IsFiniteSet(T) /\ ValuesIn(GF, f, T)
    BY FS_Subset DEF ValuesIn
  <1>3. Fold(XorTable, 0, f, {}) = 0
    BY <1>1, FoldEmpty
  <1>4. ASSUME NEW T \in SUBSET S, T # {}
        PROVE  /\ Chosen(T) \in T
               /\ Fold(XorTable, 0, f, T) = gfAdd(Fold(XorTable, 0, f, T \ {Chosen(T)}), f[Chosen(T)])
    <2> DEFINE c == Chosen(T)
               v == Fold(XorTable, 0, f, T \ {c})
               a == f[c]
    <2>1. c \in T /\ Takes(XorTable, 0, f, T, c)
      BY <1>1, <1>2, <1>4, FoldChosen
    <2>2. v \in GF
      BY <1>1, <1>2, FoldType
    <2>3. Fold(XorTable, 0, f, T) = XorTable[a][v]
      BY <2>1 DEF Takes
    <2>4. a \in GF
      BY <2>1
    <2> HIDE DEF v, a
    <2>5. XorTable[a][v] = XorTable[v][a] /\ XorTable[v][a] = gfAdd(v, a)
      BY <1>1, <2>2, <2>4, Commutes, Multiplies DEF gfAdd
    <2> QED
      BY <2>1, <2>3, <2>5 DEF v, a
  <1>5. IsSumOf(f, S, jt)
    BY <1>3, <1>4 DEF IsSumOf
  <1>6. IsSumOf(f, S, it)
    BY <1>1, <1>5
  <1> HIDE DEF it
  <1> DEFINE J      == SUBSET S
             Good   == {T \in J : it[T] = jt[T]}
             rank   == ChoiceRank(S)
             before == ChoiceBefore(S)
  <1>7. J \cap {{}} \subseteq Good
    BY <1>5, <1>6 DEF IsSumOf
  <1>8. \A T \in J \ {{}} : before[T] \in Good => T \in Good
    <2>1. ASSUME NEW T \in J \ {{}}, before[T] \in Good
          PROVE  T \in Good
      <3>1. it[T \ {Chosen(T)}] = jt[T \ {Chosen(T)}]
        BY <2>1 DEF ChoiceBefore
      <3>2. it[T] = gfAdd(it[T \ {Chosen(T)}], f[Chosen(T)])
        BY <1>6 DEF IsSumOf
      <3> HIDE DEF jt
      <3>3. jt[T] = gfAdd(jt[T \ {Chosen(T)}], f[Chosen(T)])
        BY <1>5 DEF IsSumOf
      <3> QED
        BY <3>1, <3>2, <3>3
    <2> QED
      BY <2>1
  <1>9. J \subseteq Good
    <2>1. rank \in [J -> Nat] /\ Founded(J, {{}}, rank, before)
      BY ChoosingEnds
    <2> HIDE DEF J, Good, rank, before
    <2> QED
      BY <1>7, <1>8, <2>1, AlongTheRanks
  <1>10. it[S] = Fold(XorTable, 0, f, S)
    BY <1>9
  <1> QED
    BY <1>1, <1>10, SumOfUnfolds DEF it

IsProductOf(f, S, it) ==
  it = [T \in SUBSET S |-> IF T = {} THEN 1
                           ELSE gfMultiply(it[T \ {Chosen(T)}], f[Chosen(T)])]

LEMMA ProductOfUnfolds ==
  ASSUME NEW f
  PROVE  ProductOf(f) = (CHOOSE it : IsProductOf(f, DOMAIN f, it))[DOMAIN f]
  BY DEF ProductOf, FoldFunction, FoldFunctionOnSet, MapThenFoldSet, IsProductOf, Chosen

LEMMA ProductOfIsFold ==
  ASSUME NEW S, IsFiniteSet(S), NEW f \in [S -> GF]
  PROVE  ProductOf(f) = Fold(MulTable, 1, f, S)
  <1> DEFINE jt == [T \in SUBSET S |-> Fold(MulTable, 1, f, T)]
             it == CHOOSE it : IsProductOf(f, DOMAIN f, it)
  <1>1. DOMAIN f = S /\ Monoid(GF, MulTable, 1)
    BY TablesAreField
  <1>2. \A T \in SUBSET S : IsFiniteSet(T) /\ ValuesIn(GF, f, T)
    BY FS_Subset DEF ValuesIn
  <1>3. Fold(MulTable, 1, f, {}) = 1
    BY <1>1, FoldEmpty
  <1>4. ASSUME NEW T \in SUBSET S, T # {}
        PROVE  /\ Chosen(T) \in T
               /\ Fold(MulTable, 1, f, T) = gfMultiply(Fold(MulTable, 1, f, T \ {Chosen(T)}), f[Chosen(T)])
    <2> DEFINE c == Chosen(T)
               v == Fold(MulTable, 1, f, T \ {c})
               a == f[c]
    <2>1. c \in T /\ Takes(MulTable, 1, f, T, c)
      BY <1>1, <1>2, <1>4, FoldChosen
    <2>2. v \in GF
      BY <1>1, <1>2, FoldType
    <2>3. Fold(MulTable, 1, f, T) = MulTable[a][v]
      BY <2>1 DEF Takes
    <2>4. a \in GF
      BY <2>1
    <2> HIDE DEF v, a
    <2>5. MulTable[a][v] = MulTable[v][a] /\ MulTable[v][a] = gfMultiply(v, a)
      BY <1>1, <2>2, <2>4, Commutes, Multiplies DEF gfAdd
    <2> QED
      BY <2>1, <2>3, <2>5 DEF v, a
  <1>5. IsProductOf(f, S, jt)
    BY <1>3, <1>4 DEF IsProductOf
  <1>6. IsProductOf(f, S, it)
    BY <1>1, <1>5
  <1> HIDE DEF it
  <1> DEFINE J      == SUBSET S
             Good   == {T \in J : it[T] = jt[T]}
             rank   == ChoiceRank(S)
             before == ChoiceBefore(S)
  <1>7. J \cap {{}} \subseteq Good
    BY <1>5, <1>6 DEF IsProductOf
  <1>8. \A T \in J \ {{}} : before[T] \in Good => T \in Good
    <2>1. ASSUME NEW T \in J \ {{}}, before[T] \in Good
          PROVE  T \in Good
      <3>1. it[T \ {Chosen(T)}] = jt[T \ {Chosen(T)}]
        BY <2>1 DEF ChoiceBefore
      <3>2. it[T] = gfMultiply(it[T \ {Chosen(T)}], f[Chosen(T)])
        BY <1>6 DEF IsProductOf
      <3> HIDE DEF jt
      <3>3. jt[T] = gfMultiply(jt[T \ {Chosen(T)}], f[Chosen(T)])
        BY <1>5 DEF IsProductOf
      <3> QED
        BY <3>1, <3>2, <3>3
    <2> QED
      BY <2>1
  <1>9. J \subseteq Good
    <2>1. rank \in [J -> Nat] /\ Founded(J, {{}}, rank, before)
      BY ChoosingEnds
    <2> HIDE DEF J, Good, rank, before
    <2> QED
      BY <1>7, <1>8, <2>1, AlongTheRanks
  <1>10. it[S] = Fold(MulTable, 1, f, S)
    BY <1>9
  <1> QED
    BY <1>1, <1>10, ProductOfUnfolds DEF it

ShamirWeight(S, i) == Weight(GF, MulTable, XorTable, S, i)
ShamirInterpolated(S, y) == Interpolated(GF, XorTable, MulTable, XorTable, S, y)

LEMMA FieldFinite == IsFiniteSet(GF) /\ \A S \in SUBSET GF : IsFiniteSet(S)
  <1>1. 0 \in Int /\ 2 ^ Bits - 1 \in Int
    BY FieldSize DEF Order
  <1>2. IsFiniteSet(GF)
    BY <1>1, FS_Interval DEF GF
  <1> QED
    BY <1>2, FS_Subset

\* The quotient in LagrangeTerm is the weight of the point.
LEMMA LagrangeTermIs ==
  ASSUME NEW S \in SUBSET GF, NEW i \in S, NEW y \in GF
  PROVE  LagrangeTerm(i, y, S) = MulTable[y][ShamirWeight(S, i)] /\ ShamirWeight(S, i) \in GF
  <1> DEFINE F  == GF
             add == XorTable
             mul == MulTable
             R  == S \ {i}
             fn == [j \in R |-> j]
             fd == [j \in R |-> gfAdd(i, j)]
             n  == ProductOf(fn)
             d  == ProductOf(fd)
             w  == gfDivide(n, d)
  <1>1. IsField(F, add, mul, add) /\ Monoid(F, mul, 1) /\ Monoid(F, add, 0)
    BY TablesAreField DEF ShamirField
  <1>2. S \in SUBSET F /\ IsFiniteSet(S) /\ IsFiniteSet(R) /\ i \in F
    BY FieldFinite
  <1>3. n = Numerator(F, mul, S, i)
    <2>1. fn \in [R -> GF]
      OBVIOUS
    <2>2. \A j \in R : fn[j] = Point(F)[j]
      BY DEF Point
    <2>3. ValuesIn(F, fn, R)
      BY <2>1 DEF ValuesIn
    <2> HIDE DEF fn
    <2>4. ProductOf(fn) = Fold(mul, 1, fn, R)
      BY <1>2, <2>1, ProductOfIsFold
    <2> HIDE DEF R, F, mul
    <2>5. Fold(mul, 1, fn, R) = Fold(mul, 1, Point(F), R)
      BY <1>1, <1>2, <2>2, <2>3, FoldCongruence
    <2> QED
      BY <2>4, <2>5 DEF Numerator, R, mul
  <1>4. d = Denominator(F, mul, add, S, i)
    <2>1. ASSUME NEW j \in R
          PROVE  fd[j] \in GF /\ fd[j] = Gap(F, add, i)[j]
      <3>1. add[i][j] = add[j][i] /\ add[i][j] \in F
        BY <1>1, <1>2, Commutes, MonoidType
      <3> QED
        BY <3>1 DEF gfAdd, Gap
    <2>2. fd \in [R -> GF] /\ \A j \in R : fd[j] = Gap(F, add, i)[j]
      BY <2>1
    <2>3. ValuesIn(F, fd, R)
      BY <2>1 DEF ValuesIn
    <2> HIDE DEF fd
    <2>4. ProductOf(fd) = Fold(mul, 1, fd, R)
      BY <1>2, <2>2, ProductOfIsFold
    <2> HIDE DEF R, F, mul, add
    <2>5. Fold(mul, 1, fd, R) = Fold(mul, 1, Gap(F, add, i), R)
      BY <1>1, <1>2, <2>2, <2>3, FoldCongruence
    <2> QED
      BY <2>4, <2>5 DEF Denominator, R, mul
  <1>5. LagrangeTerm(i, y, S) = gfMultiply(y, w)
    BY DEF LagrangeTerm
  <1> HIDE DEF n, d, R, fn, fd
  <1>6. d \in F \ {0} /\ n \in F
    <2> HIDE DEF F, add, mul
    <2> QED
      BY <1>1, <1>2, <1>3, <1>4, Denominators
  <1>7. w \in F /\ mul[w][d] = n
    BY <1>6, Divides
  <1> HIDE DEF w
  <1>8. IsWeight(F, mul, add, S, i, w)
    BY <1>3, <1>4, <1>7 DEF IsWeight
  <1>9. w = Weight(F, mul, add, S, i)
    <2> HIDE DEF F, add, mul
    <2> QED
      BY <1>1, <1>2, <1>8, Weights
  <1>10. gfMultiply(y, w) = mul[y][w]
    BY <1>7, Multiplies
  <1> QED
    BY <1>5, <1>7, <1>9, <1>10 DEF ShamirWeight

\* combine interpolates at 0.
LEMMA CombineInterpolates ==
  ASSUME NEW S \in SUBSET GF, NEW y \in [S -> GF]
  PROVE  combine(y) = ShamirInterpolated(S, y)
  <1> DEFINE f == [i \in S |-> LagrangeTerm(i, y[i], S)]
             t == WeightedTerms(GF, MulTable, XorTable, S, y)
  <1>1. IsFiniteSet(S) /\ Monoid(GF, XorTable, 0)
    BY FieldFinite, TablesAreField
  <1>2. ASSUME NEW i \in S
        PROVE  f[i] = t[i] /\ f[i] \in GF
    <2> DEFINE w == ShamirWeight(S, i)
               v == y[i]
    <2>1. v \in GF
      OBVIOUS
    <2> HIDE DEF v, w
    <2>2. LagrangeTerm(i, v, S) = MulTable[v][w] /\ w \in GF
      BY <2>1, LagrangeTermIs DEF w
    <2>3. MulTable[v][w] \in GF
      BY <2>1, <2>2, Multiplies
    <2>4. f[i] = LagrangeTerm(i, v, S) /\ t[i] = MulTable[v][w]
      BY DEF v, w, WeightedTerms, ShamirWeight
    <2> QED
      BY <2>2, <2>3, <2>4
  <1>3. f \in [S -> GF] /\ ValuesIn(GF, f, S) /\ \A i \in S : f[i] = t[i]
    BY <1>2 DEF ValuesIn
  <1>4. combine(y) = SumOf(f)
    BY DEF combine
  <1> HIDE DEF f, t
  <1>5. SumOf(f) = Fold(XorTable, 0, f, S)
    BY <1>1, <1>3, SumOfIsFold
  <1>6. Fold(XorTable, 0, f, S) = Fold(XorTable, 0, t, S)
    BY <1>1, <1>3, FoldCongruence
  <1> QED
    BY <1>4, <1>5, <1>6 DEF ShamirInterpolated, Interpolated, t

\* The recursion behind evaluatePolynomial.
IsEvaluation(c, x, result) ==
  result = [i \in 1 .. Len(c) + 1 |->
              IF i = Len(c) + 1 THEN 0 ELSE gfAdd(gfMultiply(result[i + 1], x), c[i])]

LEMMA EvaluationUnfolds ==
  ASSUME NEW c, NEW x
  PROVE  evaluatePolynomial(c, x) = (CHOOSE result : IsEvaluation(c, x, result))[1]
  BY DEF evaluatePolynomial, IsEvaluation

\* It is Horner's rule.
LEMMA HornerEvaluates ==
  ASSUME NEW c \in Seq(GF), NEW h, IsHorner(GF, XorTable, MulTable, Len(c), c, h),
         NEW x \in GF
  PROVE  evaluatePolynomial(c, x) = h[1][x]
  <1> DEFINE n  == Len(c)
             I  == 1 .. n + 1
             jt == [i \in I |-> h[i][x]]
             it == CHOOSE result : IsEvaluation(c, x, result)
  <1>1. n \in Nat /\ 1 \in I
    OBVIOUS
  <1>2. /\ h \in [I -> [GF -> GF]]
        /\ h[n + 1][x] = 0
        /\ \A i \in 1 .. n : h[i][x] = XorTable[MulTable[h[i + 1][x]][x]][c[i]]
    BY DEF IsHorner
  <1>3. ASSUME NEW i \in 1 .. n
        PROVE  /\ i + 1 \in I /\ i \in I
               /\ jt[i] = gfAdd(gfMultiply(jt[i + 1], x), c[i])
    <2>1. i + 1 \in I /\ i \in I
      BY <1>1
    <2> DEFINE a == h[i + 1][x]
    <2>2. a \in GF /\ h[i][x] = XorTable[MulTable[a][x]][c[i]]
      BY <1>2, <2>1
    <2>3. jt[i + 1] = a /\ jt[i] = h[i][x]
      BY <2>1
    <2> HIDE DEF a
    <2>4. MulTable[a][x] = gfMultiply(a, x)
      BY <2>2, Multiplies
    <2> QED
      BY <2>1, <2>2, <2>3, <2>4 DEF gfAdd
  <1>4. IsEvaluation(c, x, jt)
    <2>1. ASSUME NEW i \in I
          PROVE  jt[i] = IF i = n + 1 THEN 0 ELSE gfAdd(gfMultiply(jt[i + 1], x), c[i])
      <3>1. CASE i = n + 1
        BY <1>2, <3>1
      <3>2. CASE i # n + 1
        <4>1. i \in 1 .. n
          BY <1>1, <3>2
        <4> HIDE DEF jt
        <4> QED
          BY <1>3, <3>2, <4>1
      <3> QED
        BY <3>1, <3>2
    <2>2. jt = [i \in I |-> jt[i]]
      OBVIOUS
    <2> HIDE DEF jt
    <2>3. jt = [i \in I |-> IF i = n + 1 THEN 0 ELSE gfAdd(gfMultiply(jt[i + 1], x), c[i])]
      BY <2>1, <2>2
    <2> QED
      BY <2>3 DEF IsEvaluation
  <1>5. IsEvaluation(c, x, it)
    BY <1>4
  <1> HIDE DEF it
  <1> DEFINE base   == {n + 1}
             Good   == {i \in I : it[i] = jt[i]}
             rank   == [i \in I |-> (n + 1) - i]
             before == [i \in I |-> i + 1]
  <1>6. \A i \in I : it[i] = IF i = n + 1 THEN 0 ELSE gfAdd(gfMultiply(it[i + 1], x), c[i])
    BY <1>5 DEF IsEvaluation
  <1>7. I \cap base \subseteq Good
    BY <1>2, <1>6
  <1>8. \A i \in I \ base : before[i] \in Good => i \in Good
    <2>1. ASSUME NEW i \in I \ base, before[i] \in Good
          PROVE  i \in Good
      <3>1. i \in 1 .. n /\ before[i] = i + 1
        BY <1>1
      <3>2. it[i + 1] = jt[i + 1]
        BY <2>1, <3>1
      <3> HIDE DEF jt
      <3>3. jt[i] = gfAdd(gfMultiply(jt[i + 1], x), c[i])
        BY <1>3, <3>1
      <3>4. it[i] = gfAdd(gfMultiply(it[i + 1], x), c[i])
        BY <1>6
      <3> QED
        BY <3>2, <3>3, <3>4
    <2> QED
      BY <2>1
  <1>9. rank \in [I -> Nat] /\ Founded(I, base, rank, before)
    <2>1. \A i \in I : (n + 1) - i \in Nat
      BY <1>1
    <2>2. \A i \in I \ base : i + 1 \in I /\ (n + 1) - (i + 1) < (n + 1) - i
      BY <1>1
    <2> QED
      BY <2>1, <2>2 DEF Founded
  <1>10. I \subseteq Good
    <2> HIDE DEF I, base, Good, rank, before
    <2> QED
      BY <1>7, <1>8, <1>9, AlongTheRanks
  <1>11. it[1] = h[1][x]
    BY <1>1, <1>10
  <1> QED
    BY <1>11, EvaluationUnfolds DEF it

LEMMA HornerExists ==
  ASSUME NEW c \in Seq(GF)
  PROVE  \E h : IsHorner(GF, XorTable, MulTable, Len(c), c, h)
  <1> DEFINE n      == Len(c)
             I      == 1 .. n + 1
             V      == [GF -> GF]
             base   == {n + 1}
             rank   == [i \in I |-> (n + 1) - i]
             before == [i \in I |-> i + 1]
             start  == [i \in I |-> [x \in GF |-> 0]]
             step   == [i \in 1 .. n |->
                          [v \in V |-> [x \in GF |-> XorTable[MulTable[v[x]][x]][c[i]]]]]
  <1>1. n \in Nat /\ 0 \in GF /\ \A i \in 1 .. n : c[i] \in GF
    BY FieldSize
  <1>2. \A i \in I \ base : i \in 1 .. n /\ i + 1 \in I
    BY <1>1
  <1>3. \A i \in I \cap base : start[i] \in V
    BY <1>1
  <1>4. \A i \in I \ base : step[i] \in [V -> V]
    <2>1. ASSUME NEW i \in 1 .. n, NEW v \in V, NEW x \in GF
          PROVE  XorTable[MulTable[v[x]][x]][c[i]] \in GF
      <3> DEFINE a == v[x]
                 b == c[i]
      <3>1. a \in GF /\ b \in GF
        BY <1>1
      <3> HIDE DEF a, b
      <3>2. MulTable[a][x] \in GF
        BY <3>1, Multiplies
      <3>3. Monoid(GF, XorTable, 0)
        BY TablesAreField
      <3> DEFINE m == MulTable[a][x]
      <3>4. m \in GF
        BY <3>2
      <3> HIDE DEF m
      <3>5. XorTable[m][b] \in GF
        BY <3>1, <3>3, <3>4, MonoidType
      <3> QED
        BY <3>5 DEF m, a, b
    <2>2. \A i \in 1 .. n : step[i] \in [V -> V]
      BY <2>1
    <2> QED
      BY <1>2, <2>2
  <1>5. rank \in [I -> Nat] /\ Founded(I, base, rank, before)
    <2>1. \A i \in I : (n + 1) - i \in Nat
      BY <1>1
    <2>2. \A i \in I \ base : (n + 1) - (i + 1) < (n + 1) - i
      BY <1>1
    <2> QED
      BY <1>2, <2>1, <2>2 DEF Founded
  <1>6. \E h \in [I -> V] : Recurs(h, I, base, before, start, step)
    <2> HIDE DEF I, V, base, rank, before, start, step
    <2> QED
      BY <1>3, <1>4, <1>5, RecursionExists
  <1>7. PICK h \in [I -> V] : Recurs(h, I, base, before, start, step)
    BY <1>6
  <1>8. \A i \in I : h[i] = IF i \in base THEN start[i] ELSE step[i][h[before[i]]]
    <2> HIDE DEF I, V, base, before, start, step
    <2> QED
      BY <1>7 DEF Recurs
  <1>9. \A x \in GF : h[n + 1][x] = 0
    <2>1. n + 1 \in I
      BY <1>1
    <2>2. h[n + 1] = start[n + 1]
      BY <1>8, <2>1
    <2> QED
      BY <2>1, <2>2
  <1>10. ASSUME NEW i \in 1 .. n, NEW x \in GF
         PROVE  h[i][x] = XorTable[MulTable[h[i + 1][x]][x]][c[i]]
    <2>1. i \in I \ base /\ i + 1 \in I /\ before[i] = i + 1
      BY <1>1
    <2>2. h[i] = step[i][h[i + 1]] /\ h[i + 1] \in V
      BY <1>7, <1>8, <2>1
    <2> DEFINE v == h[i + 1]
    <2>3. v \in V /\ h[i] = step[i][v]
      BY <2>2
    <2> HIDE DEF v
    <2>4. h[i][x] = XorTable[MulTable[v[x]][x]][c[i]]
      BY <2>3
    <2> QED
      BY <2>4 DEF v
  <1>11. c \in [1 .. n -> GF]
    OBVIOUS
  <1> HIDE DEF step, start, rank, before, base
  <1>12. IsHorner(GF, XorTable, MulTable, n, c, h)
    BY <1>7, <1>9, <1>10, <1>11 DEF IsHorner
  <1> QED
    BY <1>12

----------------------------------------------------------------------------
(* A dealer and the holders of the shares.                                 *)

Coefficients(s, random) == <<s>> \o random

LEMMA ShamirSizes ==
  /\ MaxShares \in Nat /\ MaxShares >= 2
  /\ 1 .. MaxShares \in SUBSET GF /\ 0 \in GF /\ 0 \notin 1 .. MaxShares
  /\ Secrets \subseteq GF
  /\ IsFiniteSet(1 .. MaxShares)
  <1>1. Order \in Nat \ {0} /\ 0 \in GF
    BY FieldSize
  <1>2. MaxShares \in 2 .. Order /\ GF = 0 .. Order /\ Secrets \subseteq GF
    BY ShamirAssumption DEF Order, GF
  <1>3. MaxShares \in Nat /\ MaxShares >= 2 /\ 1 .. MaxShares \in SUBSET GF
    BY <1>1, <1>2
  <1>4. 0 \notin 1 .. MaxShares /\ IsFiniteSet(1 .. MaxShares)
    <2>1. 1 \in Int /\ MaxShares \in Int
      BY <1>3
    <2> QED
      BY <2>1, FS_Interval
  <1> QED
    BY <1>1, <1>2, <1>3, <1>4

LEMMA CoefficientsType ==
  ASSUME NEW t \in 2 .. MaxShares, NEW s \in GF, NEW random \in Random(t)
  PROVE  /\ Coefficients(s, random) \in Seq(GF) /\ Len(Coefficients(s, random)) = t
         /\ Coefficients(s, random)[1] = s
         /\ \A k \in 1 .. t - 1 : Coefficients(s, random)[k + 1] = random[k]
         /\ t \in Nat \ {0}
  <1>1. t \in Nat /\ t >= 2 /\ t - 1 \in Nat
    BY ShamirSizes
  <1>2. random \in Seq(GF) /\ Len(random) = t - 1
    BY <1>1 DEF Random
  <1>3. <<s>> \in Seq(GF) /\ Len(<<s>>) = 1 /\ <<s>>[1] = s
    OBVIOUS
  <1>4. Coefficients(s, random) \in Seq(GF) /\ Len(Coefficients(s, random)) = t
    BY <1>1, <1>2, <1>3 DEF Coefficients
  <1>5. Coefficients(s, random)[1] = s
    BY <1>1, <1>2, <1>3 DEF Coefficients
  <1>6. \A k \in 1 .. t - 1 : Coefficients(s, random)[k + 1] = random[k]
    BY <1>1, <1>2, <1>3 DEF Coefficients
  <1> QED
    BY <1>1, <1>4, <1>5, <1>6

\* The shares are values of the polynomial with those coefficients.
LEMMA SplitIs ==
  ASSUME NEW t \in 2 .. MaxShares, NEW s \in GF, NEW random \in Random(t)
  PROVE  /\ split(s, random, MaxShares) \in [1 .. MaxShares -> GF]
         /\ \E h : /\ IsHorner(GF, XorTable, MulTable, t, Coefficients(s, random), h)
                   /\ \A i \in 1 .. MaxShares : split(s, random, MaxShares)[i] = h[1][i]
  <1> DEFINE c == Coefficients(s, random)
             d == split(s, random, MaxShares)
  <1>1. c \in Seq(GF) /\ Len(c) = t /\ t \in Nat \ {0}
    BY CoefficientsType
  <1>2. \A i \in 1 .. MaxShares : i \in GF
    BY ShamirSizes
  <1>3. d = [i \in 1 .. MaxShares |-> evaluatePolynomial(c, i)]
    BY DEF split, Coefficients
  <1> HIDE DEF c, d
  <1>4. PICK h : IsHorner(GF, XorTable, MulTable, Len(c), c, h)
    BY <1>1, HornerExists
  <1>5. \A x \in GF : evaluatePolynomial(c, x) = h[1][x]
    BY <1>1, <1>4, HornerEvaluates
  <1>6. \A i \in 1 .. MaxShares : d[i] = h[1][i]
    BY <1>2, <1>3, <1>5
  <1>7. \A i \in 1 .. MaxShares : h[1][i] \in GF
    <2>1. h \in [1 .. t + 1 -> [GF -> GF]]
      BY <1>1, <1>4 DEF IsHorner
    <2>2. h[1] \in [GF -> GF]
      BY <1>1, <2>1
    <2> QED
      BY <1>2, <2>2
  <1>8. d \in [1 .. MaxShares -> GF]
    BY <1>2, <1>3, <1>5, <1>7
  <1> QED
    BY <1>1, <1>4, <1>6, <1>8 DEF c, d

LEMMA AtZero ==
  ASSUME NEW n \in Nat \ {0}, NEW c, NEW h, IsHorner(GF, XorTable, MulTable, n, c, h),
         NEW S \in SUBSET GF, IsFiniteSet(S), Cardinality(S) >= n
  PROVE  ShamirInterpolated(S, h[1]) = c[1]
  <1>1. IsField(GF, XorTable, MulTable, XorTable)
    BY TablesAreField DEF ShamirField
  <1> DEFINE F == GF
             add == XorTable
             mul == MulTable
  <1>2. IsField(F, add, mul, add) /\ IsHorner(F, add, mul, n, c, h) /\ S \in SUBSET F
    BY <1>1
  <1> HIDE DEF F, add, mul
  <1>3. Interpolated(F, add, mul, add, S, h[1]) = c[1]
    BY <1>2, InterpolatesAtZero
  <1> QED
    BY <1>3 DEF ShamirInterpolated, F, add, mul

\* As many shares as coefficients give back the first of them.
LEMMA QuorumCombines ==
  ASSUME NEW t \in 2 .. MaxShares, NEW s \in GF, NEW random \in Random(t),
         NEW S \in SUBSET (1 .. MaxShares), Cardinality(S) >= t
  PROVE  combine([i \in S |-> split(s, random, MaxShares)[i]]) = s
  <1> DEFINE c == Coefficients(s, random)
             d == split(s, random, MaxShares)
             y == [i \in S |-> d[i]]
  <1>1. t \in Nat \ {0} /\ c[1] = s
    BY CoefficientsType
  <1>2. d \in [1 .. MaxShares -> GF]
    BY SplitIs
  <1>3. PICK h : /\ IsHorner(GF, XorTable, MulTable, t, c, h)
                 /\ \A i \in 1 .. MaxShares : d[i] = h[1][i]
    BY SplitIs
  <1>4. S \in SUBSET GF /\ IsFiniteSet(S)
    BY ShamirSizes, FieldFinite
  <1>5. y \in [S -> GF]
    BY <1>2
  <1> DEFINE z == h[1]
  <1>6. \A i \in S : y[i] = z[i]
    BY <1>3
  <1>7. IsField(GF, XorTable, MulTable, XorTable)
    BY TablesAreField DEF ShamirField
  <1> HIDE DEF c, d, y
  <1>8. combine(y) = ShamirInterpolated(S, y)
    BY <1>4, <1>5, CombineInterpolates
  <1>9. ShamirInterpolated(S, z) = c[1]
    <2>1. Cardinality(S) >= t
      OBVIOUS
    <2>2. ShamirInterpolated(S, h[1]) = c[1]
      BY <1>1, <1>3, <1>4, <2>1, AtZero
    <2> QED
      BY <2>2
  <1>10. WeightedTerms(GF, MulTable, XorTable, S, y) = WeightedTerms(GF, MulTable, XorTable, S, z)
    <2> HIDE DEF z
    <2> QED
      BY <1>6 DEF WeightedTerms
  <1>11. combine(y) = s
    BY <1>1, <1>8, <1>9, <1>10 DEF ShamirInterpolated, Interpolated
  <1> QED
    BY <1>11 DEF y, d

\* Through one share less, and any other secret at 0, there is a polynomial too.
LEMMA BlindBelow ==
  ASSUME NEW t \in 2 .. MaxShares, NEW d \in [1 .. MaxShares -> GF],
         NEW S \in SUBSET (1 .. MaxShares), Cardinality(S) = t - 1, NEW other \in GF
  PROVE  \E random \in Random(t) :
           \A i \in S : split(other, random, MaxShares)[i] = d[i]
  <1> DEFINE T == S \cup {0}
             y == [i \in T |-> IF i = 0 THEN other ELSE d[i]]
  <1>1. t \in Nat \ {0} /\ t >= 2 /\ t - 1 \in Nat
    BY ShamirSizes
  <1>2. T \in SUBSET GF /\ IsFiniteSet(T) /\ IsFiniteSet(S) /\ 0 \notin S /\ 0 \in GF
    <2>1. S \in SUBSET GF /\ T \in SUBSET GF /\ 0 \notin S /\ 0 \in GF
      BY ShamirSizes
    <2> QED
      BY <2>1, FieldFinite
  <1>3. Cardinality(T) = t
    <2>1. Cardinality(T) = Cardinality(S) + 1
      BY <1>2, FS_AddElement
    <2> QED
      BY <1>1, <2>1
  <1>4. ValuesIn(GF, y, T) /\ y[0] = other /\ \A i \in S : y[i] = d[i]
    BY <1>2 DEF ValuesIn
  <1>5. IsField(GF, XorTable, MulTable, XorTable) /\ Monoid(GF, XorTable, 0)
    BY TablesAreField DEF ShamirField
  <1>6. 0 \in T
    OBVIOUS
  <1>7. S \subseteq T
    OBVIOUS
  <1> HIDE DEF T, y
  <1>8. PICK c, h : /\ IsHorner(GF, XorTable, MulTable, Cardinality(T), c, h)
                    /\ \A i \in T : h[1][i] = y[i]
    BY <1>2, <1>4, <1>5, Interpolates
  <1>9. /\ c \in [1 .. t -> GF]
        /\ h \in [1 .. t + 1 -> [GF -> GF]]
        /\ \A k \in 1 .. t : \A x \in GF : h[k][x] = XorTable[MulTable[h[k + 1][x]][x]][c[k]]
    BY <1>3, <1>8 DEF IsHorner
  <1>10. c[1] = other
    <2> DEFINE a == h[2][0]
    <2>1. 1 \in 1 .. t /\ 2 \in 1 .. t + 1 /\ c[1] \in GF /\ 1 + 1 = 2
      BY <1>1, <1>9
    <2>2. a \in GF /\ h[1][0] = XorTable[MulTable[a][0]][c[1]]
      BY <1>2, <1>9, <2>1
    <2> HIDE DEF a
    <2>3. MulTable[a][0] = 0
      BY <2>2, Multiplies
    <2>4. XorTable[0][c[1]] = c[1]
      BY <1>5, <2>1, MonoidNeutral
    <2> QED
      BY <1>4, <1>6, <1>8, <2>2, <2>3, <2>4
  <1> DEFINE random == [k \in 1 .. t - 1 |-> c[k + 1]]
  <1>11. random \in Random(t)
    BY <1>1, <1>9 DEF Random
  <1>12. Coefficients(other, random) = c
    <2> DEFINE b == Coefficients(other, random)
    <2>1. \A k \in 1 .. t - 1 : random[k] = c[k + 1]
      OBVIOUS
    <2> HIDE DEF random
    <2>2. /\ b \in Seq(GF) /\ Len(b) = t /\ b[1] = other
          /\ \A k \in 1 .. t - 1 : b[k + 1] = random[k]
      BY <1>11, CoefficientsType
    <2> HIDE DEF b
    <2>3. ASSUME NEW i \in 1 .. t PROVE b[i] = c[i]
      <3>1. CASE i = 1
        BY <1>10, <2>2, <3>1
      <3>2. CASE i # 1
        <4> DEFINE k == i - 1
        <4>1. k \in 1 .. t - 1 /\ k + 1 = i
          BY <1>1, <3>2
        <4> HIDE DEF k
        <4> QED
          BY <2>1, <2>2, <4>1
      <3> QED
        BY <3>1, <3>2
    <2>4. b = [i \in 1 .. t |-> b[i]] /\ c = [i \in 1 .. t |-> c[i]]
      BY <1>9, <2>2
    <2>5. b = c
      BY <2>3, <2>4
    <2> QED
      BY <2>5 DEF b
  <1>13. ASSUME NEW i \in S
         PROVE  split(other, random, MaxShares)[i] = d[i]
    <2>1. c \in Seq(GF) /\ Len(c) = t
      <3>1. c \in [1 .. t -> GF] /\ t \in Nat
        BY <1>1, <1>9
      <3> QED
        BY <3>1
    <2>2. i \in 1 .. MaxShares /\ i \in GF /\ i \in T
      BY <1>7, ShamirSizes
    <2>3. split(other, random, MaxShares)[i] = evaluatePolynomial(c, i)
      <3> HIDE DEF random
      <3> QED
        BY <1>12, <2>2 DEF split, Coefficients
    <2>4. evaluatePolynomial(c, i) = h[1][i]
      BY <1>3, <1>8, <2>1, <2>2, HornerEvaluates
    <2> QED
      BY <1>4, <1>8, <2>2, <2>3, <2>4
  <1> HIDE DEF random
  <1> QED
    BY <1>11, <1>13

\* The shares are those of the secret, and a combination is of some of them.
ShamirInv ==
  /\ secret \in Secrets
  /\ threshold \in 2 .. MaxShares
  /\ dealt = <<>> \/ \E random \in Random(threshold) : dealt = split(secret, random, MaxShares)
  /\ \/ combined.from = {}
     \/ /\ dealt # <<>>
        /\ combined.from \in SUBSET (1 .. MaxShares)
        /\ combined.value = combine([i \in combined.from |-> dealt[i]])

LEMMA DealtIs ==
  ASSUME ShamirInv, dealt # <<>>
  PROVE  /\ secret \in GF /\ dealt \in [1 .. MaxShares -> GF] /\ DOMAIN dealt = 1 .. MaxShares
         /\ \E random \in Random(threshold) : dealt = split(secret, random, MaxShares)
  <1>1. PICK random \in Random(threshold) : dealt = split(secret, random, MaxShares)
    BY DEF ShamirInv
  <1>2. secret \in GF /\ threshold \in 2 .. MaxShares
    BY ShamirSizes DEF ShamirInv
  <1>3. dealt \in [1 .. MaxShares -> GF]
    BY <1>1, <1>2, SplitIs
  <1> QED
    BY <1>1, <1>2, <1>3

LEMMA ShamirStep ==
  ASSUME ShamirInv, [ShamirNext]_shamirVars
  PROVE  ShamirInv'
  <1>1. CASE Split
    <2>1. dealt = <<>> /\ UNCHANGED <<secret, threshold, combined>>
      BY <1>1 DEF Split
    <2>2. PICK random \in Random(threshold) : dealt' = split(secret, random, MaxShares)
      BY <1>1 DEF Split
    <2>3. combined.from = {}
      BY <2>1 DEF ShamirInv
    <2> QED
      BY <2>1, <2>2, <2>3 DEF ShamirInv
  <1>2. CASE Combine
    <2>1. dealt # <<>> /\ UNCHANGED <<secret, threshold, dealt>>
      BY <1>2 DEF Combine
    <2>2. PICK from \in SUBSET DOMAIN dealt :
            combined' = [from |-> from, value |-> combine([i \in from |-> dealt[i]])]
      BY <1>2 DEF Combine
    <2>3. from \in SUBSET (1 .. MaxShares)
      BY <2>1, <2>2, DealtIs
    <2>4. combined'.from = from /\ combined'.value = combine([i \in from |-> dealt[i]])
      BY <2>2
    <2>5. combined'.value = combine([i \in combined'.from |-> dealt'[i]])
      BY <2>1, <2>4
    <2> QED
      BY <2>1, <2>3, <2>4, <2>5 DEF ShamirInv
  <1>3. CASE UNCHANGED shamirVars
    BY <1>3 DEF shamirVars, ShamirInv
  <1> QED
    BY <1>1, <1>2, <1>3 DEF ShamirNext

LEMMA ShamirSafe ==
  ASSUME ShamirInv
  PROVE  SecretByQuorum
  <1>1. QuorumReconstructs
    <2> SUFFICES ASSUME Cardinality(combined.from) >= threshold PROVE combined.value = secret
      BY DEF QuorumReconstructs
    <2>1. threshold \in 2 .. MaxShares /\ threshold >= 2
      BY ShamirSizes DEF ShamirInv
    <2>2. combined.from # {}
      <3>1. Cardinality({}) = 0
        BY FS_EmptySet
      <3> QED
        BY <2>1, <3>1
    <2>3. /\ dealt # <<>> /\ combined.from \in SUBSET (1 .. MaxShares)
          /\ combined.value = combine([i \in combined.from |-> dealt[i]])
      BY <2>2 DEF ShamirInv
    <2>4. PICK random \in Random(threshold) : dealt = split(secret, random, MaxShares)
      BY <2>3, DealtIs
    <2>5. secret \in GF
      BY <2>3, DealtIs
    <2> DEFINE S == combined.from
    <2>6. S \in SUBSET (1 .. MaxShares) /\ Cardinality(S) >= threshold
      BY <2>3
    <2>7. combined.value = combine([i \in S |-> split(secret, random, MaxShares)[i]])
      BY <2>3, <2>4
    <2> HIDE DEF S
    <2> QED
      BY <2>1, <2>5, <2>6, <2>7, QuorumCombines
  <1>2. BelowQuorumBlind
    <2> SUFFICES ASSUME dealt # <<>>,
                        NEW from \in kSubset(threshold - 1, DOMAIN dealt),
                        NEW other \in Secrets
                 PROVE  \E random \in Random(threshold) :
                          \A i \in from : split(other, random, MaxShares)[i] = dealt[i]
      BY DEF BelowQuorumBlind
    <2>1. dealt \in [1 .. MaxShares -> GF] /\ DOMAIN dealt = 1 .. MaxShares
      BY DealtIs
    <2>2. from \in SUBSET (1 .. MaxShares) /\ Cardinality(from) = threshold - 1
      BY <2>1 DEF kSubset
    <2>3. threshold \in 2 .. MaxShares /\ other \in GF
      BY ShamirSizes DEF ShamirInv
    <2> QED
      BY <2>1, <2>2, <2>3, BlindBelow
  <1> QED
    BY <1>1, <1>2 DEF SecretByQuorum

\* Whatever the field, the secret, the threshold and the random coefficients, any
\* shares that reach the threshold combine to the secret, and one share less leaves
\* every secret possible: split and combine, on the tables of the constructor.
THEOREM SecretAtThreshold == ShamirSpec => []SecretByQuorum
  <1>1. ShamirInit => ShamirInv
    BY DEF ShamirInit, ShamirInv
  <1>2. ShamirInv /\ [ShamirNext]_shamirVars => ShamirInv'
    BY ShamirStep
  <1>3. ShamirInv => SecretByQuorum
    BY ShamirSafe
  <1> QED
    BY <1>1, <1>2, <1>3, PTL DEF ShamirSpec
=============================================================================
