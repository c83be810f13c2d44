---------------------------- MODULE DaemonClient ----------------------------
(***************************************************************************)
(* BoundaryDaemon: the SDK's client of the policy daemon.  Its sockets,    *)
(* the timers that reconnect it, and the requests that wait for an answer. *)
(*                                                                         *)
(* A callback of the event loop is one step, with the promise callbacks    *)
(* that run before the next one: a policy check whose evaluation settles   *)
(* sends its audit record in the same step.                                *)
(*                                                                         *)
(* The daemon itself is external: it accepts connections, answers requests *)
(* in any order, hangs, dies with its sockets and comes back.  A listener  *)
(* for "error" events is assumed, without which Node ends the process.     *)
(***************************************************************************)
EXTENDS Naturals, FiniteSets

CONSTANTS Sockets,                \* sockets that may exist at one time
          NoSocket, Destroyed,    \* null, and a closed socket still referred to
          Checks,                 \* calls of checkPolicy
          Blocks,                 \* calls of blockIP
          Verdicts,               \* what the daemon may decide
          UnixSocket,             \* whether connect looks for a socket file
          MAX_RECONNECT_ATTEMPTS,
          MaxCalls,               \* bound: calls of connect and disconnect
          MaxFailures             \* bound: times the daemon dies or hangs

PolicyDecision == {"ALLOW", "DENY", "MONITOR", "RATE_LIMIT"}

ASSUME DaemonAssumption ==
  /\ Verdicts \subseteq PolicyDecision
  /\ {NoSocket, Destroyed} \cap Sockets = {} /\ NoSocket # Destroyed
  /\ IsFiniteSet(Sockets)
  /\ Checks \cap Blocks = {}
  /\ UnixSocket \in BOOLEAN
  /\ MAX_RECONNECT_ATTEMPTS \in Nat
  /\ MaxCalls \in Nat
  /\ MaxFailures \in Nat

Jobs == Checks \cup Blocks

VARIABLES
  daemon,          \* external: "up", "hung" or "down"
  socketState,     \* of each socket: "none", "connecting", "open", "closing"
  socket,          \* this.socket
  connected,
  reconnecting,
  reconnectAttempts,
  retryTimers,     \* reconnect timers that are armed
  connectTimers,   \* connection timeouts that are armed, never cleared
  partial,         \* whether messageBuffer holds the beginning of a line
  wanted,          \* history: connect was called after the last disconnect, and not rejected at once
  gaveUp,          \* history: reconnection ended at its limit, which was emitted
  stranded,        \* history: reconnection ended at a missing file, unsaid
  job,             \* what each call waits for, and what it returned
  verdict,         \* external: what the daemon decided, "" while it has not
  audited,         \* external: calls whose record the daemon has logged
  logged,          \* calls whose record went to the local log
  calls, failures

socketVars == <<socketState, socket, connected, reconnecting, reconnectAttempts,
                retryTimers, connectTimers, gaveUp, stranded>>
requestVars == <<job, verdict, audited, logged>>
daemonVars == <<daemon, socketVars, partial, wanted, requestVars, calls, failures>>

\* A call: waiting for its request, then for the audit record, then returned.
\* Its message travels "out" to the daemon and "back" over the socket via.
NewJob == [phase |-> "idle", result |-> "", via |-> NoSocket, wire |-> ""]

\* Refused on disconnect or by a timer: a request, and an audit record as well.
Waiting(j) == job[j].phase \in {"requesting", "auditing"}

DaemonInit ==
  /\ daemon = "up"
  /\ socketState = [s \in Sockets |-> "none"]
  /\ socket = NoSocket
  /\ connected = FALSE
  /\ reconnecting = FALSE
  /\ reconnectAttempts = 0
  /\ retryTimers = 0
  /\ connectTimers = 0
  /\ partial = FALSE
  /\ wanted = FALSE
  /\ gaveUp = FALSE
  /\ stranded = FALSE
  /\ job = [j \in Jobs |-> NewJob]
  /\ verdict = [j \in Jobs |-> ""]
  /\ audited = {}
  /\ logged = {}
  /\ calls = 0
  /\ failures = 0

\* protectConnection, once its check has returned.
Granted(j) == job[j].result = "ALLOW"

----------------------------------------------------------------------------
(* What a request that fails leads to.                                     *)

CanSend == connected /\ socket # NoSocket
Sent(phase, result) == [phase |-> phase, result |-> result, via |-> socket, wire |-> "out"]

\* Falling back to permission.
FallbackOpen(j) == IF job[j].phase = "auditing" THEN job[j].result
                   ELSE IF j \in Blocks THEN "ERROR" ELSE "ALLOW"

\* The result of a call whose request is refused: a policy check falls back to
\* MONITOR, blockIP throws, and a record that is refused leaves the result.
Fallback(j) == IF job[j].phase = "auditing" THEN job[j].result
               ELSE IF j \in Blocks THEN "ERROR" ELSE "MONITOR"

Returned(j, result) ==
  [phase  |-> "done",
   result |-> IF job[j].phase = "auditing" THEN job[j].result ELSE result,
   via    |-> NoSocket,
   wire   |-> ""]

\* Calls that record themselves in the local log when their request is refused:
\* the record itself is refused, or the one a check sends next.
Recorded(j) == j \in Checks \/ job[j].phase = "auditing"

GiveUp(j) == /\ job' = [job EXCEPT ![j] = Returned(j, Fallback(j))]
             /\ logged' = IF Recorded(j) THEN logged \cup {j} ELSE logged

\* audit, once the result is known.
Audit(j, result) ==
  \/ /\ CanSend
     /\ job' = [job EXCEPT ![j] = Sent("auditing", result)]
     /\ UNCHANGED logged
  \/ /\ ~CanSend
     /\ job' = [job EXCEPT ![j] = Returned(j, result)]
     /\ logged' = logged \cup {j}

----------------------------------------------------------------------------
(* Connection management.                                                  *)

Connecting == {s \in Sockets : socketState[s] = "connecting"}
Alive == {s \in Sockets : socketState[s] # "none"}

\* connect, once the socket file is found: the new socket takes the place of
\* the old one, which nothing closes.
OpenSocket ==
  /\ \E s \in Sockets :
        /\ socketState[s] = "none"
        /\ socketState' = [socketState EXCEPT ![s] = "connecting"]
        /\ socket' = s
  /\ connectTimers' = connectTimers + 1
  /\ gaveUp' = FALSE
  /\ stranded' = FALSE

Down == daemon = "down"

\* External: a daemon that is down may have left its socket file or not, and
\* the file may come and go before the daemon is back.
MayBeMissing == UnixSocket /\ Down

Connect ==
  \/ /\ connected
     /\ UNCHANGED <<socketState, socket, connectTimers, gaveUp, stranded>>
  \/ /\ ~connected
     /\ OpenSocket

\* A path that is missing rejects the call and arms nothing.
Reject ==
  /\ ~connected
  /\ MayBeMissing
  /\ UNCHANGED <<socketState, socket, connectTimers, gaveUp>>

CallConnect ==
  /\ calls < MaxCalls                                                  \* bound
  /\ calls' = calls + 1
  /\ \/ Connect /\ wanted' = TRUE
     \/ Reject /\ UNCHANGED <<stranded, wanted>>
  /\ UNCHANGED <<daemon, connected, reconnecting, reconnectAttempts, retryTimers, partial,
                 requestVars, failures>>

OnConnect(s) ==
  /\ socketState[s] = "connecting"
  /\ ~Down
  /\ socketState' = [socketState EXCEPT ![s] = "open"]
  /\ connected' = TRUE
  /\ reconnecting' = FALSE
  /\ reconnectAttempts' = 0
  /\ gaveUp' = FALSE
  /\ stranded' = FALSE
  /\ UNCHANGED <<daemon, socket, retryTimers, connectTimers, partial, wanted,
                 requestVars, calls, failures>>

\* Run by every close event, whichever socket it is about.
ScheduleReconnect ==
  \/ /\ reconnecting
     /\ UNCHANGED <<reconnecting, reconnectAttempts, retryTimers, gaveUp>>
  \/ /\ ~reconnecting
     /\ reconnectAttempts >= MAX_RECONNECT_ATTEMPTS
     /\ gaveUp' = TRUE
     /\ UNCHANGED <<reconnecting, reconnectAttempts, retryTimers>>
  \/ /\ ~reconnecting
     /\ reconnectAttempts < MAX_RECONNECT_ATTEMPTS
     /\ reconnecting' = TRUE
     /\ reconnectAttempts' = reconnectAttempts + 1
     /\ retryTimers' = retryTimers + 1
     /\ UNCHANGED gaveUp

\* The socket is gone: refused by a daemon that is down, or destroyed.  What
\* was under way on it is lost, perhaps in the middle of a line.
OnClose(s) ==
  /\ \/ socketState[s] = "closing"
     \/ socketState[s] = "connecting" /\ Down
  /\ socketState' = [socketState EXCEPT ![s] = "none"]
  /\ connected' = FALSE
  /\ ScheduleReconnect
  /\ \/ socketState[s] = "closing" /\ partial' = TRUE
     \/ UNCHANGED partial
  /\ job' = [j \in Jobs |-> IF job[j].via = s THEN [job[j] EXCEPT !.via = NoSocket, !.wire = ""]
                                               ELSE job[j]]
  /\ socket' = IF socket = s THEN Destroyed ELSE socket
  /\ UNCHANGED <<daemon, connectTimers, stranded, wanted, verdict, audited, logged, calls, failures>>

\* A timeout of any earlier connect destroys the socket of the latest.  Its own
\* attempt has been accepted by then, if the daemon is up.
OnConnectTimeout ==
  /\ connectTimers > 0
  /\ daemon = "up" => connectTimers > Cardinality(Connecting)
  /\ connectTimers' = connectTimers - 1
  /\ socketState' = IF ~connected /\ socket \in Alive
                    THEN [socketState EXCEPT ![socket] = "closing"]
                    ELSE socketState
  /\ UNCHANGED <<daemon, socket, connected, reconnecting, reconnectAttempts, retryTimers,
                 partial, wanted, gaveUp, stranded, requestVars, calls, failures>>

\* The timer that forgets to clear the flag.
RetryDueStill == /\ retryTimers > 0
                 /\ retryTimers' = retryTimers - 1
                 /\ UNCHANGED reconnecting

RetryDue == /\ retryTimers > 0
            /\ retryTimers' = retryTimers - 1
            /\ reconnecting' = FALSE

\* A retry whose connect is rejected only logs it: no socket will close, so that
\* nothing tries again, unless another socket or timer is left.
OnReconnectTimer ==
  /\ RetryDue
  /\ \/ Connect
     \/ Reject /\ stranded' = (stranded \/ (retryTimers' = 0 /\ Alive = {}))
  /\ UNCHANGED <<daemon, connected, reconnectAttempts, partial, wanted,
                 requestVars, calls, failures>>

\* disconnect lets go of the current socket and refuses what waits for an
\* answer: checks fall back, and record themselves in the local log.
Disconnect ==
  /\ calls < MaxCalls                                                  \* bound
  /\ calls' = calls + 1
  /\ wanted' = FALSE
  /\ reconnecting' = FALSE
  /\ connected' = FALSE
  /\ socket' = NoSocket
  /\ socketState' = IF socket \in Alive THEN [socketState EXCEPT ![socket] = "closing"]
                                        ELSE socketState
  /\ job' = [j \in Jobs |-> IF Waiting(j) THEN Returned(j, Fallback(j)) ELSE job[j]]
  /\ logged' = logged \cup {j \in Jobs : Waiting(j) /\ Recorded(j)}
  /\ UNCHANGED <<daemon, reconnectAttempts, retryTimers, connectTimers, partial, gaveUp,
                 stranded, verdict, audited, failures>>

----------------------------------------------------------------------------
(* Requests.                                                               *)

\* checkPolicy or blockIP is called.
Call(j) ==
  /\ job[j].phase = "idle"
  /\ \/ CanSend /\ job' = [job EXCEPT ![j] = Sent("requesting", "")] /\ UNCHANGED logged
     \/ ~CanSend /\ GiveUp(j)
  /\ UNCHANGED <<daemon, socketVars, partial, wanted, verdict, audited, calls, failures>>

\* handleData: the line is lost when it completes the beginning of another.
OnData(j) ==
  /\ job[j].wire = "back"
  /\ socketState[job[j].via] = "open"
  /\ partial' = FALSE
  /\ \/ /\ partial
        /\ job' = [job EXCEPT ![j].wire = ""]
        /\ UNCHANGED logged
     \/ /\ ~partial
        /\ \/ /\ job[j].phase = "requesting"
              /\ Audit(j, verdict[j])
           \/ /\ job[j].phase = "auditing"
              /\ job' = [job EXCEPT ![j] = Returned(j, verdict[j])]
              /\ UNCHANGED logged
  /\ UNCHANGED <<daemon, socketVars, wanted, verdict, audited, calls, failures>>

OnRequestTimeout(j) ==
  /\ Waiting(j)
  /\ \/ /\ job[j].phase = "requesting" /\ j \in Checks
        /\ Audit(j, "MONITOR")
     \/ /\ job[j].phase = "auditing" \/ j \in Blocks
        /\ GiveUp(j)
  /\ UNCHANGED <<daemon, socketVars, partial, wanted, verdict, audited, calls, failures>>

----------------------------------------------------------------------------
(* The daemon.                                                             *)

\* It decides what it is asked, or logs the record it is sent.
Serve(j) ==
  /\ daemon = "up"
  /\ job[j].wire = "out"
  /\ job[j].via \in Sockets
  /\ socketState[job[j].via] = "open"
  /\ job' = [job EXCEPT ![j].wire = "back"]
  /\ \/ /\ job[j].phase = "requesting"
        /\ \E v \in IF j \in Blocks THEN {"BLOCKED"} ELSE Verdicts :
              verdict' = [verdict EXCEPT ![j] = v]
        /\ UNCHANGED audited
     \/ /\ job[j].phase = "auditing"
        /\ audited' = audited \cup {j}
        /\ UNCHANGED verdict
  /\ UNCHANGED <<daemon, socketVars, partial, wanted, logged, calls, failures>>

Fail(how) ==
  /\ failures < MaxFailures                                            \* bound
  /\ failures' = failures + 1
  /\ daemon = "up"
  /\ daemon' = how
  /\ socketState' = [s \in Sockets |-> IF how = "down" /\ socketState[s] = "open"
                                        THEN "closing" ELSE socketState[s]]
  /\ UNCHANGED <<socket, connected, reconnecting, reconnectAttempts, retryTimers,
                 connectTimers, gaveUp, stranded, partial, wanted, requestVars, calls>>

Recover ==
  /\ daemon # "up"
  /\ daemon' = "up"
  /\ UNCHANGED <<socketVars, partial, wanted, requestVars, calls, failures>>

----------------------------------------------------------------------------
JobStep(j) == Call(j) \/ OnData(j) \/ OnRequestTimeout(j) \/ Serve(j)
SocketStep(s) == OnConnect(s) \/ OnClose(s)

DaemonNext ==
  \/ CallConnect
  \/ Disconnect
  \/ OnConnectTimeout
  \/ OnReconnectTimer
  \/ Recover
  \/ \E how \in {"hung", "down"} : Fail(how)
  \/ \E s \in Sockets : SocketStep(s)
  \/ \E j \in Jobs : JobStep(j)

\* What the event loop has to do about sockets: a timer that is due, a socket that
\* connects to a daemon that is there, a close to report.
SocketDue ==
  \/ OnConnectTimeout
  \/ OnReconnectTimer
  \/ \E s \in Sockets : (OnConnect(s) /\ daemon = "up") \/ OnClose(s)

\* While something is due, something that is due runs, in no order that is
\* assumed; and every request times out.  Nothing is assumed of the daemon.
DaemonFairness ==
  /\ WF_daemonVars(SocketDue)
  /\ \A j \in Jobs : WF_daemonVars(OnRequestTimeout(j))

DaemonSpec == DaemonInit /\ [][DaemonNext]_daemonVars /\ DaemonFairness

-----------------------------------------------------------------------------
\* What a user of the daemon's client relies on.
Done(j) == job[j].phase = "done"

\* No timeout, reconnection, lost or mixed-up line makes up a permission: a check
\* that returns ALLOW or a block that reports success was so decided by the
\* daemon for that very call.  And every check that returned and every block
\* reported as done left a record, in the daemon's log or, when its answer may be
\* lost, in the local one.
DecisionsAccounted ==
  \A j \in Jobs : Done(j) =>
    /\ Granted(j) => verdict[j] = "ALLOW"
    /\ job[j].result \notin {"MONITOR", "ERROR"} => job[j].result = verdict[j]
    /\ job[j].result # "ERROR" => j \in audited \cup logged

\* The client that was asked to connect is, again and again, connected, or has
\* emitted that it gives up, or is told to disconnect: no order of closes, timeouts
\* and retries leaves it waiting for a timer that is not there.  There is one
\* exception, which the code leaves unsaid: a retry that finds no socket file is the
\* last, whatever attempts are left.  And every call that was made then has
\* returned, whatever becomes of the daemon and the sockets.
AtRest ==
  /\ wanted => connected \/ gaveUp \/ stranded
  /\ \A j \in Jobs : job[j].phase \in {"idle", "done"}

Recovers == []<>AtRest
=============================================================================
