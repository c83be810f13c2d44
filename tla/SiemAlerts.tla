----------------------------- MODULE SiemAlerts -----------------------------
(***************************************************************************)
(* The WebSocket on which BoundarySIEM receives alerts: connect opens one, *)
(* whatever closes it schedules another, disconnect closes the latest.     *)
(* The events that the client sends, which need no socket, are in          *)
(* SiemClient.  The alert server is external: a socket opens or fails, and *)
(* an open one may close at any time.                                      *)
(***************************************************************************)
EXTENDS Naturals, FiniteSets

CONSTANTS AlertSockets,            \* as many as are open at once: one a call of connect
          NoAlerts,                \* null
          maxReconnectAttempts,
          MaxDials                 \* bound: calls of connect

ASSUME AlertsAssumption ==
  /\ NoAlerts \notin AlertSockets
  /\ maxReconnectAttempts \in Nat
  /\ MaxDials \in 0 .. Cardinality(AlertSockets)

VARIABLES
  listening,      \* this.connected
  ws,             \* this.ws
  wsState,        \* of each socket: "closed", "connecting", "open", "closing"
  redials,        \* reconnectAttempts
  wsTimers,       \* reconnect timers that run
  wsGaveUp,       \* ws_max_reconnect was emitted after the last connect or opening
  dials           \* calls of connect

alertVars == <<listening, ws, wsState, redials, wsTimers, wsGaveUp, dials>>

AlertsInit ==
  /\ listening = FALSE
  /\ ws = NoAlerts
  /\ wsState = [s \in AlertSockets |-> "closed"]
  /\ redials = 0
  /\ wsTimers = 0
  /\ wsGaveUp = FALSE
  /\ dials = 0

\* connectWebSocket: the new socket becomes this.ws, and the old one, whatever
\* its state, goes on by itself.
connectWebSocket ==
  \E s \in AlertSockets :
    /\ wsState[s] = "closed"
    /\ wsState' = [wsState EXCEPT ![s] = "connecting"]
    /\ ws' = s


scheduleReconnect ==
  \/ /\ redials >= maxReconnectAttempts
     /\ wsGaveUp' = TRUE
     /\ UNCHANGED <<redials, wsTimers>>
  \/ /\ redials < maxReconnectAttempts
     /\ redials' = redials + 1
     /\ wsTimers' = wsTimers + 1
     /\ UNCHANGED wsGaveUp

\* connect, its health check answered.  It does not look at what it replaces.
AlertsConnect ==
  /\ dials < MaxDials                                                   \* bound
  /\ dials' = dials + 1
  /\ listening' = TRUE
  /\ wsGaveUp' = FALSE
  /\ connectWebSocket
  /\ UNCHANGED <<redials, wsTimers>>

\* disconnect, its events flushed.
AlertsDisconnect ==
  /\ listening' = FALSE
  /\ ws' = NoAlerts
  /\ wsState' = [s \in AlertSockets |->
                   IF s = ws /\ wsState[s] # "closed" THEN "closing" ELSE wsState[s]]
  /\ UNCHANGED <<redials, wsTimers, wsGaveUp, dials>>

OnOpen(s) ==
  /\ wsState[s] = "connecting"
  /\ wsState' = [wsState EXCEPT ![s] = "open"]
  /\ redials' = 0
  /\ wsGaveUp' = FALSE
  /\ UNCHANGED <<listening, ws, wsTimers, dials>>

\* onclose: the socket failed to open, the server closed it, or disconnect did.
OnWsClose(s) ==
  /\ wsState[s] # "closed"
  /\ wsState' = [wsState EXCEPT ![s] = "closed"]
  /\ scheduleReconnect
  /\ UNCHANGED <<listening, ws, dials>>

\* A timer that opens a socket only where there is none.
RedialsIfNone == listening /\ ws = NoAlerts

Redials == listening

OnWsTimer ==
  /\ wsTimers > 0
  /\ wsTimers' = wsTimers - 1
  /\ IF Redials THEN connectWebSocket ELSE UNCHANGED <<ws, wsState>>
  /\ UNCHANGED <<listening, redials, wsGaveUp, dials>>

AlertsNext ==
  \/ AlertsConnect
  \/ AlertsDisconnect
  \/ OnWsTimer
  \/ \E s \in AlertSockets : OnOpen(s) \/ OnWsClose(s)

\* A socket that is connecting opens or fails, one that is closing closes, and
\* timers fire.  An open socket need never close.
AlertsFairness ==
  /\ WF_alertVars(OnWsTimer)
  /\ \A s \in AlertSockets :
       WF_alertVars((OnOpen(s) \/ OnWsClose(s)) /\ wsState[s] # "open")

AlertsSpec == AlertsInit /\ [][AlertsNext]_alertVars /\ AlertsFairness

----------------------------------------------------------------------------
Open == {s \in AlertSockets : wsState[s] = "open"}

\* A client that was told to connect has in the end an open socket for alerts,
\* has given up openly, or was told to disconnect: whichever of its sockets
\* closes, and however connect, disconnect and old timers follow each other.
AlertsResume == listening ~> (Open # {} \/ wsGaveUp \/ ~listening)
=============================================================================
