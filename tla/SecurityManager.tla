--------------------------- MODULE SecurityManager ---------------------------
(***************************************************************************)
(* SecurityManager: initialize and shutdown, whose calls may overlap at    *)
(* every await.  A client is named after the call of initialize that made  *)
(* it; its own behaviour is in SiemClient and DaemonClient, of which only  *)
(* the outcome of connect shows here, and that a daemon client whose       *)
(* connect failed goes on trying.                                          *)
(***************************************************************************)
EXTENDS FiniteSets

CONSTANTS Inits, Shutdowns,        \* calls of initialize and of shutdown
          None                     \* null

ASSUME ManagerAssumption ==
  /\ None \notin Inits
  /\ Inits \cap Shutdowns = {}

Kinds == {"siem", "daemon"}
Pending == {"siem", "daemon"}      \* where a call waits: for the client of that kind

VARIABLES
  config,        \* environment = "production", and which clients are enabled
  current,       \* this.siem and this.daemon
  handler,       \* the clients errorHandler was given
  initialized,
  client,        \* of each client: "none", "connecting", "connected", "failed", "closed",
                 \* "revived"
  pc,            \* of each call: "idle", waiting, "done" or "thrown"
  overlapped     \* history: two calls were under way at once

managerVars == <<config, current, handler, initialized, client, pc, overlapped>>

\* loadConfigFromEnv: the three settings are read from variables of their own.
Configs == [production : BOOLEAN, enabled : SUBSET Kinds]

ManagerInit ==
  /\ config \in Configs
  /\ current = [k \in Kinds |-> None]
  /\ handler = current
  /\ initialized = FALSE
  /\ client = [k \in Kinds |-> [i \in Inits |-> "none"]]
  /\ pc = [c \in Inits \cup Shutdowns |-> "idle"]
  /\ overlapped = FALSE

Started(c) == overlapped' = (overlapped \/ \E o \in DOMAIN pc : pc[o] \in Pending)

----------------------------------------------------------------------------
(* initialize.                                                             *)

\* The end of initialize makes the error handler.
Finish(i, clients) ==
  /\ handler' = current
  /\ initialized' = TRUE
  /\ pc' = [pc EXCEPT ![i] = "done"]
  /\ client' = clients
  /\ UNCHANGED current

\* A new client replaces the one there was.
Create(k, i, clients) ==
  /\ current' = [current EXCEPT ![k] = i]
  /\ client' = [clients EXCEPT ![k][i] = "connecting"]
  /\ pc' = [pc EXCEPT ![i] = k]
  /\ UNCHANGED <<handler, initialized>>

\* The second half of initialize, after what clients has become of the first.
StartDaemon(i, clients) ==
  IF "daemon" \in config.enabled THEN Create("daemon", i, clients) ELSE Finish(i, clients)

Initialize(i) ==
  /\ pc[i] = "idle"
  /\ Started(i)
  /\ \/ /\ initialized
        /\ pc' = [pc EXCEPT ![i] = "done"]
        /\ UNCHANGED <<current, handler, initialized, client>>
     \/ /\ ~initialized
        /\ IF "siem" \in config.enabled THEN Create("siem", i, client) ELSE StartDaemon(i, client)
  /\ UNCHANGED config

Throw(i, clients) ==
  /\ pc' = [pc EXCEPT ![i] = "thrown"]
  /\ client' = clients
  /\ UNCHANGED <<current, handler, initialized>>

\* The await of a client's connect ends; outside production a failure is ignored.
Fatal(outcome) == outcome = "failed" /\ config.production

SiemSettles(i, outcome) ==
  LET clients == [client EXCEPT !["siem"][i] = outcome]
  IN /\ pc[i] = "siem"
     /\ IF Fatal(outcome) THEN Throw(i, clients) ELSE StartDaemon(i, clients)
     /\ UNCHANGED <<config, overlapped>>

DaemonSettles(i, outcome) ==
  LET clients == [client EXCEPT !["daemon"][i] = outcome]
  IN /\ pc[i] = "daemon"
     /\ IF Fatal(outcome) THEN Throw(i, clients) ELSE Finish(i, clients)
     /\ UNCHANGED <<config, overlapped>>

----------------------------------------------------------------------------
(* The clients, and shutdown.                                              *)

\* The reconnect timer of a daemon client whose connect failed brings it back,
\* and that of one that was disconnected does too (DaemonClient).
DaemonReconnects(i) ==
  /\ client["daemon"][i] \in {"failed", "closed"}
  /\ client' = [client EXCEPT !["daemon"][i] = IF @ = "failed" THEN "connected" ELSE "revived"]
  /\ UNCHANGED <<config, current, handler, initialized, pc, overlapped>>

\* A disconnect that only the SIEM client is given.
CloseSiemOnly(k) == client' = IF k = "daemon" THEN client
                              ELSE [client EXCEPT ![k][current[k]] = "closed"]

Close(k) == client' = [client EXCEPT ![k][current[k]] = "closed"]

\* The second half of shutdown, up to its await of daemon.disconnect() or, with
\* no daemon client, to its end.
TurnToDaemon(s) ==
  \/ /\ current["daemon"] # None
     /\ Close("daemon")
     /\ pc' = [pc EXCEPT ![s] = "daemon"]
     /\ UNCHANGED initialized
  \/ /\ current["daemon"] = None
     /\ pc' = [pc EXCEPT ![s] = "done"]
     /\ initialized' = FALSE
     /\ UNCHANGED client

\* shutdown up to its first await.
Shutdown(s) ==
  /\ pc[s] = "idle"
  /\ Started(s)
  /\ \/ /\ current["siem"] # None
        /\ Close("siem")
        /\ pc' = [pc EXCEPT ![s] = "siem"]
        /\ UNCHANGED initialized
     \/ /\ current["siem"] = None
        /\ TurnToDaemon(s)
  /\ UNCHANGED <<config, current, handler>>

\* this.siem and this.daemon are cleared after the awaits, whichever clients
\* they are by now.
SiemClosed(s) ==
  /\ pc[s] = "siem"
  /\ current' = [current EXCEPT !["siem"] = None]
  /\ TurnToDaemon(s)
  /\ UNCHANGED <<config, handler, overlapped>>

DaemonClosed(s) ==
  /\ pc[s] = "daemon"
  /\ current' = [current EXCEPT !["daemon"] = None]
  /\ initialized' = FALSE
  /\ pc' = [pc EXCEPT ![s] = "done"]
  /\ UNCHANGED <<config, handler, client, overlapped>>

ManagerNext ==
  \/ \E i \in Inits : Initialize(i) \/ DaemonReconnects(i)
  \/ \E i \in Inits, outcome \in {"connected", "failed"} :
        SiemSettles(i, outcome) \/ DaemonSettles(i, outcome)
  \/ \E s \in Shutdowns : Shutdown(s) \/ SiemClosed(s) \/ DaemonClosed(s)

ManagerSpec == ManagerInit /\ [][ManagerNext]_managerVars

----------------------------------------------------------------------------
Thrown == {i \in Inits : pc[i] = "thrown"}
Busy == \E c \in DOMAIN pc : pc[c] \in Pending

\* As long as its calls do not overlap, an initialised manager has exactly the
\* clients that are enabled, in production connected ones, and its error handler
\* reports to those; and the clients that outlive it are those of an initialize
\* that threw, which nothing closes (and daemon clients that reconnect by
\* themselves).
ManagerConsistent == ~overlapped =>
  /\ initialized /\ ~Busy =>
       /\ handler = current
       /\ \A k \in Kinds : k \in config.enabled <=> current[k] # None
       /\ config.production => \A k \in config.enabled : client[k][current[k]] = "connected"
  /\ \A k \in Kinds, i \in Inits : client[k][i] \in {"connected", "connecting"}
       => i = current[k] \/ i \in Thrown
=============================================================================
