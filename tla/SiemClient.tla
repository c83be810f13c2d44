----------------------------- MODULE SiemClient -----------------------------
(***************************************************************************)
(* ErrorHandler reporting errors through BoundarySIEM: the queue that      *)
(* batches them, the posts with their retries, and disconnect, which waits *)
(* for one of them.  An error is its own event, unless its severity is too *)
(* low to be reported; those of high severity are posted at once, and the  *)
(* security errors are also shown to the daemon, whose client always       *)
(* answers (DaemonClient).                                                 *)
(*                                                                         *)
(* The SIEM is external: it stores what a post carries, or does not, and   *)
(* its answer arrives, or does not.                                        *)
(***************************************************************************)
EXTENDS ErrorClasses, Sequences, SequencesExt

CONSTANTS Raised,                    \* the errors that come up, by name
          batchSize, maxRetries,
          MaxSessions                \* bound: calls of connect and disconnect

\* Who else than the handler of an error may wait for a post.
NoCaller == "nobody"
Disconnecting == "disconnect"

ASSUME SiemAssumption ==
  /\ \A e \in DOMAIN Raised : AsILRMError(Raised[e]).severity \in 0 .. 10
  /\ {NoCaller, Disconnecting} \cap DOMAIN Raised = {}
  /\ batchSize \in Nat \ {0}
  /\ maxRetries \in Nat
  /\ MaxSessions \in Nat

Errors == DOMAIN Raised

\* What handle does with an error.
minReportSeverity == ErrorSeverity.MEDIUM
IsReported(e) == AsILRMError(Raised[e]).severity >= minReportSeverity
IsSecurity(e) == AsILRMError(Raised[e]).category \in SecurityCategories
SentAtOnce(e) == AsILRMError(Raised[e]).severity >= ErrorSeverity.HIGH

VARIABLES
  siemConnected,
  queue,          \* events that wait for a batch
  flushTimer,     \* whether the flush timer is armed
  posts,          \* posts under way: [events, attempt, asleep, caller, immediate]
  stored,         \* external: events the SIEM has
  dropped,        \* events of batches reported as batch_failed
  phase,          \* of each error: "new", "reporting", "checking", "handled"
  report,         \* what reportToSIEM came to: "", "accepted", "failed"
  sessions

siemVars == <<siemConnected, queue, flushTimer, posts, stored, dropped,
              phase, report, sessions>>

SiemInit ==
  /\ siemConnected = FALSE
  /\ queue = <<>>
  /\ flushTimer = FALSE
  /\ posts = {}
  /\ stored = {}
  /\ dropped = {}
  /\ phase = [e \in Errors |-> "new"]
  /\ report = [e \in Errors |-> ""]
  /\ sessions = 0

----------------------------------------------------------------------------
(* ErrorHandler.handle, around the report.                                 *)

AfterReport(e) == IF IsSecurity(e) THEN "checking" ELSE "handled"

\* reportToSIEM is over: a report that failed is only logged.
Reported(e, result) == /\ phase' = [phase EXCEPT ![e] = AfterReport(e)]
                       /\ report' = [report EXCEPT ![e] = result]

\* An error that is not severe enough is not reported.
HandleUnreported(e) ==
  /\ phase[e] = "new"
  /\ ~IsReported(e)
  /\ phase' = [phase EXCEPT ![e] = AfterReport(e)]
  /\ UNCHANGED <<siemConnected, queue, flushTimer, posts, stored, dropped, report, sessions>>

\* checkDaemonPolicy: whatever the daemon says, the handler goes on.
DaemonAnswers(e) ==
  /\ phase[e] = "checking"
  /\ phase' = [phase EXCEPT ![e] = "handled"]
  /\ UNCHANGED <<siemConnected, queue, flushTimer, posts, stored, dropped, report, sessions>>

----------------------------------------------------------------------------
(* The queue.                                                              *)

NewPost(events, caller, immediate) ==
  [events |-> events, attempt |-> 0, asleep |-> FALSE, caller |-> caller,
   immediate |-> immediate]

\* A flush that leaves the queue as it is.
FlushKeeping(events, caller) ==
  /\ flushTimer' = FALSE
  /\ UNCHANGED queue
  /\ posts' = posts \cup {NewPost(events, caller, FALSE)}

\* flush posts what is queued; whoever called it waits for the post.
Flush(events, caller) ==
  /\ flushTimer' = FALSE
  /\ queue' = <<>>
  /\ posts' = posts \cup {NewPost(events, caller, FALSE)}

\* sendEvent, called by handle.
SendEvent(e) ==
  LET longer == Append(queue, e)
  IN /\ phase[e] = "new"
     /\ IsReported(e)
     /\ \/ /\ ~siemConnected
           /\ Reported(e, "failed")
           /\ UNCHANGED <<queue, flushTimer, posts>>
        \/ /\ siemConnected /\ SentAtOnce(e)
           /\ phase' = [phase EXCEPT ![e] = "reporting"]
           /\ posts' = posts \cup {NewPost(<<e>>, e, TRUE)}
           /\ UNCHANGED <<queue, flushTimer, report>>
        \/ /\ siemConnected /\ ~SentAtOnce(e) /\ Len(longer) >= batchSize
           /\ phase' = [phase EXCEPT ![e] = "reporting"]
           /\ Flush(longer, e)
           /\ UNCHANGED report
        \/ /\ siemConnected /\ ~SentAtOnce(e) /\ Len(longer) < batchSize
           /\ queue' = longer
           /\ flushTimer' = TRUE
           /\ Reported(e, "accepted")
           /\ UNCHANGED posts
     /\ UNCHANGED <<siemConnected, stored, dropped, sessions>>

OnFlushTimer ==
  /\ flushTimer
  /\ Flush(queue, NoCaller)
  /\ UNCHANGED <<siemConnected, stored, dropped, phase, report, sessions>>

----------------------------------------------------------------------------
(* The posts.                                                              *)

\* Another attempt that is not counted.
AgainUncounted(p) == [p EXCEPT !.asleep = TRUE]

Again(p) == [p EXCEPT !.attempt = @ + 1, !.asleep = TRUE]

\* What a finished post means to its caller.  A batch that failed is reported
\* by an event of the client, and nothing puts its events back.
Settle(p, ok) ==
  /\ posts' = posts \ {p}
  /\ dropped' = IF ok \/ p.immediate THEN dropped ELSE dropped \cup ToSet(p.events)
  /\ \/ /\ p.caller \in Errors
        /\ Reported(p.caller, IF ok \/ ~p.immediate THEN "accepted" ELSE "failed")
        /\ UNCHANGED siemConnected
     \/ /\ p.caller = Disconnecting
        /\ siemConnected' = FALSE
        /\ UNCHANGED <<phase, report>>
     \/ /\ p.caller = NoCaller
        /\ UNCHANGED <<siemConnected, phase, report>>

\* The SIEM answers that it has the events.
PostSucceeds(p) ==
  /\ ~p.asleep
  /\ stored' = stored \cup ToSet(p.events)
  /\ Settle(p, TRUE)
  /\ UNCHANGED <<queue, flushTimer, sessions>>

\* It refuses, or the answer does not come in time, whether it has the events
\* or not: the post sleeps before its next attempt, or fails after the last.
PostFails(p) ==
  /\ ~p.asleep
  /\ \/ stored' = stored \cup ToSet(p.events)
     \/ UNCHANGED stored
  /\ \/ /\ p.attempt < maxRetries
        /\ posts' = (posts \ {p}) \cup {Again(p)}
        /\ UNCHANGED <<siemConnected, dropped, phase, report>>
     \/ /\ p.attempt = maxRetries
        /\ Settle(p, FALSE)
  /\ UNCHANGED <<queue, flushTimer, sessions>>

Wake(p) ==
  /\ p.asleep
  /\ posts' = (posts \ {p}) \cup {[p EXCEPT !.asleep = FALSE]}
  /\ UNCHANGED <<siemConnected, queue, flushTimer, stored, dropped, phase,
                 report, sessions>>

----------------------------------------------------------------------------
(* Connection management.                                                  *)

\* connect, its health check answered.
SiemConnect ==
  /\ sessions < MaxSessions                                             \* bound
  /\ sessions' = sessions + 1
  /\ siemConnected' = TRUE
  /\ UNCHANGED <<queue, flushTimer, posts, stored, dropped, phase, report>>

\* disconnect flushes, waits for that post alone, and is not connected after it;
\* another may overtake it.
SiemDisconnect ==
  /\ sessions < MaxSessions                                             \* bound
  /\ sessions' = sessions + 1
  /\ \/ /\ queue = <<>>
        /\ siemConnected' = FALSE
        /\ UNCHANGED <<queue, flushTimer, posts>>
     \/ /\ queue # <<>>
        /\ Flush(queue, Disconnecting)
        /\ UNCHANGED siemConnected
  /\ UNCHANGED <<stored, dropped, phase, report>>

----------------------------------------------------------------------------
PostStep(p) == PostSucceeds(p) \/ PostFails(p) \/ Wake(p)
ErrorStep(e) == HandleUnreported(e) \/ SendEvent(e) \/ DaemonAnswers(e)

SiemNext ==
  \/ SiemConnect
  \/ SiemDisconnect
  \/ OnFlushTimer
  \/ \E e \in Errors : ErrorStep(e)
  \/ \E p \in posts : PostStep(p)

\* Timers fire; a post succeeds, fails or times out.  Nothing is assumed of
\* which: the SIEM may never store anything.  The client's own timeout covers the
\* wait for the answer's headers; that a body which stalls ends too is the timeout
\* of the runtime's fetch.
SiemFairness ==
  /\ WF_siemVars(OnFlushTimer)
  /\ WF_siemVars(\E p \in posts : PostStep(p))
  /\ \A e \in Errors : WF_siemVars(DaemonAnswers(e))

SiemSpec == SiemInit /\ [][SiemNext]_siemVars /\ SiemFairness

-----------------------------------------------------------------------------
\* What becomes of an error that is reported.
Travelling == UNION {ToSet(p.events) : p \in posts}

\* An event the client accepted is never lost in silence: it is queued with the
\* flush timer armed, under way in exactly one post, stored by the SIEM, or in a
\* batch whose failure was reported.
EventsAccounted ==
  /\ \A e \in Errors : report[e] = "accepted"
       => e \in ToSet(queue) \cup Travelling \cup stored \cup dropped
  /\ queue # <<>> => flushTimer
  /\ ToSet(queue) \cap Travelling = {}
  /\ \A p, q \in posts : p # q => ToSet(p.events) \cap ToSet(q.events) = {}

\* In the end every error that came up is handled to the end, and what was
\* queued has left the queue, though the SIEM never answer: retries are bounded,
\* and one report waits for no other.
HandlersReturn ==
  <>[]\A e \in Errors : /\ phase[e] \in {"new", "handled"}
                        /\ report[e] = "accepted" => e \in stored \cup dropped
=============================================================================
