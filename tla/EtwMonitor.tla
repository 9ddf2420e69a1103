----------------------------- MODULE EtwMonitor -----------------------------
(***************************************************************************)
(* EtwMonitor (Windows): the real-time trace session of the process, the   *)
(* trace thread that runs ProcessTrace, and the owner's Start, Stop and    *)
(* destructor.  A session belongs to the system: it outlives the process   *)
(* that does not stop it.  An earlier process with the same id may have    *)
(* left one of the same name.                                              *)
(***************************************************************************)
EXTENDS Naturals

CONSTANTS
  MaxEvents,    \* bound: events delivered
  MaxStarts     \* bound: calls of Start

VARIABLES
  session,   \* the system has a session of this name
  refused,   \* the system's last answer about that session was a refusal
  handle,    \* sessionHandle_ is set
  trace,     \* traceHandle_ is set
  running,   \* running_
  thread,    \* the trace thread: "none", "launched", "tracing",
             \* "dispatching", "leaving", "done"
  events,    \* events delivered
  starts,
  owner      \* where the owner is

vars == <<session, refused, handle, trace, running, thread, events, starts, owner>>

Init ==
  /\ session \in BOOLEAN /\ refused = FALSE
  /\ handle = FALSE /\ trace = FALSE /\ running = FALSE
  /\ thread = "none" /\ events = 0 /\ starts = 0 /\ owner = "idle"

\* ControlTraceW(.., EVENT_TRACE_CONTROL_STOP): the session ends, or the
\* system refuses and it goes on.  Nobody looks at the result.
StopSession ==
  \/ session' = FALSE /\ refused' = FALSE
  \/ session /\ UNCHANGED session /\ refused' = TRUE

\* StartTraceW, and once more after a session of this name has been stopped.
\* Both calls may fail, and may then clear the handle they were given.
StartTrace ==
  /\ owner = "idle" /\ starts < MaxStarts
  /\ starts' = starts + 1
  /\ \/ running /\ UNCHANGED <<session, refused, handle, owner>>
     \/ /\ ~running
        /\ session' = TRUE /\ refused' = FALSE /\ handle' = TRUE /\ owner' = "opening"
     \/ /\ ~running
        /\ StopSession
        /\ handle' \in {handle, FALSE} /\ UNCHANGED owner
  /\ UNCHANGED <<trace, running, thread, events>>

\* OpenTraceW; when it fails the session is stopped again.
OpenTrace ==
  /\ owner = "opening"
  /\ \/ trace' = TRUE /\ owner' = "launching" /\ UNCHANGED <<session, refused, handle>>
     \/ StopSession /\ handle' = FALSE /\ owner' = "idle" /\ UNCHANGED trace
  /\ UNCHANGED <<running, thread, events, starts>>

\* running_ is set, then the thread starts.  Replacing traceThread_ joins
\* the thread of an earlier start, which has ended.
Launch ==
  /\ owner = "launching" /\ thread \in {"none", "done"}
  /\ running' = TRUE /\ thread' = "launched" /\ owner' = "idle"
  /\ UNCHANGED <<session, refused, handle, trace, events, starts>>

Start == StartTrace \/ OpenTrace \/ Launch

\* Mutant: running_ is cleared as soon as the handle has been read.
BeginTraceCleared ==
  /\ thread = "launched"
  /\ running' = FALSE
  /\ thread' = IF trace THEN "tracing" ELSE "leaving"
  /\ UNCHANGED <<session, refused, handle, trace, events, starts, owner>>

-----------------------------------------------------------------------------
\* ProcessTrace(&traceHandle_, ..): without a handle it fails at once.
BeginTrace ==
  /\ thread = "launched"
  /\ thread' = IF trace THEN "tracing" ELSE "leaving"
  /\ UNCHANGED <<session, refused, handle, trace, running, events, starts, owner>>

DispatchEvent ==
  /\ thread = "tracing" /\ session /\ events < MaxEvents
  /\ events' = events + 1 /\ thread' = "dispatching"
  /\ UNCHANGED <<session, refused, handle, trace, running, starts, owner>>

DispatchReturns ==
  /\ thread = "dispatching"
  /\ thread' = "tracing"
  /\ UNCHANGED <<session, refused, handle, trace, running, events, starts, owner>>

\* ProcessTrace returns when the session or the trace is closed, or by
\* itself, with the session still there.
ProcessTraceReturns ==
  /\ thread = "tracing"
  /\ thread' = "leaving"
  /\ UNCHANGED <<session, refused, handle, trace, running, events, starts, owner>>

ClearRunning ==
  /\ thread = "leaving"
  /\ running' = FALSE /\ thread' = "done"
  /\ UNCHANGED <<session, refused, handle, trace, events, starts, owner>>

TraceThread ==
  \/ BeginTrace \/ DispatchEvent \/ DispatchReturns
  \/ ProcessTraceReturns \/ ClearRunning

-----------------------------------------------------------------------------
\* if (!running_) return;
StopTest ==
  /\ owner = "idle"
  /\ owner' = IF running THEN "closing" ELSE "stopped"
  /\ UNCHANGED <<session, refused, handle, trace, running, thread, events, starts>>

\* Mutant: the handles are forgotten without being closed.
CloseSessionForgotten ==
  /\ owner = "closing"
  /\ handle' = FALSE
  /\ owner' = "joining"
  /\ UNCHANGED <<session, refused, trace, running, thread, events, starts>>

\* ControlTraceW and CloseTrace; both handles are cleared whatever they return.
CloseSession ==
  /\ owner = "closing"
  /\ IF handle THEN StopSession ELSE UNCHANGED <<session, refused>>
  /\ handle' = FALSE /\ trace' = FALSE
  /\ owner' = "joining"
  /\ UNCHANGED <<running, thread, events, starts>>

\* traceThread_.reset() joins.
JoinTrace ==
  /\ owner = "joining" /\ thread = "done"
  /\ owner' = "stopped"
  /\ UNCHANGED <<session, refused, handle, trace, running, thread, events, starts>>

\* Stop again, from the destructor (or a new Start, by a caller that has not
\* finished with the monitor).
Again ==
  /\ owner = "stopped" /\ starts < MaxStarts
  /\ owner' = "idle"
  /\ UNCHANGED <<session, refused, handle, trace, running, thread, events, starts>>

Stop == StopTest \/ CloseSession \/ JoinTrace

Next == Start \/ TraceThread \/ Stop \/ Again

\* The scheduler runs both threads; Stop goes on once it has begun.
\* ProcessTrace has to return only when its session or its handle is closed.
Closed == ~session \/ ~trace
Fairness ==
  /\ WF_vars(BeginTrace \/ DispatchReturns \/ (Closed /\ ProcessTraceReturns) \/ ClearRunning)
  /\ WF_vars(CloseSession \/ JoinTrace)

Spec == Init /\ [][Next]_vars /\ Fairness

-----------------------------------------------------------------------------
(* Properties.                                                             *)

(* Once Stop() has returned no event is dispatched: the callbacks, which   *)
(* hold the coordinator's address, may be freed.                           *)
NoDispatchAfterStop ==
  owner = "stopped" => thread \notin {"launched", "tracing", "dispatching"}

(* A session this process has started, or found, goes on without a handle  *)
(* only if the system refused to stop or to replace it, and until the next  *)
(* Start() that succeeds: every other failure leaves no session behind,     *)
(* although ProcessTrace may end by itself and make Stop() return early.    *)
SessionInReach == session /\ starts > 0 => handle \/ refused

(* Stop() returns: closing the session ends ProcessTrace.                  *)
StopReturns == owner = "closing" ~> owner = "stopped"
=============================================================================
