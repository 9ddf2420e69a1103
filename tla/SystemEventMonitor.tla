------------------------- MODULE SystemEventMonitor -------------------------
(***************************************************************************)
(* SystemEventMonitor on macOS: the owner's Start, Stop and destructor     *)
(* (the coordinator's main thread), the run-loop thread, and the serial    *)
(* queue on which the thermal notification is handled.                     *)
(*                                                                         *)
(* Start gives the thread 50 x 10 ms to register its sources and set       *)
(* running_.  When the time is over it detaches the thread and reports     *)
(* failure; the thread goes on.                                            *)
(***************************************************************************)
EXTENDS Naturals

CONSTANTS
  MaxRetries,  \* the 50 looks at running_ of Start
  MaxEvents    \* bound: events the OS sends, over all sources

VARIABLES
  running,    \* running_
  held,       \* runLoopThread_ is not null
  thread,     \* where the run-loop thread is
  registered, \* the run-loop sources and the thermal token are registered
  posted,     \* events waiting in the run loop
  block,      \* the thermal block: "none", "queued", "running"
  sent,       \* events the OS has sent
  retries,
  owner       \* where the owner is

ownerVars == <<owner, held, retries>>
vars == <<running, thread, registered, posted, block, sent, ownerVars>>

Init ==
  /\ running = FALSE /\ held = FALSE /\ thread = "none" /\ registered = FALSE
  /\ posted = 0 /\ block = "none" /\ sent = 0 /\ retries = 0 /\ owner = "new"

-----------------------------------------------------------------------------
(* The run-loop thread.                                                    *)

\* IONotificationPortCreate may fail: the thread returns at once.
SetUp ==
  /\ thread = "setup"
  /\ \/ thread' = "done" /\ UNCHANGED registered
     \/ thread' = "signal" /\ registered' = TRUE
  /\ UNCHANGED <<running, posted, block, sent, ownerVars>>

\* running_.store(true)
SignalReady ==
  /\ thread = "signal"
  /\ running' = TRUE
  /\ thread' = "test"
  /\ UNCHANGED <<registered, posted, block, sent, ownerVars>>

\* Mutant: the sources are never asked.
TestRunningSkips ==
  /\ thread = "test"
  /\ thread' = IF ~running THEN "cleanup" ELSE "idle"
  /\ UNCHANGED <<running, registered, posted, block, sent, ownerVars>>

\* while (running_.load()) CFRunLoopRunInMode(.., 1.0, true): one source is
\* handled, or a second passes.
TestRunning ==
  /\ thread = "test"
  /\ thread' = IF ~running THEN "cleanup" ELSE IF posted > 0 THEN "callback" ELSE "idle"
  /\ posted' = IF running /\ posted > 0 THEN posted - 1 ELSE posted
  /\ UNCHANGED <<running, registered, block, sent, ownerVars>>

IdleSecond ==
  /\ thread = "idle"
  /\ thread' = "test"
  /\ UNCHANGED <<running, registered, posted, block, sent, ownerVars>>

\* powerCb_, diskCb_ or networkCb_ has run.
CallbackReturns ==
  /\ thread = "callback"
  /\ thread' = "test"
  /\ UNCHANGED <<running, registered, posted, block, sent, ownerVars>>

\* The sources are removed and released; the token is cancelled.  A thermal
\* block that is already queued stays queued.
CleanUp ==
  /\ thread = "cleanup"
  /\ registered' = FALSE /\ posted' = 0
  /\ thread' = "done"
  /\ UNCHANGED <<running, block, sent, ownerVars>>

RunLoopThread ==
  SetUp \/ SignalReady \/ TestRunning \/ IdleSecond \/ CallbackReturns \/ CleanUp

-----------------------------------------------------------------------------
(* The operating system.                                                   *)

PostEvent ==
  /\ registered /\ sent < MaxEvents
  /\ sent' = sent + 1 /\ posted' = posted + 1
  /\ UNCHANGED <<running, thread, registered, block, ownerVars>>

PostThermal ==
  /\ registered /\ sent < MaxEvents /\ block = "none"
  /\ sent' = sent + 1 /\ block' = "queued"
  /\ UNCHANGED <<running, thread, registered, posted, ownerVars>>

\* ThermalHandler reads this->thermalCb_ on the queue's own thread.
RunBlock ==
  /\ block # "none"
  /\ block' = IF block = "queued" THEN "running" ELSE "none"
  /\ UNCHANGED <<running, thread, registered, posted, sent, ownerVars>>

-----------------------------------------------------------------------------
(* The owner.                                                              *)

StartThread ==
  /\ owner = "new"
  /\ thread' = "setup" /\ held' = TRUE /\ owner' = "waiting"
  /\ UNCHANGED <<running, registered, posted, block, sent, retries>>

\* 10 ms pass.
WaitStep ==
  /\ owner = "waiting" /\ ~running /\ retries < MaxRetries
  /\ retries' = retries + 1
  /\ UNCHANGED <<running, thread, registered, posted, block, sent, owner, held>>

WaitEnds ==
  /\ owner = "waiting" /\ (running \/ retries = MaxRetries)
  /\ owner' = "deciding"
  /\ UNCHANGED <<running, thread, registered, posted, block, sent, held, retries>>

\* running_ is read once more; without it the thread is detached.
Decide ==
  /\ owner = "deciding"
  /\ IF running THEN owner' = "started" /\ UNCHANGED held
                ELSE owner' = "failed" /\ held' = FALSE
  /\ UNCHANGED <<running, thread, registered, posted, block, sent, retries>>

Start == StartThread \/ WaitStep \/ WaitEnds \/ Decide

\* if (!running_.exchange(false)) return; the destructor calls it again.
StopFlag ==
  /\ owner \in {"started", "failed", "stopped"}
  /\ running' = FALSE
  /\ owner' = IF running /\ held THEN "joining"
              ELSE IF owner = "stopped" THEN "destroyed" ELSE "stopped"
  /\ UNCHANGED <<thread, registered, posted, block, sent, held, retries>>

\* Mutant: the thread is told to stop and not joined.
StopMacOSDetaches ==
  /\ owner = "joining"
  /\ held' = FALSE /\ owner' = "stopped"
  /\ UNCHANGED <<running, thread, registered, posted, block, sent, retries>>

\* StopMacOS joins the thread.
StopMacOS ==
  /\ owner = "joining" /\ thread = "done"
  /\ held' = FALSE /\ owner' = "stopped"
  /\ UNCHANGED <<running, thread, registered, posted, block, sent, retries>>

Stop == StopFlag \/ StopMacOS

Next ==
  \/ RunLoopThread
  \/ PostEvent \/ PostThermal \/ RunBlock
  \/ Start \/ Stop

\* The scheduler runs both threads and the queue.  Nobody has to call Stop.
Fairness ==
  WF_vars(RunLoopThread) /\ WF_vars(RunBlock) /\ WF_vars(Start) /\ WF_vars(StopMacOS)

Spec == Init /\ [][Next]_vars /\ Fairness

-----------------------------------------------------------------------------
(* Properties.                                                             *)

(* When Stop() has returned, the run-loop thread, whose callbacks use the   *)
(* monitor, has ended, whatever it was doing when running_ was cleared -    *)
(* provided Start() saw it ready in time, and so did not detach it.         *)
ThreadEndsFirst ==
  owner \in {"stopped", "destroyed"} /\ retries < MaxRetries => thread = "done"

(* An event the OS posts is called back, or the monitor stops.             *)
PostedIsHandled == posted > 0 ~> (posted = 0 \/ owner \in {"stopped", "destroyed"})
=============================================================================
