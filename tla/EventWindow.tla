---------------------------- MODULE EventWindow ----------------------------
(***************************************************************************)
(* SystemEventMonitor on Windows.  StartWindows creates the hidden window  *)
(* on the thread that calls it and then spawns a thread that pumps         *)
(* messages.  Windows queues a window's messages on the thread that        *)
(* created it, and GetMessageW(&msg, nullptr, ..) sees only the queue of   *)
(* the thread that calls it.  The owner, the program's main thread,        *)
(* dispatches no messages of its own.                                      *)
(***************************************************************************)
EXTENDS Naturals, Sequences

CONSTANTS
  MaxRetries,  \* the 50 looks at running_ of StartWindows
  MaxEvents    \* bound: power and volume notifications

VARIABLES
  window,    \* the thread whose queue the window uses; "none" before and after
  queue,     \* queue[t]: messages posted to thread t
  running,   \* running_
  pump,      \* the pump thread: "none", "starting", "waiting", "done"
  sent,      \* notifications sent
  retries,
  owner      \* where the owner is

vars == <<window, queue, running, pump, sent, retries, owner>>

Init ==
  /\ window = "none" /\ queue = [t \in {"owner", "pump"} |-> << >>]
  /\ running = FALSE /\ pump = "none"
  /\ sent = 0 /\ retries = 0 /\ owner = "new"

PostMessage(m) ==
  IF window = "none" THEN UNCHANGED queue
  ELSE queue' = [queue EXCEPT ![window] = Append(@, m)]

Notify ==
  /\ sent < MaxEvents /\ window # "none"
  /\ sent' = sent + 1
  /\ PostMessage("notify")
  /\ UNCHANGED <<window, running, pump, retries, owner>>

-----------------------------------------------------------------------------
(* StartWindows *)

\* RegisterClassExW and CreateWindowExW may fail: Start() returns false.
CreateWindow ==
  /\ owner = "new"
  /\ \/ window' = "owner" /\ owner' = "spawning"
     \/ UNCHANGED window /\ owner' = "failed"
  /\ UNCHANGED <<queue, running, pump, sent, retries>>

SpawnPump ==
  /\ owner = "spawning"
  /\ pump' = "starting" /\ owner' = "waiting"
  /\ UNCHANGED <<window, queue, running, sent, retries>>

WaitForPump ==
  /\ owner = "waiting"
  /\ IF running THEN owner' = "started" /\ UNCHANGED retries
     ELSE IF retries < MaxRetries THEN retries' = retries + 1 /\ UNCHANGED owner
     ELSE owner' = "failed" /\ UNCHANGED retries
  /\ UNCHANGED <<window, queue, running, pump, sent>>

-----------------------------------------------------------------------------
(* The pump: GetMessageW and DispatchMessageW. *)

PumpStarts ==
  /\ pump = "starting"
  /\ running' = TRUE /\ pump' = "waiting"
  /\ UNCHANGED <<window, queue, sent, retries, owner>>

\* WM_CLOSE destroys the window, and WM_DESTROY posts WM_QUIT.
Dispatch ==
  /\ pump = "waiting" /\ queue["pump"] # << >> /\ Head(queue["pump"]) # "quit"
  /\ IF Head(queue["pump"]) = "close"
     THEN window' = "none" /\ queue' = [queue EXCEPT !["pump"] = <<"quit">>]
     ELSE queue' = [queue EXCEPT !["pump"] = Tail(@)] /\ UNCHANGED window
  /\ UNCHANGED <<running, pump, sent, retries, owner>>

\* GetMessageW returns FALSE.
PumpEnds ==
  /\ pump = "waiting" /\ queue["pump"] # << >> /\ Head(queue["pump"]) = "quit"
  /\ pump' = "done"
  /\ UNCHANGED <<window, queue, running, sent, retries, owner>>

-----------------------------------------------------------------------------
(* Stop: running_ is cleared and WM_CLOSE is posted; the pump is joined. *)

StopFlag ==
  /\ owner = "started"
  /\ running' = FALSE
  /\ PostMessage("close")
  /\ owner' = "joining"
  /\ UNCHANGED <<window, pump, sent, retries>>

JoinPump ==
  /\ owner = "joining" /\ pump = "done"
  /\ owner' = "joined"
  /\ UNCHANGED <<window, queue, running, pump, sent, retries>>

Pump  == PumpStarts \/ Dispatch \/ PumpEnds
Owner == CreateWindow \/ SpawnPump \/ WaitForPump \/ JoinPump

Next == Owner \/ StopFlag \/ Pump \/ Notify

\* The scheduler runs the pump, and the owner until it chooses to stop.
Spec == Init /\ [][Next]_vars /\ WF_vars(Owner) /\ WF_vars(Pump)

(* "Signal message pump to exit" (SystemEventMonitor.cpp:557): the WM_CLOSE *)
(* StopWindows posts ends the pump, and Stop() returns.                    *)
StopReturns == owner = "joining" ~> owner = "joined"
=============================================================================
