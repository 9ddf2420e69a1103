------------------------------- MODULE Program -------------------------------
(***************************************************************************)
(* The three main programs (main_mac.cpp, main_linux.cpp, main.cpp): the   *)
(* order in which a process starts its parts, the main loop, the ways out  *)
(* of it, the thread of the terminal interface (TuiApp) and the notifiers  *)
(* of device changes that the loop polls.  What the loop collects is left  *)
(* out but for the generation of the USB and Bluetooth devices it last     *)
(* saw and whether it has disks to show.                                   *)
(***************************************************************************)
EXTENDS Integers, Sequences, FiniteSets

CONSTANTS Platforms,   \* the builds to consider, of "mac", "linux", "windows"
          UsbEvery,    \* the loops from one USB scan to the next (20 in the code)
          WirelessEvery, \* the loops between two looks at WiFi (6; 3 on Windows)
          MaxChanges,  \* bound: changes of the devices
          MaxThrows    \* bound: exceptions, failed scans included

ASSUME PlatformsAssumption == Platforms \subseteq {"mac", "linux", "windows"}

VARIABLES platform,   \* the build that runs
          pc,         \* where the main thread is
          shouldExit, \* g_shouldExit
          signals,    \* the Ctrl-Cs so far
          history,    \* whether the history logger runs
          serving,    \* whether the IPC server runs
          tui,        \* TuiApp: running_, its thread and what curses is at
          flags,      \* changed_ of the notifiers for "usb", "hub" and "bt"
          loops,      \* usbCheckCounter and wbCtr
          world,      \* the generation of the devices, by kind
          told,       \* the generation the callbacks reported
          seen,       \* the generation the last scan returned
          disks,      \* whether SMART data is cached and shown
          throws,     \* exceptions so far
          how         \* how main() ended, or the process in the midst of it

pvars == <<platform, pc, shouldExit, signals, history, serving, tui, flags, loops, world, told,
           seen, disks, throws, how>>

Kinds == {"usb", "bt"}

\* The parts in the order main() starts them.
StartupMac == <<"logger", "temps", "ipc", "tui", "history", "coordinator">>
StartupLinux == <<"logger", "temps", "tui", "history", "coordinator">>
StartupWindows == <<"logger", "admin", "com", "shm", "ipc", "wmi", "temps", "tui",
                    "history", "cpu", "coordinator">>
Startup == [mac |-> StartupMac, linux |-> StartupLinux, windows |-> StartupWindows]

\* A part without which main() gives up: at once, or on Windows, once there is
\* something to clean up, by way of SafeExit().  Without an administrator's rights
\* it starts itself again with them and exits, or, refused them, cleans up.
Fatal == [mac |-> {"logger"}, linux |-> {"logger"},
          windows |-> {"logger", "admin", "com", "shm", "wmi", "cpu"}]
CleansUp == {"admin", "shm", "wmi", "cpu"}

\* A part that main() may have to do without.
Optional == {"ipc", "history", "temps"}

\* The body of the main loop.
LoopMac == <<"collect", "wireless", "disks", "show", "record", "usb">>
LoopLinux == <<"collect", "usb", "wireless", "disks", "show", "record">>
LoopWindows == <<"collect", "disks", "wireless", "show", "usb", "record">>
Loop == [mac |-> LoopMac, linux |-> LoopLinux, windows |-> LoopWindows]

\* The way out after the loop.  On Windows SafeExit() is the tail of it.
ExitMac == <<"stop_tui", "stop_temps", "stop_history", "stop_ipc", "destroy">>
ExitLinux == <<"stop_tui", "stop_temps", "stop_history", "destroy">>
ExitWindows == <<"stop_tui", "stop_history", "stop_temps", "stop_shm", "stop_com", "exit">>
Exit == [mac |-> ExitMac, linux |-> ExitLinux, windows |-> ExitWindows]

\* What comes after place p of a list of places, or dflt at its end.
After(list, p, dflt) ==
  LET i == CHOOSE j \in DOMAIN list : list[j] = p
  IN  IF i = Len(list) THEN dflt ELSE list[i + 1]

Init ==
  /\ platform \in Platforms
  /\ pc = "logger"
  /\ shouldExit = FALSE /\ signals = 0
  /\ history = FALSE /\ serving = FALSE
  /\ tui = [run |-> FALSE, thread |-> "none", curses |-> FALSE, endwins |-> 0]
  /\ flags = [k \in {"usb", "hub", "bt"} |-> TRUE]
  /\ loops = [usb |-> 0, wireless |-> 0]
  /\ world = [k \in Kinds |-> 0] /\ told = [k \in Kinds |-> 0]
  /\ seen = [k \in Kinds |-> -1]
  /\ disks = [cached |-> FALSE, shown |-> FALSE]
  /\ throws = 0
  /\ how = "running"

Running == pc # "ended"

\* The process is gone at once; or main() is left for the static destructors.
End(h) == pc' = "ended" /\ how' = h
Leave(h) == pc' = "statics" /\ how' = h

\* Where the way out may stand still, for reasons outside this module: in a write
\* to a client that does not read (IpcServer), in the join of the log's worker
\* that has missed its wake-up (Logger).
Blocked == {"blocked_ipc", "blocked_log"}

(***************************************************************************)
(* The terminal interface.                                                 *)
(***************************************************************************)
SafeEndwinTwice(t) == [t EXCEPT !.curses = FALSE, !.endwins = @ + 1]
SafeEndwin(t) == IF t.curses THEN [t EXCEPT !.curses = FALSE, !.endwins = @ + 1] ELSE t

\* Run() initialises curses ...
TuiBegins ==
  /\ Running /\ tui.thread = "starts"
  /\ tui' = [tui EXCEPT !.thread = "loops", !.curses = TRUE]
  /\ UNCHANGED <<platform, pc, shouldExit, signals, history, serving, flags, loops, world, told,
                 seen, disks, throws, how>>

\* ... draws frames until the key that quits ...
TuiQuits ==
  /\ Running /\ tui.thread = "loops" /\ tui.run
  /\ tui' = [tui EXCEPT !.run = FALSE]
  /\ UNCHANGED <<platform, pc, shouldExit, signals, history, serving, flags, loops, world, told,
                 seen, disks, throws, how>>

\* ... or until Stop() has cleared running_, and gives the terminal back.
TuiEnds ==
  /\ Running /\ tui.thread = "loops" /\ ~tui.run
  /\ tui' = SafeEndwin([tui EXCEPT !.thread = "ended"])
  /\ UNCHANGED <<platform, pc, shouldExit, signals, history, serving, flags, loops, world, told,
                 seen, disks, throws, how>>

Tui == TuiBegins \/ TuiEnds

\* Stop() looks at running_ first: a no-op once the key has cleared it.
StopTuiBegins == tui' = [tui EXCEPT !.run = FALSE]
StopTuiJoins == tui.thread = "ended" /\ tui' = SafeEndwin([tui EXCEPT !.thread = "joined"])

(***************************************************************************)
(* Signals and devices.                                                    *)
(***************************************************************************)
\* The first Ctrl-C raises the flag; the second ends the process on the spot,
\* but on Windows, whose handler only raises the flag.
Signal ==
  /\ Running /\ signals < 2
  /\ signals' = signals + 1
  /\ shouldExit' = TRUE
  /\ IF signals = 1 /\ platform # "windows" THEN End("_exit") ELSE UNCHANGED <<pc, how>>
  /\ UNCHANGED <<platform, history, serving, tui, flags, loops, world, told, seen, disks,
                 throws>>

\* A device comes or goes.  macOS does not tell of those that go: the iterator of
\* their notification is never emptied, and so never armed.
Change(k, heard) ==
  /\ Running /\ world["usb"] + world["bt"] < MaxChanges
  /\ heard \/ platform = "mac"
  /\ world' = [world EXCEPT ![k] = @ + 1]
  /\ told' = IF ~heard /\ told[k] = world[k] THEN [told EXCEPT ![k] = @ + 1] ELSE told
  /\ UNCHANGED <<platform, pc, shouldExit, signals, history, serving, tui, flags, loops, seen,
                 disks, throws, how>>

\* The notification of the system.  One class of macOS covers hubs and devices.
Callback(k) ==
  /\ Running /\ platform # "linux" /\ told[k] < world[k]
  /\ told' = [told EXCEPT ![k] = world[k]]
  /\ flags' = [f \in DOMAIN flags |-> flags[f] \/ f = k \/ (f = "hub" /\ k = "usb")]
  /\ UNCHANGED <<platform, pc, shouldExit, signals, history, serving, tui, loops, world, seen,
                 disks, throws, how>>

\* Poll() of a notifier: always true where there is none.
Polled(f) == platform = "linux" \/ flags[f]

(***************************************************************************)
(* The main thread: start.                                                 *)
(***************************************************************************)
Starts(p) ==
  /\ pc = p /\ p \in {Startup[platform][i] : i \in DOMAIN Startup[platform]}
  /\ \/ /\ history' = (history \/ p = "history")
        /\ serving' = (serving \/ p = "ipc")
        /\ tui' = IF p = "tui" THEN [tui EXCEPT !.run = TRUE, !.thread = "starts"] ELSE tui
        /\ pc' = After(Startup[platform], p, "top")
        /\ UNCHANGED <<shouldExit, how>>
     \/ /\ p \in Optional
        /\ pc' = After(Startup[platform], p, "top")
        /\ UNCHANGED <<history, serving, tui, shouldExit, how>>
     \/ /\ p \in Fatal[platform]
        /\ p \notin CleansUp \/ p = "admin"
        /\ IF p = "logger" THEN End("failed") ELSE Leave("failed")
        /\ UNCHANGED <<history, serving, tui, shouldExit>>
     \/ /\ p \in Fatal[platform] \cap CleansUp
        /\ shouldExit' = TRUE
        /\ pc' = "stop_temps"
        /\ UNCHANGED <<history, serving, tui, how>>
  /\ UNCHANGED <<platform, signals, flags, loops, world, told, seen, disks, throws>>

(***************************************************************************)
(* The main thread: loop.                                                  *)
(***************************************************************************)
Go(s) == pc' = After(Loop[platform], s, "top")

LoopTestSignalOnly ==
  /\ pc = "top"
  /\ pc' = IF shouldExit THEN "stop_tui" ELSE "collect"
  /\ UNCHANGED <<platform, shouldExit, signals, history, serving, tui, flags, loops, world,
                 told, seen, disks, throws, how>>

\* On Windows the loop does not ask whether the terminal interface runs.
LoopTest ==
  /\ pc = "top"
  /\ pc' = IF shouldExit \/ (platform # "windows" /\ ~tui.run)
             THEN "stop_tui" ELSE "collect"
  /\ UNCHANGED <<platform, shouldExit, signals, history, serving, tui, flags, loops, world,
                 told, seen, disks, throws, how>>

\* The snapshot of the coordinator, GPU, sensors (Sample models what is in it);
\* the terminal interface, the block and the pause; the history.
Collect ==
  /\ pc \in {"collect", "show", "record"}
  /\ Go(pc)
  /\ UNCHANGED <<platform, shouldExit, signals, history, serving, tui, flags, loops, world,
                 told, seen, disks, throws, how>>

\* WiFi and Bluetooth on every n-th loop; Bluetooth only if its notifier says so.
\* On Windows the dirty bits the ETW monitor left in the coordinator force both.
Wireless(forced) ==
  /\ pc = "wireless" /\ (forced => platform = "windows")
  /\ LET due == loops.wireless + 1 >= WirelessEvery \/ forced IN
     /\ loops' = [loops EXCEPT !.wireless = IF due THEN 0 ELSE @ + 1]
     /\ flags' = IF due THEN [flags EXCEPT !["bt"] = FALSE] ELSE flags
     /\ IF due /\ (Polled("bt") \/ forced) THEN pc' = "detect_bt" ELSE Go("wireless")
  /\ UNCHANGED <<platform, shouldExit, signals, history, serving, tui, world, told, seen, disks,
                 throws, how>>

\* The SMART cache: an empty answer keeps what was there.  An exception leaves the
\* cache too; but Windows shows no disks in that loop.
Disks(due, answer) ==
  /\ pc = "disks"
  /\ answer = "throws" => throws < MaxThrows
  /\ throws' = IF due /\ answer = "throws" THEN throws + 1 ELSE throws
  /\ LET c == disks.cached \/ (due /\ answer = "some")
     IN  disks' = [cached |-> c,
                   shown |-> c /\ ~(platform = "windows" /\ due /\ answer = "throws")]
  /\ Go("disks")
  /\ UNCHANGED <<platform, shouldExit, signals, history, serving, tui, flags, loops, world,
                 told, seen, how>>

UsbAtLimitOnly ==
  /\ pc = "usb"
  /\ LET changed == Polled("usb") \/ Polled("hub")
         n == (IF changed THEN UsbEvery ELSE loops.usb) + 1
     IN  /\ flags' = [flags EXCEPT !["usb"] = FALSE, !["hub"] = @ /\ Polled("usb")]
         /\ loops' = [loops EXCEPT !.usb = IF n = UsbEvery THEN 0
                                         ELSE IF n > UsbEvery THEN UsbEvery ELSE n]
         /\ IF n = UsbEvery THEN pc' = "detect_usb" ELSE Go("usb")
  /\ UNCHANGED <<platform, shouldExit, signals, history, serving, tui, world, told, seen, disks,
                 throws, how>>

\* USB: a notification brings the counter to its limit.  The hub's flag is not
\* consumed when the other is up.  Windows looks only if the history runs.
Usb ==
  /\ pc = "usb"
  /\ IF platform = "windows" /\ ~history
     THEN Go("usb") /\ UNCHANGED <<flags, loops>>
     ELSE LET changed == Polled("usb") \/ Polled("hub")
              n == (IF changed THEN UsbEvery ELSE loops.usb) + 1
          IN  /\ flags' = [flags EXCEPT !["usb"] = FALSE, !["hub"] = @ /\ Polled("usb")]
              /\ loops' = [loops EXCEPT !.usb = IF n >= UsbEvery THEN 0 ELSE n]
              /\ IF n >= UsbEvery THEN pc' = "detect_usb" ELSE Go("usb")
  /\ UNCHANGED <<platform, shouldExit, signals, history, serving, tui, world, told, seen, disks,
                 throws, how>>

\* Detect() of the one or the other; its exceptions are swallowed.
DetectAt == [usb |-> "detect_usb", bt |-> "detect_bt"]
Detect(k) ==
  /\ pc = DetectAt[k]
  /\ \/ seen' = [seen EXCEPT ![k] = world[k]] /\ UNCHANGED throws
     \/ throws < MaxThrows /\ throws' = throws + 1 /\ UNCHANGED seen
  /\ Go(IF k = "usb" THEN "usb" ELSE "wireless")
  /\ UNCHANGED <<platform, shouldExit, signals, history, serving, tui, flags, loops, world,
                 told, disks, how>>

\* An exception of the rest of the loop's body.  On Windows what shows and
\* publishes has a handler of its own, and the pause and the history follow.
Throw ==
  /\ pc \in {"collect", "wireless", "show", "record"}
  /\ throws < MaxThrows
  /\ throws' = throws + 1
  /\ pc' = IF platform = "windows" /\ pc \in {"wireless", "show"} THEN "usb" ELSE "top"
  /\ UNCHANGED <<platform, shouldExit, signals, history, serving, tui, flags, loops, world,
                 told, seen, disks, how>>

(***************************************************************************)
(* The main thread: end.                                                   *)
(***************************************************************************)
StopTui ==
  /\ pc = "stop_tui"
  /\ IF tui.run
     THEN StopTuiBegins /\ pc' = "join_tui"
     ELSE pc' = After(Exit[platform], "stop_tui", "ended") /\ UNCHANGED tui
  /\ UNCHANGED <<platform, shouldExit, signals, history, serving, flags, loops, world, told,
                 seen, disks, throws, how>>

JoinTui ==
  /\ pc = "join_tui"
  /\ StopTuiJoins
  /\ pc' = After(Exit[platform], "stop_tui", "ended")
  /\ UNCHANGED <<platform, shouldExit, signals, history, serving, flags, loops, world, told,
                 seen, disks, throws, how>>

\* The other parts, one after the other.  Stop() of the IPC server tells each
\* client that it goes, and writes to a socket that may be full.
StopPart(p) ==
  /\ pc = p
  /\ history' = (history /\ p # "stop_history")
  /\ serving' = (serving /\ p # "stop_ipc")
  /\ shouldExit' = (shouldExit \/ platform = "windows")
  /\ \/ pc' = After(Exit[platform], pc, "ended")
     \/ p = "stop_ipc" /\ serving /\ pc' = "blocked_ipc"
  /\ UNCHANGED <<platform, signals, tui, flags, loops, world, told, seen, disks, throws, how>>

\* exit() runs no destructor of main()'s objects, but the static ones.
SafeExit ==
  /\ pc = "exit"
  /\ Leave("exit")
  /\ UNCHANGED <<platform, shouldExit, signals, history, serving, tui, flags, loops, world,
                 told, seen, disks, throws>>

\* main() returns: a std::thread that was not joined ends the process by abort().
Return ==
  /\ pc = "destroy"
  /\ IF tui.thread \in {"none", "joined"} THEN Leave("return") ELSE End("abort")
  /\ UNCHANGED <<platform, shouldExit, signals, history, serving, tui, flags, loops, world,
                 told, seen, disks, throws>>

\* ~LogTerminator, the one static destructor that waits: Logger::Shutdown() joins
\* the log's worker.
LogTerminator ==
  /\ pc = "statics"
  /\ pc' \in {"ended", "blocked_log"}
  /\ UNCHANGED <<platform, shouldExit, signals, history, serving, tui, flags, loops, world,
                 told, seen, disks, throws, how>>

\* The client reads or goes; the worker wakes up for no reason.  Nobody has to.
Unblock ==
  /\ pc \in Blocked
  /\ pc' = IF pc = "blocked_ipc" THEN After(Exit[platform], "stop_ipc", "ended") ELSE "ended"
  /\ UNCHANGED <<platform, shouldExit, signals, history, serving, tui, flags, loops, world,
                 told, seen, disks, throws, how>>

Main ==
  /\ Running
  /\ \/ \E p \in {"logger", "admin", "com", "shm", "ipc", "wmi", "temps", "tui", "history",
                  "cpu", "coordinator"} : Starts(p)
     \/ LoopTest
     \/ Collect \/ Usb \/ Throw
     \/ \E f \in BOOLEAN : Wireless(f)
     \/ \E due \in BOOLEAN, a \in {"some", "none", "throws"} : Disks(due, a)
     \/ \E k \in Kinds : Detect(k)
     \/ StopTui \/ JoinTui \/ SafeExit \/ Return \/ LogTerminator
     \/ \E p \in {"stop_temps", "stop_history", "stop_ipc", "stop_shm", "stop_com"} :
          StopPart(p)

Next ==
  \/ Main \/ Unblock \/ Tui \/ TuiQuits \/ Signal
  \/ \E k \in Kinds : Callback(k) \/ \E heard \in BOOLEAN : Change(k, heard)

\* The scheduler runs both threads and the system delivers its notifications;
\* nobody has to press a key.
Fairness == WF_pvars(Main) /\ WF_pvars(Tui) /\ \A k \in Kinds : WF_pvars(Callback(k))

Spec == Init /\ [][Next]_pvars /\ Fairness

(***************************************************************************)
(* Properties.                                                             *)
(***************************************************************************)
\* Ctrl-C, wherever in the start, the loop or the way out it comes, ends the
\* process or brings it to one of the two places whose wait is not its own to end:
\* the last write to a client, the join of the log's worker.  So does quitting from
\* the terminal interface, but on Windows.  None of its other joins, and no thread
\* that draws, can hold it up.
QuitEnds ==
  (shouldExit \/ (platform # "windows" /\ tui.thread = "loops" /\ ~tui.run))
    ~> (~Running \/ pc \in Blocked)

\* The terminal is given back at most once, by whichever of the two threads is
\* first ("Ensure endwin() is called exactly once", TuiApp.h), and never under the
\* thread that draws.  A main() that returns has joined that thread, given the
\* terminal back and stopped the history.
TerminalGivenBack ==
  /\ tui.endwins <= 1
  /\ tui.thread = "loops" => tui.curses
  /\ how = "return" => /\ tui.thread = "joined" /\ tui.endwins = 1 /\ ~tui.curses
                       /\ ~history

\* The main thread is past its loop, or never comes to it.
LeftLoop ==
  pc \in {Exit[platform][i] : i \in DOMAIN Exit[platform]} \cup Blocked
           \cup {"join_tui", "statics", "ended"}

\* The USB devices a scan last returned do not stay behind those that are there:
\* neither a change during a scan, nor one both notifiers report, nor a scan that
\* fails gets lost.  (On Windows as long as there is a history; Bluetooth where
\* every look is a scan.)
LatestDevicesSeen ==
  /\ (world["usb"] # seen["usb"] /\ (platform = "windows" => history))
       ~> (world["usb"] = seen["usb"] \/ LeftLoop \/ shouldExit)
  /\ (platform = "linux" /\ world["bt"] # seen["bt"])
       ~> (world["bt"] = seen["bt"] \/ LeftLoop)

\* A process that gets to the end of main() returns from it: the thread of the
\* terminal interface has been joined by then ("Start/stop the TUI (runs in its
\* own thread)", TuiApp.h).
TuiIsStopped == how # "abort"
==============================================================================
