----------------------------- MODULE ProgramProofs -----------------------------
(***************************************************************************)
(* Proofs about the three main programs: in which order the places of      *)
(* main() come after each other, and what that means for the thread of the *)
(* terminal interface and for the terminal.                                *)
(***************************************************************************)
EXTENDS Program, TLAPS

Builds == {"mac", "linux", "windows"}
PlacesOf(list) == {list[i] : i \in DOMAIN list}

\* Before the terminal interface is started, and from there to the loop.
Early == {"logger", "admin", "com", "shm", "ipc", "wmi", "temps", "tui"}
Late == {"history", "cpu", "coordinator"}
Looping == {"top", "collect", "wireless", "disks", "show", "record", "usb", "detect_usb",
            "detect_bt"}

\* Once main() is left; and the places of the way out that its list does not name.
Gone == {"statics", "blocked_log", "ended"}
Between == {"join_tui", "blocked_ipc"} \cup Gone

-----------------------------------------------------------------------------
(* The order of the places.                                                *)

(* In a list that names each place once, After() is what its name says. *)
LEMMA AfterIs ==
  ASSUME NEW list, NEW i \in DOMAIN list,
         \A j \in DOMAIN list : list[j] = list[i] => j = i,
         NEW d
  PROVE  After(list, list[i], d) = IF i = Len(list) THEN d ELSE list[i + 1]
<1> DEFINE c == CHOOSE j \in DOMAIN list : list[j] = list[i]
<1>1. c \in DOMAIN list /\ list[c] = list[i]
  OBVIOUS
<1>2. c = i
  BY <1>1
<1> QED
  BY <1>2 DEF After

Once(list) == \A i, j \in DOMAIN list : list[i] = list[j] => i = j

(* So After gives the place that follows, in a list that names each place once. *)
LEMMA AfterFollows ==
  ASSUME NEW list, Once(list)
  PROVE  \A d : \A i \in DOMAIN list :
           After(list, list[i], d) = IF i = Len(list) THEN d ELSE list[i + 1]
BY AfterIs DEF Once

(* Start and way out name each place once. *)
LEMMA OnceMac == Once(StartupMac) /\ Once(ExitMac)
BY DEF Once, StartupMac, ExitMac

(* The same of Linux. *)
LEMMA OnceLinux == Once(StartupLinux) /\ Once(ExitLinux)
BY DEF Once, StartupLinux, ExitLinux

(* And of Windows. *)
LEMMA OnceWindows == Once(StartupWindows) /\ Once(ExitWindows)
BY DEF Once, StartupWindows, ExitWindows

(* The start of macOS, place by place. *)
LEMMA StartupMacGoes ==
  /\ PlacesOf(StartupMac) = {"logger", "temps", "ipc", "tui", "history", "coordinator"}
  /\ \A d : /\ After(StartupMac, "logger", d) = "temps"
            /\ After(StartupMac, "temps", d) = "ipc"
            /\ After(StartupMac, "ipc", d) = "tui"
            /\ After(StartupMac, "tui", d) = "history"
            /\ After(StartupMac, "history", d) = "coordinator"
            /\ After(StartupMac, "coordinator", d) = d
<1>1. /\ DOMAIN StartupMac = 1..6 /\ Len(StartupMac) = 6
      /\ StartupMac[1] = "logger"
      /\ StartupMac[2] = "temps"
      /\ StartupMac[3] = "ipc"
      /\ StartupMac[4] = "tui"
      /\ StartupMac[5] = "history"
      /\ StartupMac[6] = "coordinator"
  BY DEF StartupMac
<1>2. \A d : \A i \in DOMAIN StartupMac : After(StartupMac, StartupMac[i], d) =
        IF i = Len(StartupMac) THEN d ELSE StartupMac[i + 1]
  BY OnceMac, AfterFollows
<1>3. \A d : /\ After(StartupMac, StartupMac[1], d) = StartupMac[2]
            /\ After(StartupMac, StartupMac[2], d) = StartupMac[3]
            /\ After(StartupMac, StartupMac[3], d) = StartupMac[4]
            /\ After(StartupMac, StartupMac[4], d) = StartupMac[5]
            /\ After(StartupMac, StartupMac[5], d) = StartupMac[6]
            /\ After(StartupMac, StartupMac[6], d) = d
  BY <1>1, <1>2
<1> QED
  BY <1>1, <1>3 DEF PlacesOf

(* The start of Linux, place by place. *)
LEMMA StartupLinuxGoes ==
  /\ PlacesOf(StartupLinux) = {"logger", "temps", "tui", "history", "coordinator"}
  /\ \A d : /\ After(StartupLinux, "logger", d) = "temps"
            /\ After(StartupLinux, "temps", d) = "tui"
            /\ After(StartupLinux, "tui", d) = "history"
            /\ After(StartupLinux, "history", d) = "coordinator"
            /\ After(StartupLinux, "coordinator", d) = d
<1>1. /\ DOMAIN StartupLinux = 1..5 /\ Len(StartupLinux) = 5
      /\ StartupLinux[1] = "logger"
      /\ StartupLinux[2] = "temps"
      /\ StartupLinux[3] = "tui"
      /\ StartupLinux[4] = "history"
      /\ StartupLinux[5] = "coordinator"
  BY DEF StartupLinux
<1>2. \A d : \A i \in DOMAIN StartupLinux : After(StartupLinux, StartupLinux[i], d) =
        IF i = Len(StartupLinux) THEN d ELSE StartupLinux[i + 1]
  BY OnceLinux, AfterFollows
<1>3. \A d : /\ After(StartupLinux, StartupLinux[1], d) = StartupLinux[2]
            /\ After(StartupLinux, StartupLinux[2], d) = StartupLinux[3]
            /\ After(StartupLinux, StartupLinux[3], d) = StartupLinux[4]
            /\ After(StartupLinux, StartupLinux[4], d) = StartupLinux[5]
            /\ After(StartupLinux, StartupLinux[5], d) = d
  BY <1>1, <1>2
<1> QED
  BY <1>1, <1>3 DEF PlacesOf

(* The start of Windows, place by place. *)
LEMMA StartupWindowsGoes ==
  /\ PlacesOf(StartupWindows) = {"logger", "admin", "com", "shm", "ipc", "wmi", "temps", "tui",
                                 "history", "cpu", "coordinator"}
  /\ \A d : /\ After(StartupWindows, "logger", d) = "admin"
            /\ After(StartupWindows, "admin", d) = "com"
            /\ After(StartupWindows, "com", d) = "shm"
            /\ After(StartupWindows, "shm", d) = "ipc"
            /\ After(StartupWindows, "ipc", d) = "wmi"
            /\ After(StartupWindows, "wmi", d) = "temps"
            /\ After(StartupWindows, "temps", d) = "tui"
            /\ After(StartupWindows, "tui", d) = "history"
            /\ After(StartupWindows, "history", d) = "cpu"
            /\ After(StartupWindows, "cpu", d) = "coordinator"
            /\ After(StartupWindows, "coordinator", d) = d
<1>1. /\ DOMAIN StartupWindows = 1..11 /\ Len(StartupWindows) = 11
      /\ StartupWindows[1] = "logger"
      /\ StartupWindows[2] = "admin"
      /\ StartupWindows[3] = "com"
      /\ StartupWindows[4] = "shm"
      /\ StartupWindows[5] = "ipc"
      /\ StartupWindows[6] = "wmi"
      /\ StartupWindows[7] = "temps"
      /\ StartupWindows[8] = "tui"
      /\ StartupWindows[9] = "history"
      /\ StartupWindows[10] = "cpu"
      /\ StartupWindows[11] = "coordinator"
  BY DEF StartupWindows
<1>2. \A d : \A i \in DOMAIN StartupWindows : After(StartupWindows, StartupWindows[i], d) =
        IF i = Len(StartupWindows) THEN d ELSE StartupWindows[i + 1]
  BY OnceWindows, AfterFollows
<1>3. \A d : /\ After(StartupWindows, StartupWindows[1], d) = StartupWindows[2]
            /\ After(StartupWindows, StartupWindows[2], d) = StartupWindows[3]
            /\ After(StartupWindows, StartupWindows[3], d) = StartupWindows[4]
            /\ After(StartupWindows, StartupWindows[4], d) = StartupWindows[5]
            /\ After(StartupWindows, StartupWindows[5], d) = StartupWindows[6]
            /\ After(StartupWindows, StartupWindows[6], d) = StartupWindows[7]
            /\ After(StartupWindows, StartupWindows[7], d) = StartupWindows[8]
            /\ After(StartupWindows, StartupWindows[8], d) = StartupWindows[9]
            /\ After(StartupWindows, StartupWindows[9], d) = StartupWindows[10]
            /\ After(StartupWindows, StartupWindows[10], d) = StartupWindows[11]
            /\ After(StartupWindows, StartupWindows[11], d) = d
  BY <1>1, <1>2
<1> QED
  BY <1>1, <1>3 DEF PlacesOf

(* The way out of macOS, place by place. *)
LEMMA ExitMacGoes ==
  /\ PlacesOf(ExitMac) = {"stop_tui", "stop_temps", "stop_history", "stop_ipc", "destroy"}
  /\ \A d : /\ After(ExitMac, "stop_tui", d) = "stop_temps"
            /\ After(ExitMac, "stop_temps", d) = "stop_history"
            /\ After(ExitMac, "stop_history", d) = "stop_ipc"
            /\ After(ExitMac, "stop_ipc", d) = "destroy"
            /\ After(ExitMac, "destroy", d) = d
<1>1. /\ DOMAIN ExitMac = 1..5 /\ Len(ExitMac) = 5
      /\ ExitMac[1] = "stop_tui"
      /\ ExitMac[2] = "stop_temps"
      /\ ExitMac[3] = "stop_history"
      /\ ExitMac[4] = "stop_ipc"
      /\ ExitMac[5] = "destroy"
  BY DEF ExitMac
<1>2. \A d : \A i \in DOMAIN ExitMac : After(ExitMac, ExitMac[i], d) =
        IF i = Len(ExitMac) THEN d ELSE ExitMac[i + 1]
  BY OnceMac, AfterFollows
<1>3. \A d : /\ After(ExitMac, ExitMac[1], d) = ExitMac[2]
            /\ After(ExitMac, ExitMac[2], d) = ExitMac[3]
            /\ After(ExitMac, ExitMac[3], d) = ExitMac[4]
            /\ After(ExitMac, ExitMac[4], d) = ExitMac[5]
            /\ After(ExitMac, ExitMac[5], d) = d
  BY <1>1, <1>2
<1> QED
  BY <1>1, <1>3 DEF PlacesOf

(* The way out of Linux, place by place. *)
LEMMA ExitLinuxGoes ==
  /\ PlacesOf(ExitLinux) = {"stop_tui", "stop_temps", "stop_history", "destroy"}
  /\ \A d : /\ After(ExitLinux, "stop_tui", d) = "stop_temps"
            /\ After(ExitLinux, "stop_temps", d) = "stop_history"
            /\ After(ExitLinux, "stop_history", d) = "destroy"
            /\ After(ExitLinux, "destroy", d) = d
<1>1. /\ DOMAIN ExitLinux = 1..4 /\ Len(ExitLinux) = 4
      /\ ExitLinux[1] = "stop_tui"
      /\ ExitLinux[2] = "stop_temps"
      /\ ExitLinux[3] = "stop_history"
      /\ ExitLinux[4] = "destroy"
  BY DEF ExitLinux
<1>2. \A d : \A i \in DOMAIN ExitLinux : After(ExitLinux, ExitLinux[i], d) =
        IF i = Len(ExitLinux) THEN d ELSE ExitLinux[i + 1]
  BY OnceLinux, AfterFollows
<1>3. \A d : /\ After(ExitLinux, ExitLinux[1], d) = ExitLinux[2]
            /\ After(ExitLinux, ExitLinux[2], d) = ExitLinux[3]
            /\ After(ExitLinux, ExitLinux[3], d) = ExitLinux[4]
            /\ After(ExitLinux, ExitLinux[4], d) = d
  BY <1>1, <1>2
<1> QED
  BY <1>1, <1>3 DEF PlacesOf

(* The way out of Windows, place by place. *)
LEMMA ExitWindowsGoes ==
  /\ PlacesOf(ExitWindows) = {"stop_tui", "stop_history", "stop_temps", "stop_shm", "stop_com",
                              "exit"}
  /\ \A d : /\ After(ExitWindows, "stop_tui", d) = "stop_history"
            /\ After(ExitWindows, "stop_history", d) = "stop_temps"
            /\ After(ExitWindows, "stop_temps", d) = "stop_shm"
            /\ After(ExitWindows, "stop_shm", d) = "stop_com"
            /\ After(ExitWindows, "stop_com", d) = "exit"
            /\ After(ExitWindows, "exit", d) = d
<1>1. /\ DOMAIN ExitWindows = 1..6 /\ Len(ExitWindows) = 6
      /\ ExitWindows[1] = "stop_tui"
      /\ ExitWindows[2] = "stop_history"
      /\ ExitWindows[3] = "stop_temps"
      /\ ExitWindows[4] = "stop_shm"
      /\ ExitWindows[5] = "stop_com"
      /\ ExitWindows[6] = "exit"
  BY DEF ExitWindows
<1>2. \A d : \A i \in DOMAIN ExitWindows : After(ExitWindows, ExitWindows[i], d) =
        IF i = Len(ExitWindows) THEN d ELSE ExitWindows[i + 1]
  BY OnceWindows, AfterFollows
<1>3. \A d : /\ After(ExitWindows, ExitWindows[1], d) = ExitWindows[2]
            /\ After(ExitWindows, ExitWindows[2], d) = ExitWindows[3]
            /\ After(ExitWindows, ExitWindows[3], d) = ExitWindows[4]
            /\ After(ExitWindows, ExitWindows[4], d) = ExitWindows[5]
            /\ After(ExitWindows, ExitWindows[5], d) = ExitWindows[6]
            /\ After(ExitWindows, ExitWindows[6], d) = d
  BY <1>1, <1>2
<1> QED
  BY <1>1, <1>3 DEF PlacesOf

(* What comes after a place of a list is one of its places or the default. *)
LEMMA AfterStays ==
  ASSUME NEW list, NEW n \in Nat, DOMAIN list = 1..n, Len(list) = n,
         NEW p \in PlacesOf(list), NEW d
  PROVE  After(list, p, d) \in PlacesOf(list) \cup {d}
<1> DEFINE c == CHOOSE j \in DOMAIN list : list[j] = p
<1>1. \E j \in DOMAIN list : list[j] = p
  BY DEF PlacesOf
<1>2. c \in 1..n
  BY <1>1
<1>3. After(list, p, d) = IF c = n THEN d ELSE list[c + 1]
  BY DEF After
<1> HIDE DEF c
<1>4. CASE c = n
  BY <1>3, <1>4
<1>5. CASE c # n
  BY <1>2, <1>3, <1>5 DEF PlacesOf
<1> QED
  BY <1>4, <1>5

(* The three programs at once. *)
LEMMA StartGoes ==
  ASSUME NEW b \in Builds, NEW p \in PlacesOf(Startup[b])
  PROVE  /\ p \in Early \cup Late
         /\ p \in Early \ {"tui"} => After(Startup[b], p, "top") \in Early
         /\ p \in Late \cup {"tui"} => After(Startup[b], p, "top") \in Late \cup {"top"}
<1>1. CASE b = "mac"
  BY <1>1, StartupMacGoes DEF Startup, Early, Late
<1>2. CASE b = "linux"
  BY <1>2, StartupLinuxGoes DEF Startup, Early, Late
<1>3. CASE b = "windows"
  BY <1>3, StartupWindowsGoes DEF Startup, Early, Late
<1> QED
  BY <1>1, <1>2, <1>3 DEF Builds

Body == {"collect", "wireless", "disks", "show", "record", "usb"}

(* A turn of the loop stays in the loop. *)
LEMMA LoopGoes ==
  ASSUME NEW b \in Builds, NEW p \in Body
  PROVE  After(Loop[b], p, "top") \in Looping
<1>1. DOMAIN Loop[b] = 1..6 /\ Len(Loop[b]) = 6 /\ PlacesOf(Loop[b]) = Body
  BY DEF Loop, LoopMac, LoopLinux, LoopWindows, Builds, PlacesOf, Body
<1>2. After(Loop[b], p, "top") \in Body \cup {"top"}
  BY <1>1, AfterStays
<1> QED
  BY <1>2 DEF Body, Looping

(* The way out never turns back, and stops the terminal interface on its way. *)
LEMMA ExitGoes ==
  ASSUME NEW b \in Builds
  PROVE  /\ {"stop_tui", "stop_temps"} \subseteq PlacesOf(Exit[b])
         /\ "destroy" \in PlacesOf(Exit[b]) => b # "windows"
         /\ "stop_ipc" \in PlacesOf(Exit[b]) => b = "mac"
         /\ PlacesOf(Exit[b]) \cap (Early \cup Late \cup Looping \cup Between) = {}
         /\ \A p \in PlacesOf(Exit[b]) \ {"exit", "destroy"} :
              /\ After(Exit[b], p, "ended") \in PlacesOf(Exit[b])
              /\ After(Exit[b], p, "ended") \in {"stop_ipc", "destroy"} =>
                   p \in {"stop_history", "stop_ipc"}
<1>1. CASE b = "mac"
  BY <1>1, ExitMacGoes DEF Exit, Early, Late, Looping, Between, Gone
<1>2. CASE b = "linux"
  BY <1>2, ExitLinuxGoes DEF Exit, Early, Late, Looping, Between, Gone
<1>3. CASE b = "windows"
  BY <1>3, ExitWindowsGoes DEF Exit, Early, Late, Looping, Between, Gone
<1> QED
  BY <1>1, <1>2, <1>3 DEF Builds

-----------------------------------------------------------------------------
(* The terminal.                                                           *)

Threads == {"none", "starts", "loops", "ended", "joined"}

\* What curses is at, at each point of the life of the drawing thread.
Curses ==
  /\ tui.thread \in {"none", "starts"} => ~tui.curses /\ tui.endwins = 0
  /\ tui.thread = "loops" => tui.curses /\ tui.endwins = 0
  /\ tui.thread \in {"ended", "joined"} => ~tui.curses /\ tui.endwins = 1

\* Where the main thread is.  The drawing thread is started once, and a program that
\* gets to its loop has started it; only Windows cleans up without.
Place ==
  /\ pc \in Early \cup Late \cup Looping \cup Between \cup PlacesOf(Exit[platform])
  /\ pc \in Early => tui.thread = "none"
  /\ tui.thread = "none" => pc \in Early \cup {"ended"} \/ platform = "windows"
  /\ pc \in {"stop_ipc", "blocked_ipc", "destroy"} => ~history
  /\ pc = "blocked_ipc" => platform = "mac"

Returned == how = "return" => tui.thread = "joined" /\ ~history /\ pc \in Gone

IInv ==
  /\ platform \in Builds /\ history \in BOOLEAN
  /\ tui \in [run : BOOLEAN, thread : Threads, curses : BOOLEAN, endwins : 0..1]
  /\ Curses /\ Place /\ Returned

(* A step of the main thread, of a signal or of the system that touches neither the *)
(* terminal interface nor the history.                                              *)
LEMMA MovesKeep ==
  ASSUME IInv, UNCHANGED <<platform, history, tui>>,
         how' = how \/ how' # "return",
         \/ pc' = pc \/ pc' = "ended"
         \/ /\ pc # "ended" /\ pc' \in {"statics", "blocked_log"}
            /\ pc \in Early => platform = "windows"
         \/ pc \in Looping /\ pc' \in Looping \cup {"stop_tui"}
  PROVE  IInv'
<1>1. Returned'
  BY DEF IInv, Returned, Gone, Looping
<1>2. Curses'
  BY DEF IInv, Curses
<1>3. Place'
  <2>1. PlacesOf(Exit[platform])' = PlacesOf(Exit[platform])
    BY DEF PlacesOf
  <2>2. "stop_tui" \in PlacesOf(Exit[platform])
    BY ExitGoes DEF IInv
  <2>3. CASE pc' = pc
    BY <2>1, <2>3 DEF IInv, Place
  <2>4. CASE pc' = "ended"
    BY <2>4 DEF IInv, Place, Early, Between, Gone
  <2>5. CASE pc \in Looping /\ pc' \in Looping \cup {"stop_tui"}
    BY <2>1, <2>2, <2>5 DEF IInv, Place, Early, Looping, Between, Gone
  <2>6. CASE /\ pc # "ended" /\ pc' \in {"statics", "blocked_log"}
             /\ pc \in Early => platform = "windows"
    BY <2>6 DEF IInv, Place, Early, Between, Gone
  <2> QED
    BY <2>3, <2>4, <2>5, <2>6
<1> QED
  BY <1>1, <1>2, <1>3 DEF IInv

(* The invariant holds when the program is started. *)
LEMMA ProgramStarts == Init => IInv
<1> SUFFICES ASSUME Init PROVE IInv
  OBVIOUS
<1>1. platform \in Builds /\ history \in BOOLEAN /\ Returned
  BY PlatformsAssumption DEF Init, Builds, Returned
<1>2. tui = [run |-> FALSE, thread |-> "none", curses |-> FALSE, endwins |-> 0]
  BY DEF Init
<1>3. /\ tui \in [run : BOOLEAN, thread : Threads, curses : BOOLEAN, endwins : 0..1]
      /\ Curses
  BY <1>2 DEF Threads, Curses
<1>4. Place
  BY <1>2 DEF Init, Place, Early
<1> QED
  BY <1>1, <1>3, <1>4 DEF IInv

(* Start: the part "tui" starts the drawing thread, once; Windows may turn to the *)
(* way out.                                                                       *)
LEMMA StartKeeps ==
  ASSUME IInv, Running, NEW p, Starts(p)
  PROVE  IInv'
<1> DEFINE next == After(Startup[platform], p, "top")
<1>1. /\ pc = p /\ p \in PlacesOf(Startup[platform]) /\ platform' = platform
      /\ platform \in Builds
  BY DEF Starts, PlacesOf, IInv
<1>2. /\ p \in Early \cup Late
      /\ p \in Early \ {"tui"} => next \in Early
      /\ p \in Late \cup {"tui"} => next \in Late \cup {"top"}
  BY <1>1, StartGoes
<1>3. PlacesOf(Exit[platform])' = PlacesOf(Exit[platform])
  BY <1>1 DEF PlacesOf
<1>4. /\ {"stop_tui", "stop_temps"} \subseteq PlacesOf(Exit[platform])
      /\ PlacesOf(Exit[platform]) \cap (Early \cup Late \cup Between) = {}
  BY <1>1, ExitGoes
<1>5. p \in Early => tui.thread = "none"
  BY <1>1 DEF IInv, Place
<1>6. tui.thread = "none" => p \in Early \/ platform = "windows"
  BY <1>1, <1>2 DEF IInv, Place, Early, Late
<1>18. how # "return"
  BY <1>1, <1>2 DEF IInv, Returned, Gone, Early, Late
<1> HIDE DEF next
<1>7. CASE /\ pc' = "ended" \/ (pc' = "statics" /\ platform = "windows")
           /\ how' # "return" /\ UNCHANGED <<history, tui>>
  BY <1>1, <1>7, MovesKeep DEF Running
<1>8. CASE pc' = next /\ p = "tui" /\ how' = how
           /\ history' = (history \/ p = "history")
           /\ tui' = [tui EXCEPT !.run = TRUE, !.thread = "starts"]
  <2>1. /\ tui' \in [run : BOOLEAN, thread : Threads, curses : BOOLEAN, endwins : 0..1]
        /\ tui'.thread = "starts" /\ tui'.curses = tui.curses /\ tui'.endwins = tui.endwins
        /\ history' \in BOOLEAN
    BY <1>8 DEF IInv, Threads
  <2>2. Curses'
    BY <1>5, <1>8, <2>1 DEF IInv, Curses, Early
  <2>3. Place'
    BY <1>2, <1>8, <2>1 DEF Place, Early, Late, Looping, Between, Gone
  <2>4. Returned'
    BY <1>5, <1>8 DEF IInv, Returned, Early
  <2> QED
    BY <1>1, <2>1, <2>2, <2>3, <2>4 DEF IInv
<1>9. CASE pc' = next /\ p # "tui" /\ how' = how /\ tui' = tui /\ history' \in BOOLEAN
  <2>1. next \in Early \cup Late \cup {"top"} /\ next \notin {"stop_ipc", "blocked_ipc", "destroy"}
    BY <1>2, <1>9 DEF Early, Late
  <2>2. next \in Early => tui.thread = "none"
    BY <1>2, <1>5, <1>9 DEF Early, Late
  <2>3. tui.thread = "none" => next \in Early \/ platform = "windows"
    BY <1>2, <1>6, <1>9
  <2>4. Place'
    BY <1>1, <1>9, <2>1, <2>2, <2>3 DEF Place, Looping
  <2>5. Curses' /\ Returned'
    BY <1>9, <1>18 DEF IInv, Curses, Returned
  <2> QED
    BY <1>1, <1>9, <2>4, <2>5 DEF IInv
<1>10. CASE pc' = "stop_temps" /\ platform = "windows" /\ UNCHANGED <<history, tui, how>>
  <2>1. Place'
    BY <1>1, <1>3, <1>4, <1>10 DEF Place, Early, Between, Gone
  <2>2. Curses' /\ Returned'
    BY <1>10, <1>18 DEF IInv, Curses, Returned
  <2> QED
    BY <1>1, <1>10, <2>1, <2>2 DEF IInv
<1>11. history \in BOOLEAN /\ (history \/ p = "history") \in BOOLEAN
  BY DEF IInv
<1>12. /\ "tui" \notin Optional /\ (Fatal[platform] \cap CleansUp # {} => platform = "windows")
       /\ p \in Fatal[platform] \ {"logger"} => platform = "windows"
  BY <1>1 DEF Optional, Fatal, CleansUp, Builds
<1>13. \/ /\ pc' = next /\ how' = how /\ history' = (history \/ p = "history")
          /\ tui' = IF p = "tui" THEN [tui EXCEPT !.run = TRUE, !.thread = "starts"] ELSE tui
       \/ p \in Optional /\ pc' = next /\ UNCHANGED <<history, tui, how>>
       \/ /\ pc' = "ended" \/ (pc' = "statics" /\ p \in Fatal[platform] \ {"logger"})
          /\ how' = "failed" /\ UNCHANGED <<history, tui>>
       \/ /\ p \in Fatal[platform] \cap CleansUp
          /\ pc' = "stop_temps" /\ UNCHANGED <<history, tui, how>>
  BY DEF Starts, next, End, Leave
<1>14. CASE /\ pc' = next /\ how' = how /\ history' = (history \/ p = "history")
            /\ tui' = IF p = "tui" THEN [tui EXCEPT !.run = TRUE, !.thread = "starts"] ELSE tui
  <2>1. CASE p = "tui"
    BY <1>8, <1>14, <2>1
  <2>2. CASE p # "tui"
    BY <1>9, <1>11, <1>14, <2>2
  <2> QED
    BY <2>1, <2>2
<1>15. CASE p \in Optional /\ pc' = next /\ UNCHANGED <<history, tui, how>>
  BY <1>9, <1>11, <1>12, <1>15
<1>16. CASE /\ pc' = "ended" \/ (pc' = "statics" /\ p \in Fatal[platform] \ {"logger"})
            /\ how' = "failed" /\ UNCHANGED <<history, tui>>
  BY <1>7, <1>12, <1>16
<1>17. CASE /\ p \in Fatal[platform] \cap CleansUp
            /\ pc' = "stop_temps" /\ UNCHANGED <<history, tui, how>>
  BY <1>10, <1>12, <1>17
<1> QED
  BY <1>13, <1>14, <1>15, <1>16, <1>17

(* The loop. *)
LEMMA LoopKeeps ==
  ASSUME IInv,
         \/ LoopTest \/ Collect \/ Usb \/ Throw
         \/ \E f \in BOOLEAN : Wireless(f)
         \/ \E due \in BOOLEAN, a \in {"some", "none", "throws"} : Disks(due, a)
         \/ \E k \in Kinds : Detect(k)
  PROVE  IInv'
<1>1. platform \in Builds
  BY DEF IInv
<1>2. \A p \in Body : Go(p) => pc' \in Looping
  BY <1>1, LoopGoes DEF Go
<1>3. Body \subseteq Looping
  BY DEF Body, Looping
<1>4. CASE LoopTest
  <2>1. pc \in Looping /\ pc' \in Looping \cup {"stop_tui"}
    BY <1>4 DEF LoopTest, Looping
  <2> QED
    BY <1>4, <2>1, MovesKeep DEF LoopTest
<1>5. CASE Collect
  <2>1. pc \in Body /\ Go(pc)
    BY <1>5 DEF Collect, Body
  <2> QED
    BY <1>2, <1>3, <1>5, <2>1, MovesKeep DEF Collect
<1>6. CASE Usb
  <2>1. pc = "usb" /\ (Go("usb") \/ pc' = "detect_usb")
    BY <1>6 DEF Usb
  <2>2. pc \in Looping /\ pc' \in Looping
    BY <1>2, <2>1 DEF Body, Looping
  <2>3. UNCHANGED <<platform, history, tui, how>>
    BY <1>6 DEF Usb
  <2> QED
    BY <2>2, <2>3, MovesKeep
<1>7. CASE Throw
  <2>1. pc \in Looping /\ pc' \in Looping /\ UNCHANGED <<platform, history, tui, how>>
    BY <1>7 DEF Throw, Looping
  <2> QED
    BY <2>1, MovesKeep
<1>8. ASSUME NEW f \in BOOLEAN, Wireless(f)
      PROVE  IInv'
  <2>1. pc = "wireless" /\ (Go("wireless") \/ pc' = "detect_bt")
    BY <1>8 DEF Wireless
  <2>2. pc \in Looping /\ pc' \in Looping
    BY <1>2, <2>1 DEF Body, Looping
  <2>3. UNCHANGED <<platform, history, tui, how>>
    BY <1>8 DEF Wireless
  <2> QED
    BY <2>2, <2>3, MovesKeep
<1>9. ASSUME NEW due, NEW a, Disks(due, a)
      PROVE  IInv'
  <2>1. pc \in Looping /\ pc' \in Looping
    BY <1>2, <1>9 DEF Disks, Body, Looping
  <2>2. UNCHANGED <<platform, history, tui, how>>
    BY <1>9 DEF Disks
  <2> QED
    BY <2>1, <2>2, MovesKeep
<1>10. ASSUME NEW k \in Kinds, Detect(k)
       PROVE  IInv'
  <2>1. pc \in {"detect_usb", "detect_bt"} /\ (Go("usb") \/ Go("wireless"))
    BY <1>10 DEF Detect, DetectAt, Kinds
  <2>2. pc \in Looping /\ pc' \in Looping
    BY <1>2, <2>1 DEF Body, Looping
  <2>3. UNCHANGED <<platform, history, tui, how>>
    BY <1>10 DEF Detect
  <2> QED
    BY <2>2, <2>3, MovesKeep
<1> QED
  BY <1>4, <1>5, <1>6, <1>7, <1>8, <1>9, <1>10

(* A step of the drawing thread: only the record tui changes. *)
LEMMA DrawingKeeps ==
  ASSUME IInv, Running, TuiBegins \/ TuiQuits \/ TuiEnds
  PROVE  IInv'
<1>1. /\ UNCHANGED <<platform, pc, history, how>> /\ how # "return"
      /\ tui.thread \in {"starts", "loops"}
  BY DEF TuiBegins, TuiQuits, TuiEnds, IInv, Returned
<1>2. tui \in [run : BOOLEAN, thread : Threads, curses : BOOLEAN, endwins : 0..1] /\ Curses
  BY DEF IInv
<1>3. /\ tui' \in [run : BOOLEAN, thread : Threads, curses : BOOLEAN, endwins : 0..1]
      /\ Curses' /\ tui'.thread # "none"
  <2>1. CASE TuiBegins
    <3>1. tui' = [tui EXCEPT !.thread = "loops", !.curses = TRUE] /\ tui.thread = "starts"
      BY <2>1 DEF TuiBegins
    <3> QED
      BY <1>2, <3>1 DEF Curses, Threads
  <2>2. CASE TuiQuits
    <3>1. tui' = [tui EXCEPT !.run = FALSE] /\ tui.thread = "loops"
      BY <2>2 DEF TuiQuits
    <3> QED
      BY <1>2, <3>1 DEF Curses, Threads
  <2>3. CASE TuiEnds
    <3>1. /\ tui' = SafeEndwin([tui EXCEPT !.thread = "ended"])
          /\ tui.thread = "loops" /\ tui.curses /\ tui.endwins = 0
      BY <1>2, <2>3 DEF TuiEnds, Curses
    <3> DEFINE t == [tui EXCEPT !.thread = "ended"]
    <3>2. /\ t \in [run : BOOLEAN, thread : Threads, curses : BOOLEAN, endwins : 0..1]
          /\ t.thread = "ended" /\ t.curses /\ t.endwins = 0
      BY <1>2, <3>1 DEF Threads
    <3>3. tui' = SafeEndwin(t)
      BY <3>1
    <3> HIDE DEF t
    <3> DEFINE u == [t EXCEPT !.curses = FALSE]
    <3>4. /\ u \in [run : BOOLEAN, thread : Threads, curses : BOOLEAN, endwins : 0..1]
          /\ u.thread = "ended" /\ ~u.curses
      BY <3>2
    <3>5. tui' = [u EXCEPT !.endwins = 1]
      BY <3>2, <3>3 DEF SafeEndwin
    <3> HIDE DEF u
    <3>6. /\ tui' \in [run : BOOLEAN, thread : Threads, curses : BOOLEAN, endwins : 0..1]
          /\ tui'.thread = "ended" /\ ~tui'.curses /\ tui'.endwins = 1
      BY <3>4, <3>5
    <3> QED
      BY <3>6 DEF Curses
  <2> QED
    BY <2>1, <2>2, <2>3
<1>4. PlacesOf(Exit[platform])' = PlacesOf(Exit[platform])
  BY <1>1 DEF PlacesOf
<1>5. Place'
  BY <1>1, <1>3, <1>4 DEF IInv, Place
<1>6. Returned'
  BY <1>1 DEF Returned
<1> QED
  BY <1>1, <1>3, <1>5, <1>6 DEF IInv

(* The way out: Stop() of the terminal interface, the other parts, the end. *)
LEMMA ExitKeeps ==
  ASSUME IInv, Running,
         \/ StopTui \/ JoinTui \/ SafeExit \/ Return \/ LogTerminator \/ Unblock
         \/ \E p \in {"stop_temps", "stop_history", "stop_ipc", "stop_shm", "stop_com"} :
              StopPart(p)
  PROVE  IInv'
<1> DEFINE places == PlacesOf(Exit[platform])
           Then(p) == After(Exit[platform], p, "ended")
<1>1. platform \in Builds /\ platform' = platform /\ pc # "ended"
  BY DEF IInv, Running, StopTui, JoinTui, SafeExit, Return, StopPart, LogTerminator, Unblock
<1>2. /\ {"stop_tui", "stop_temps"} \subseteq places
      /\ "destroy" \in places => platform # "windows"
      /\ "stop_ipc" \in places => platform = "mac"
      /\ places \cap (Early \cup Late \cup Looping \cup Between) = {}
      /\ \A p \in places \ {"exit", "destroy"} :
           /\ After(Exit[platform], p, "ended") \in places
           /\ After(Exit[platform], p, "ended") \in {"stop_ipc", "destroy"} =>
                p \in {"stop_history", "stop_ipc"}
  BY <1>1, ExitGoes
<1>3. places' = places
  BY <1>1 DEF PlacesOf
<1>4. /\ history \in BOOLEAN
      /\ tui \in [run : BOOLEAN, thread : Threads, curses : BOOLEAN, endwins : 0..1]
      /\ Curses /\ Place
  BY DEF IInv
<1>12. how = "return" => pc \in Gone
  BY DEF IInv, Returned
<1>5. pc = "stop_tui" => tui.thread # "none" \/ platform = "windows"
  BY <1>4 DEF Place, Early
<1> HIDE DEF places, Then
<1>6. ASSUME NEW p \in places \ {"exit", "destroy"},
             pc' = Then(p) \/ pc' = "join_tui",
             p \in {"stop_history", "stop_ipc"} => ~history',
             tui'.thread = "none" => platform = "windows"
      PROVE  Place'
  <2>1. CASE pc' = "join_tui"
    BY <1>1, <1>6, <2>1 DEF Place, Early, Between, Gone
  <2>2. CASE pc' = Then(p)
    <3>1. pc' \in places /\ (pc' \in {"stop_ipc", "destroy"} => p \in {"stop_history", "stop_ipc"})
      BY <1>2, <2>2 DEF Then
    <3>2. pc' \notin Early
      BY <1>2, <3>1
    <3> QED
      BY <1>1, <1>2, <1>3, <1>6, <3>1, <3>2 DEF Place, places, Between
  <2> QED
    BY <1>6, <2>1, <2>2
<1>7. CASE StopTui
  <2>1. /\ pc = "stop_tui" /\ UNCHANGED <<history, how>>
        /\ pc' = Then("stop_tui") \/ pc' = "join_tui"
        /\ tui' = tui \/ tui' = [tui EXCEPT !.run = FALSE]
    BY <1>7 DEF StopTui, StopTuiBegins, Then
  <2>2. /\ tui' \in [run : BOOLEAN, thread : Threads, curses : BOOLEAN, endwins : 0..1]
        /\ tui'.thread = tui.thread /\ Curses'
    BY <1>4, <2>1 DEF Curses
  <2>3. Place'
    BY <1>2, <1>5, <1>6, <2>1, <2>2
  <2>4. Returned'
    BY <1>12, <2>1 DEF Returned, Gone
  <2> QED
    BY <1>1, <1>4, <2>1, <2>2, <2>3, <2>4 DEF IInv
<1>8. CASE JoinTui
  <2>1. /\ UNCHANGED <<history, how>> /\ pc' = Then("stop_tui")
        /\ tui' = SafeEndwin([tui EXCEPT !.thread = "joined"])
        /\ tui.thread = "ended" /\ ~tui.curses /\ tui.endwins = 1
    BY <1>4, <1>8 DEF JoinTui, StopTuiJoins, Then, Curses
  <2>2. tui' = [tui EXCEPT !.thread = "joined"]
    BY <1>4, <2>1 DEF SafeEndwin
  <2>3. /\ tui' \in [run : BOOLEAN, thread : Threads, curses : BOOLEAN, endwins : 0..1]
        /\ tui'.thread = "joined" /\ Curses'
    BY <1>4, <2>1, <2>2 DEF Curses, Threads
  <2>4. Place'
    BY <1>2, <1>6, <2>1, <2>3
  <2>5. Returned'
    BY <1>12, <1>8 DEF Returned, Gone, JoinTui
  <2> QED
    BY <1>1, <1>4, <2>1, <2>3, <2>4, <2>5 DEF IInv
<1>9. CASE SafeExit
  <2>1. /\ pc = "exit" /\ pc' = "statics" /\ how' = "exit"
        /\ UNCHANGED <<platform, history, tui>>
    BY <1>9 DEF SafeExit, Leave
  <2> QED
    BY <2>1, MovesKeep DEF Early
<1>10. CASE Return
  <2>1. pc = "destroy" /\ pc' \in {"statics", "ended"} /\ UNCHANGED <<history, tui>>
    BY <1>10 DEF Return, End, Leave
  <2>2. pc \in places
    BY <1>4, <2>1 DEF Place, places, Early, Late, Looping, Between, Gone
  <2>3. tui.thread # "none" /\ ~history
    BY <1>2, <1>4, <2>1, <2>2 DEF Place, Early
  <2>4. Returned'
    BY <1>10, <2>1, <2>3 DEF Returned, Return, End, Leave, Gone
  <2>5. Curses' /\ Place'
    BY <1>1, <1>4, <2>1, <2>3 DEF Curses, Place, Early, Between, Gone
  <2> QED
    BY <1>1, <1>4, <2>1, <2>4, <2>5 DEF IInv
<1>11. ASSUME NEW p \in {"stop_temps", "stop_history", "stop_ipc", "stop_shm", "stop_com"},
              StopPart(p)
       PROVE  IInv'
  <2>1. /\ pc = p /\ UNCHANGED <<tui, how>>
        /\ pc' = Then(p) \/ (p = "stop_ipc" /\ pc' = "blocked_ipc")
        /\ history' = (history /\ p # "stop_history")
    BY <1>11 DEF StopPart, Then
  <2>2. p \in places \ {"exit", "destroy"}
    BY <1>4, <1>11, <2>1 DEF Place, places, Early, Late, Looping, Between, Gone
  <2>3. p \in {"stop_history", "stop_ipc"} => ~history'
    BY <1>4, <2>1 DEF Place
  <2>4. tui.thread = "none" => platform = "windows"
    BY <1>4, <2>1 DEF Place, Early
  <2>5. Place'
    <3>1. CASE pc' = Then(p)
      BY <1>6, <2>1, <2>2, <2>3, <2>4, <3>1
    <3>2. CASE p = "stop_ipc" /\ pc' = "blocked_ipc"
      BY <1>1, <1>2, <2>1, <2>2, <2>3, <2>4, <3>2 DEF Place, Early, Between
    <3> QED
      BY <2>1, <3>1, <3>2
  <2>6. history' \in BOOLEAN /\ Curses' /\ Returned'
    BY <1>4, <1>11, <1>12, <2>1 DEF Curses, Returned, Gone
  <2> QED
    BY <1>1, <1>4, <2>1, <2>5, <2>6 DEF IInv
<1>13. CASE LogTerminator
  <2>1. /\ pc = "statics" /\ pc' \in {"ended", "blocked_log"}
        /\ UNCHANGED <<platform, history, tui, how>>
    BY <1>13 DEF LogTerminator
  <2> QED
    BY <2>1, MovesKeep DEF Early
<1>14. CASE Unblock
  <2>1. UNCHANGED <<platform, history, tui, how>>
    BY <1>14 DEF Unblock
  <2>2. CASE pc = "blocked_ipc"
    <3>1. platform = "mac" /\ ~history
      BY <1>4, <2>2 DEF Place
    <3>2. pc' = "destroy" /\ "destroy" \in PlacesOf(Exit[platform])
      BY <1>14, <2>2, <3>1, ExitMacGoes DEF Unblock, Exit
    <3>3. Place'
      BY <1>1, <1>4, <2>1, <2>2, <3>1, <3>2 DEF Place, Early, PlacesOf
    <3>4. Returned' /\ Curses'
      BY <1>4, <1>12, <2>1, <2>2 DEF Returned, Gone, Curses
    <3> QED
      BY <1>1, <1>4, <2>1, <3>3, <3>4 DEF IInv
  <2>3. CASE pc # "blocked_ipc"
    <3>1. pc' = "ended"
      BY <1>14, <2>3 DEF Unblock
    <3> QED
      BY <2>1, <3>1, MovesKeep
  <2> QED
    BY <2>2, <2>3
<1> QED
  BY <1>7, <1>8, <1>9, <1>10, <1>11, <1>13, <1>14

(* And every step of the program keeps it. *)
LEMMA ProgramStep == IInv /\ [Next]_pvars => IInv'
<1> SUFFICES ASSUME IInv, [Next]_pvars
             PROVE  IInv'
  OBVIOUS
<1>1. CASE Main
  BY <1>1, StartKeeps, LoopKeeps, ExitKeeps DEF Main
<1>6. CASE Unblock
  BY <1>6, ExitKeeps DEF Unblock, Running, Blocked
<1>2. CASE Tui \/ TuiQuits
  <2>1. Running /\ (TuiBegins \/ TuiQuits \/ TuiEnds)
    BY <1>2 DEF Tui, TuiBegins, TuiQuits, TuiEnds
  <2> QED
    BY <2>1, DrawingKeeps
<1>3. CASE Signal
  BY <1>3, MovesKeep DEF Signal, End
<1>4. ASSUME NEW k, NEW heard, Callback(k) \/ Change(k, heard)
      PROVE  IInv'
  BY <1>4, MovesKeep DEF Callback, Change
<1>5. CASE UNCHANGED pvars
  BY <1>5, MovesKeep DEF pvars
<1> QED
  BY <1>1, <1>2, <1>3, <1>4, <1>5, <1>6 DEF Next

(* The terminal is given back once and not under the thread that draws, on all three *)
(* platforms, wherever a part fails, an exception is thrown, Ctrl-C or the key that  *)
(* quits comes; and a main() that returns has joined that thread (TuiApp::Stop,      *)
(* TuiApp::SafeEndwin, the tails of the three mains).                                *)
THEOREM TerminalReturned == Spec => []TerminalGivenBack
<1>1. IInv => TerminalGivenBack
  BY DEF IInv, Curses, Returned, Threads, TerminalGivenBack
<1> QED
  BY <1>1, ProgramStarts, ProgramStep, PTL DEF Spec
=============================================================================
