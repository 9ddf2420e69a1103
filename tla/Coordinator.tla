---------------------------- MODULE Coordinator ----------------------------
(***************************************************************************)
(* ModuleCoordinator (src/core/coordinator): one collector thread per kind *)
(* of data, the notifier threads whose callbacks set dirty flags (ETW and  *)
(* the system-event monitor), and the main thread, which starts them,      *)
(* takes snapshots and stops them.                                         *)
(*                                                                         *)
(* What a collector measures is a version number: world[s] is what the     *)
(* hardware says now, got[s] what the collector has read and not yet       *)
(* stored, shown[s] what is in ModuleData.  A collection reads and then    *)
(* stores; an event may come in between.                                   *)
(***************************************************************************)
EXTENDS Naturals, Sequences, FiniteSets

CONSTANTS
  Loops,        \* the collector threads that run
  Notifiers,    \* "etw" (Windows), "sys"
  MaxChanges,   \* bound: changes of what one collector measures
  SleepSteps,   \* bound: 50 ms steps of one sleep
  MaxFaults,    \* bound: collections that throw
  MaxSnapshots, \* bound: snapshots the main thread takes
  DirectMode    \* PowerMonitor::Start() succeeds

ASSUME LoopsAssumption == Loops \subseteq {"cpu", "memory", "disk", "net", "temp", "power"}
ASSUME NotifiersAssumption == Notifiers \subseteq {"etw", "sys"}
ASSUME BoundsAssumption ==
  /\ {MaxChanges, MaxFaults, MaxSnapshots} \subseteq Nat
  /\ SleepSteps \in Nat \ {0}
  /\ DirectMode \in BOOLEAN

\* The kinds of data some notifier reports changes of.
Sources == Loops \cap {"disk", "net", "power"}

\* Which changes a notifier reports.  On Windows the network is ETW's.
Windows == "etw" \in Notifiers
Reports(n) ==
  IF n = "etw" THEN Sources \cap {"net", "power"}
  ELSE Sources \ (IF Windows THEN {"net"} ELSE {})

\* The flag the callback of notifier n for source s sets.
FlagOf(n, s) ==
  CASE s = "disk" -> "diskDirty"
    [] s = "net" -> "networkDirty"
    [] s = "power" -> IF n = "etw" THEN "powerDirty" ELSE "sysPowerDirty"

\* The flags a loop tests before it sleeps, in the order it tests them.
FlagsOf(c) ==
  CASE c = "disk" -> <<"diskDirty">>
    [] c = "net" -> <<"networkDirty">>
    [] c = "power" -> <<"powerDirty", "sysPowerDirty">>
    [] OTHER -> << >>

Flags == {FlagOf(n, s) : n \in {"etw", "sys"}, s \in {"disk", "net", "power"}}
           \cup {"thermalDirty"}

VARIABLES
  world,     \* world[c]: version of what c measures
  pc,        \* pc[c]: where collector c is
  got,       \* got[c]: version the running collection has read
  began,     \* began[c]: world[c] when c last began to collect
  shown,     \* shown[c]: version in ModuleData
  slept,     \* slept[c]: steps of the current sleep
  stop,      \* the loops whose stop token is set
  dirty,     \* the dirty flags that are set
  events,    \* events[n]: changes the OS has queued for notifier n
  cb,        \* cb[n]: callback that notifier n is running
  listening, \* notifiers that are started
  strays,    \* notifiers given up as not started, whose thread goes on
  thermal,   \* the thermal block is in its queue
  reported,  \* reported[s]: newest version a finished callback reported
  mutex,     \* holder of tempMutex: "temp", "main" or "none"
  chip,      \* version of cpuTemperature, stored apart from the vector
  direct,    \* powerMonitor_.directMode_
  main,      \* where the main thread is
  snap,      \* [temps, chip] of the last snapshot
  snaps,     \* snapshots taken
  faults     \* collections that threw

loopVars == <<pc, got, began, shown, slept, chip>>
calling  == <<listening, strays>>
mainVars == <<main, stop, calling, direct, snap, snaps>>
vars == <<loopVars, mainVars, world, dirty, events, cb, reported, mutex, faults, thermal>>

Idle == [at |-> "idle", src |-> "none", val |-> 0]

Init ==
  /\ world = [c \in Loops |-> 1]
  /\ pc = [c \in Loops |-> "none"]
  /\ got = [c \in Loops |-> 0]
  /\ began = [c \in Loops |-> 0]
  /\ shown = [c \in Loops |-> 0]
  /\ slept = [c \in Loops |-> 0]
  /\ stop = {} /\ dirty = {} /\ listening = {} /\ strays = {} /\ thermal = FALSE
  /\ events = [n \in Notifiers |-> << >>]
  /\ cb = [n \in Notifiers |-> Idle]
  /\ reported = [s \in Sources |-> 0]
  /\ mutex = "none" /\ chip = 0 /\ direct = FALSE
  /\ main = "new" /\ snap = [temps |-> 0, chip |-> 0] /\ snaps = 0
  /\ faults = 0

-----------------------------------------------------------------------------
(* The hardware and the notifiers.                                         *)

\* Something changes; every notifier with a thread that reports it gets an event.
Change(c) ==
  /\ world[c] <= MaxChanges
  /\ world' = [world EXCEPT ![c] = @ + 1]
  /\ events' = [n \in Notifiers |->
                  IF n \in listening \cup strays /\ c \in Reports(n)
                  THEN Append(events[n], [src |-> c, val |-> world[c] + 1])
                  ELSE events[n]]
  /\ UNCHANGED <<loopVars, mainVars, dirty, cb, reported, mutex, faults, thermal>>

\* The notifier's thread takes the next event.  On macOS it asks the power
\* source again before it calls back; on Windows the event carries the value,
\* except that a battery event of ETW carries none.
TakeEvent(n) ==
  /\ n \in listening \cup strays /\ cb[n].at = "idle" /\ events[n] # << >>
  /\ events' = [events EXCEPT ![n] = Tail(@)]
  /\ LET e == Head(events[n]) IN
     \E at \in IF e.src # "power" THEN {"flag"}
               ELSE IF n = "etw" THEN {"store", "flag"} ELSE {"store"} :
       cb' = [cb EXCEPT ![n] =
                [at |-> at, src |-> e.src,
                 val |-> IF Windows THEN e.val ELSE world[e.src]]]
  /\ UNCHANGED <<loopVars, mainVars, world, dirty, reported, mutex, faults, thermal>>

\* data_.acOnline.store(..), data_.batteryPercent.store(..)
CallbackStore(n) ==
  /\ cb[n].at = "store"
  /\ shown' = [shown EXCEPT !["power"] = cb[n].val]
  /\ cb' = [cb EXCEPT ![n].at = "flag"]
  /\ UNCHANGED <<pc, got, began, slept, chip, mainVars, world, dirty, events,
                 reported, mutex, faults, thermal>>

\* Mutant: the callback of a power event stores its values and sets no flag.
CallbackFlagDropped(n) ==
  /\ cb[n].at = "flag"
  /\ dirty' = IF cb[n].src = "power" THEN dirty ELSE dirty \cup {FlagOf(n, cb[n].src)}
  /\ reported' = [reported EXCEPT ![cb[n].src] = IF @ < cb[n].val THEN cb[n].val ELSE @]
  /\ cb' = [cb EXCEPT ![n] = Idle]
  /\ UNCHANGED <<loopVars, mainVars, world, events, mutex, faults, thermal>>

\* The flag is the callback's last store.
CallbackFlag(n) ==
  /\ cb[n].at = "flag"
  /\ dirty' = dirty \cup {FlagOf(n, cb[n].src)}
  /\ reported' = [reported EXCEPT ![cb[n].src] = IF @ < cb[n].val THEN cb[n].val ELSE @]
  /\ cb' = [cb EXCEPT ![n] = Idle]
  /\ UNCHANGED <<loopVars, mainVars, world, events, mutex, faults, thermal>>

\* The thermal notification is not handled on the monitor's thread: a block
\* goes to a queue of its own.  (BOUND: once, at the end of Stop() or later;
\* an earlier one only sets a flag that no thread tests or clears.)
PostThermal ==
  /\ "sys" \in listening \cup strays /\ ~Windows
  /\ main \in {"stopNotifiers", "stopped"} /\ "thermalDirty" \notin dirty
  /\ thermal' = TRUE
  /\ UNCHANGED <<loopVars, mainVars, world, dirty, events, cb, reported, mutex, faults>>

\* The block runs whenever the queue does, after Stop() too.
RunThermal ==
  /\ thermal
  /\ thermal' = FALSE
  /\ dirty' = dirty \cup {"thermalDirty"}
  /\ UNCHANGED <<loopVars, mainVars, world, events, cb, reported, mutex, faults>>

-----------------------------------------------------------------------------
(* The collectors.                                                         *)

\* The flags of loop c that are set.
RaisedFor(c) == {FlagsOf(c)[i] : i \in DOMAIN FlagsOf(c)} \cap dirty

Goto(c, p) == pc' = [pc EXCEPT ![c] = p]

\* while (!st.stop_requested()): a new cycle begins, or the loop ends.
LoopTop(c) ==
  /\ pc[c] = "top"
  /\ IF c \in stop
     THEN Goto(c, "exit") /\ UNCHANGED began
     ELSE Goto(c, "collect") /\ began' = [began EXCEPT ![c] = world[c]]
  /\ UNCHANGED <<got, shown, slept, chip, mainVars, world, dirty, events, cb,
                 reported, mutex, faults, thermal>>

\* The device is read; nothing is stored yet.
Collect(c) ==
  /\ pc[c] = "collect"
  /\ got' = [got EXCEPT ![c] = world[c]]
  /\ Goto(c, IF c = "temp" THEN "lock" ELSE "store")
  /\ UNCHANGED <<began, shown, slept, chip, mainVars, world, dirty, events, cb,
                 reported, mutex, faults, thermal>>

\* The collection throws: the loop logs it, stores nothing and goes on.
CollectThrows(c) ==
  /\ pc[c] = "collect" /\ faults < MaxFaults
  /\ faults' = faults + 1
  /\ Goto(c, "check")
  /\ UNCHANGED <<got, began, shown, slept, chip, mainVars, world, dirty, events,
                 cb, reported, mutex, thermal>>

\* What was read is stored (atomics, or a vector under its own mutex).
Store(c) ==
  /\ pc[c] = "store"
  /\ shown' = [shown EXCEPT ![c] = got[c]]
  /\ Goto(c, "check")
  /\ UNCHANGED <<got, began, slept, chip, mainVars, world, dirty, events, cb,
                 reported, mutex, faults, thermal>>

\* Mutant: the flags are cleared when the sleep is about to begin.
CheckClearsAll(c) ==
  /\ pc[c] = "check"
  /\ Goto(c, "sleep")
  /\ dirty' = dirty \ RaisedFor(c)
  /\ slept' = [slept EXCEPT ![c] = 0]
  /\ UNCHANGED <<got, began, shown, chip, mainVars, world, events, cb, reported,
                 mutex, faults, thermal>>

\* The sleep is skipped when a flag is set.  exchange(false) clears the flag
\* it finds set; the || and && of PowerLoop leave a second flag as it is.
Check(c) ==
  /\ pc[c] = "check"
  /\ \/ RaisedFor(c) = {} /\ Goto(c, "sleep") /\ UNCHANGED dirty
     \/ \E i \in DOMAIN FlagsOf(c) :
          /\ FlagsOf(c)[i] \in dirty
          /\ \A j \in 1 .. i - 1 : FlagsOf(c)[j] \notin dirty
          /\ Goto(c, "top") /\ dirty' = dirty \ {FlagsOf(c)[i]}
  /\ slept' = [slept EXCEPT ![c] = 0]
  /\ UNCHANGED <<got, began, shown, chip, mainVars, world, events, cb, reported,
                 mutex, faults, thermal>>

\* Mutant: the sleep does not look at the stop token and waits for an event.
SleepForDeaf(c) ==
  /\ pc[c] = "sleep" /\ FlagsOf(c) # << >>
  /\ dirty # {}
  /\ Goto(c, "top")
  /\ UNCHANGED <<slept, got, began, shown, chip, mainVars, world, dirty, events,
                 cb, reported, mutex, faults, thermal>>

\* SleepFor: 50 ms at a time; the stop token is looked at between steps.
SleepFor(c) ==
  /\ pc[c] = "sleep"
  /\ IF c \in stop \/ slept[c] = SleepSteps
     THEN Goto(c, "top") /\ UNCHANGED slept
     ELSE slept' = [slept EXCEPT ![c] = @ + 1] /\ UNCHANGED pc
  /\ UNCHANGED <<got, began, shown, chip, mainVars, world, dirty, events, cb,
                 reported, mutex, faults, thermal>>

-----------------------------------------------------------------------------
(* TemperatureLoop stores a vector and the two scalars derived from it     *)
(* under tempMutex, and then copies the power monitor's frequencies.       *)

\* Mutant: the vector is assigned without the lock.
TempLockForgotten ==
  /\ "temp" \in Loops /\ pc["temp"] = "lock"
  /\ Goto("temp", "vector")
  /\ UNCHANGED <<got, began, shown, slept, chip, mainVars, world, dirty, events,
                 cb, reported, mutex, faults, thermal>>

TempLock ==
  /\ "temp" \in Loops /\ pc["temp"] = "lock" /\ mutex = "none"
  /\ mutex' = "temp"
  /\ Goto("temp", "vector")
  /\ UNCHANGED <<got, began, shown, slept, chip, mainVars, world, dirty, events,
                 cb, reported, faults, thermal>>

TempVector ==
  /\ "temp" \in Loops /\ pc["temp"] = "vector"
  /\ shown' = [shown EXCEPT !["temp"] = got["temp"]]
  /\ Goto("temp", "scalars")
  /\ UNCHANGED <<got, began, slept, chip, mainVars, world, dirty, events, cb,
                 reported, mutex, faults, thermal>>

TempScalars ==
  /\ "temp" \in Loops /\ pc["temp"] = "scalars"
  /\ chip' = got["temp"]
  /\ Goto("temp", "freq")
  /\ UNCHANGED <<got, began, shown, slept, mainVars, world, dirty, events, cb,
                 reported, mutex, faults, thermal>>

\* The power monitor's frequencies are copied (their values are not
\* modelled), still under the lock_guard, which ends with the try block.
TempFrequencies ==
  /\ "temp" \in Loops /\ pc["temp"] = "freq"
  /\ mutex' = IF mutex = "temp" THEN "none" ELSE mutex
  /\ Goto("temp", "check")
  /\ UNCHANGED <<got, began, shown, slept, chip, mainVars, world, dirty, events,
                 cb, reported, faults, thermal>>

Loop(c) ==
  \/ LoopTop(c) \/ Collect(c) \/ CollectThrows(c)
  \/ Store(c) \/ Check(c) \/ SleepFor(c)

TemperatureStep == TempLock \/ TempVector \/ TempScalars \/ TempFrequencies

-----------------------------------------------------------------------------
(* The main thread: Start, Snapshot, Stop.                                 *)

\* The threads are spawned before the callbacks are set and the notifiers
\* started.  (The order among the six matters to nothing here.)  CpuLoop's
\* new CpuInfo may throw, and its thread then returns at once.
SpawnLoops ==
  /\ main = "new"
  /\ \E dead \in SUBSET (Loops \cap {"cpu"}) :
       pc' = [c \in Loops |-> IF c \in dead THEN "exit" ELSE "top"]
  /\ main' = "notifiers"
  /\ UNCHANGED <<got, began, shown, slept, chip, stop, calling, direct, snap,
                 snaps, world, dirty, events, cb, reported, mutex, faults, thermal>>

\* etwMonitor_.Start() and sysEventMonitor_.Start(): each may fail, and the
\* coordinator then relies on polling alone.  On macOS a monitor whose thread
\* is not ready in 500 ms counts as failed, is detached and calls back anyway.
StartNotifiers ==
  /\ main = "notifiers"
  /\ listening' \in SUBSET Notifiers
  /\ strays' \in SUBSET (IF Windows THEN {} ELSE Notifiers \ listening')
  /\ main' = "power"
  /\ UNCHANGED <<loopVars, stop, direct, snap, snaps, world, dirty, events, cb,
                 reported, mutex, faults, thermal>>

StartPowerMonitor ==
  /\ main = "power"
  /\ direct' = DirectMode
  /\ main' = IF DirectMode THEN "seed" ELSE "running"
  /\ UNCHANGED <<loopVars, stop, calling, snap, snaps, world, dirty, events,
                 cb, reported, mutex, faults, thermal>>

SeedFrequencies ==
  /\ main = "seed"
  /\ main' = "running"
  /\ UNCHANGED <<loopVars, stop, calling, direct, snap, snaps, world, dirty,
                 events, cb, reported, mutex, faults, thermal>>

\* Snapshot: the temperatures are copied under tempMutex.
SnapshotLock ==
  /\ main = "running" /\ snaps < MaxSnapshots /\ mutex = "none"
  /\ mutex' = "main" /\ main' = "snapVector"
  /\ UNCHANGED <<loopVars, stop, calling, direct, snap, snaps, world, dirty,
                 events, cb, reported, faults, thermal>>

SnapshotVector ==
  /\ main = "snapVector"
  /\ snap' = [snap EXCEPT !.temps = IF "temp" \in Loops THEN shown["temp"] ELSE 0]
  /\ main' = "snapScalars"
  /\ UNCHANGED <<loopVars, stop, calling, direct, snaps, world, dirty, events,
                 cb, reported, mutex, faults, thermal>>

SnapshotScalars ==
  /\ main = "snapScalars"
  /\ snap' = [snap EXCEPT !.chip = chip]
  /\ snaps' = snaps + 1
  /\ mutex' = "none" /\ main' = "running"
  /\ UNCHANGED <<loopVars, stop, calling, direct, world, dirty, events, cb,
                 reported, faults, thermal>>

Snapshot == SnapshotLock \/ SnapshotVector \/ SnapshotScalars

\* Stop: every loop is asked, then every loop is joined, ...
RequestStop ==
  /\ main = "running"
  /\ stop' = Loops
  /\ main' = "joining"
  /\ UNCHANGED <<loopVars, calling, direct, snap, snaps, world, dirty, events,
                 cb, reported, mutex, faults, thermal>>

\* Mutant: the threads are asked to stop and not waited for.
JoinLoopsSkipped ==
  /\ main = "joining"
  /\ main' = "stopPower"
  /\ UNCHANGED <<loopVars, stop, calling, direct, snap, snaps, world, dirty,
                 events, cb, reported, mutex, faults, thermal>>

JoinLoops ==
  /\ main = "joining"
  /\ \A c \in Loops : pc[c] = "exit"
  /\ main' = "stopPower"
  /\ UNCHANGED <<loopVars, stop, calling, direct, snap, snaps, world, dirty,
                 events, cb, reported, mutex, faults, thermal>>

\* ... then the power monitor is stopped, whose values TemperatureLoop reads,
StopPowerMonitor ==
  /\ main = "stopPower"
  /\ direct' = FALSE
  /\ main' = "stopNotifiers"
  /\ UNCHANGED <<loopVars, stop, calling, snap, snaps, world, dirty, events,
                 cb, reported, mutex, faults, thermal>>

\* ... and the notifiers, whose Stop() joins the thread that calls back - if
\* the monitor has kept it: strays go on.
StopNotifiers ==
  /\ main = "stopNotifiers"
  /\ \A n \in listening : cb[n].at = "idle"
  /\ listening' = {} /\ UNCHANGED strays
  /\ main' = "stopped"
  /\ UNCHANGED <<loopVars, stop, direct, snap, snaps, world, dirty, events, cb,
                 reported, mutex, faults, thermal>>

Start == SpawnLoops \/ StartNotifiers \/ StartPowerMonitor \/ SeedFrequencies
Stop == RequestStop \/ JoinLoops \/ StopPowerMonitor \/ StopNotifiers

Notifier(n) == TakeEvent(n) \/ CallbackStore(n) \/ CallbackFlag(n)

Next ==
  \/ \E c \in Loops : Change(c) \/ Loop(c)
  \/ TemperatureStep
  \/ \E n \in Notifiers : Notifier(n)
  \/ PostThermal \/ RunThermal
  \/ Start \/ Snapshot \/ Stop

\* The scheduler runs every thread, and device reads return.  Nobody has to
\* quit: RequestStop is not fair.  Nothing is asked of strays.
Fairness ==
  /\ \A c \in Loops : WF_vars(Loop(c))
  /\ SF_vars(TempLock) /\ WF_vars(TempVector \/ TempScalars \/ TempFrequencies)
  /\ \A n \in Notifiers : WF_vars(n \in listening /\ Notifier(n))
  /\ WF_vars(Start)
  /\ WF_vars(SnapshotVector \/ SnapshotScalars)
  /\ WF_vars(JoinLoops \/ StopPowerMonitor \/ StopNotifiers)

Spec == Init /\ [][Next]_vars /\ Fairness

-----------------------------------------------------------------------------
(* Properties.                                                             *)

(* A collector goes to sleep only when its last collection began no        *)
(* earlier than every event whose callback has finished, or the flag of a  *)
(* later one is still up: no event is lost between the test of the flags   *)
(* and the collection (DiskLoop, NetworkLoop, PowerLoop).                  *)
NoEventSleptThrough ==
  \A s \in Sources :
    pc[s] = "sleep" /\ RaisedFor(s) = {} => began[s] >= reported[s]

(* When no collection throws, what is shown while a collector sleeps and   *)
(* no callback is under way is no older than any event reported, although  *)
(* a callback's store may be overwritten by a collection that read the     *)
(* device before it, and the other way round.                              *)
ShownIsCurrent ==
  \A s \in Sources :
    (/\ faults = 0 /\ pc[s] = "sleep" /\ RaisedFor(s) = {}
     /\ \A n \in Notifiers : cb[n].src # s)
       => shown[s] >= reported[s]

(* A snapshot's cpuTemperature comes from the same sample as its           *)
(* temperature list.                                                       *)
SnapshotOfOneSample == snap.temps = snap.chip \/ main \in {"snapVector", "snapScalars"}

(* Once Stop() has taken the power monitor down no collector runs; and      *)
(* when it has returned no callback changes ModuleData, which the           *)
(* coordinator's destructor is about to free - but for the thermal flag,    *)
(* whose block may still be queued, and for a monitor that was given up,     *)
(* whose detached thread nobody joins.                                     *)
QuietAfterStop ==
  [][/\ main \in {"stopNotifiers", "stopped"} => UNCHANGED <<pc, chip>>
     /\ main = "stopped" /\ strays = {} =>
          UNCHANGED shown /\ dirty' \ {"thermalDirty"} = dirty \ {"thermalDirty"}]_vars

(* Every change of the hardware is shown in the end, unless the            *)
(* coordinator is stopped: with or without notifiers, polling catches up.  *)
(* And Stop() returns, wherever the loops it joins sleep.                  *)
ChangeIsShown ==
  /\ \A s \in Sources : \A v \in 2 .. MaxChanges + 1 :
       world[s] = v ~> (shown[s] >= v \/ main # "running")
  /\ main = "joining" ~> main = "stopped"
=============================================================================
