-------------------------- MODULE CoordinatorProofs --------------------------
(***************************************************************************)
(* Proofs about Coordinator, for every set of collectors and notifiers and *)
(* every bound.                                                            *)
(***************************************************************************)
EXTENDS Coordinator, TLAPS

USE LoopsAssumption, NotifiersAssumption DEF calling

(* The flags of the loops, each set at a time. *)
FlagSet(c) ==
  CASE c = "disk" -> {"diskDirty"}
    [] c = "net" -> {"networkDirty"}
    [] c = "power" -> {"powerDirty", "sysPowerDirty"}
    [] OTHER -> {}

(* The flags of a loop's sequence are those of its set. *)
LEMMA FlagsAreSets ==
  ASSUME NEW c \in Loops
  PROVE  /\ {FlagsOf(c)[i] : i \in DOMAIN FlagsOf(c)} = FlagSet(c)
         /\ \A i \in DOMAIN FlagsOf(c) : FlagsOf(c)[i] \in FlagSet(c)
<1>1. CASE c = "disk"
  BY <1>1 DEF FlagsOf, FlagSet
<1>2. CASE c = "net"
  BY <1>2 DEF FlagsOf, FlagSet
<1>3. CASE c = "power"
  <2>1. DOMAIN <<"powerDirty", "sysPowerDirty">> = {1, 2}
    OBVIOUS
  <2> QED
    BY <1>3, <2>1 DEF FlagsOf, FlagSet
<1>4. CASE c \notin {"disk", "net", "power"}
  <2>1. DOMAIN << >> = {}
    OBVIOUS
  <2> QED
    BY <1>4, <2>1 DEF FlagsOf, FlagSet
<1> QED
  BY <1>1, <1>2, <1>3, <1>4

(* The callback for a source sets a flag its loop tests, and no two loops  *)
(* share a flag.                                                           *)
LEMMA FlagsOfCallbacks ==
  ASSUME NEW n \in Notifiers, NEW s \in Sources
  PROVE  FlagOf(n, s) \in FlagSet(s)
  BY DEF Sources, FlagOf, FlagSet

(* Two loops have no flag in common. *)
LEMMA FlagsDisjoint ==
  ASSUME NEW c \in Loops, NEW d \in Loops, c # d
  PROVE  FlagSet(c) \cap FlagSet(d) = {}
  BY DEF FlagSet

(* What is raised for a loop are those of its flags that are dirty, in a   *)
(* step's first and second state.                                          *)
LEMMA RaisedAsSet ==
  ASSUME NEW c \in Loops
  PROVE  /\ RaisedFor(c) = FlagSet(c) \cap dirty
         /\ RaisedFor(c)' = FlagSet(c) \cap dirty'
  BY FlagsAreSets DEF RaisedFor

-----------------------------------------------------------------------------
(* The ranges of the variables, and who may be where.                      *)

Event == [src : Sources, val : Nat]

Callback == [at : {"idle", "store", "flag"}, src : Sources \cup {"none"}, val : Nat]

LoopPlaces == {"none", "top", "collect", "store", "lock", "vector", "scalars",
               "freq", "check", "sleep", "exit"}

MainPlaces == {"new", "notifiers", "power", "seed", "running", "snapVector",
               "snapScalars", "joining", "stopPower", "stopNotifiers", "stopped"}

Typed ==
  /\ world \in [Loops -> Nat]
  /\ pc \in [Loops -> LoopPlaces]
  /\ got \in [Loops -> Nat] /\ began \in [Loops -> Nat] /\ shown \in [Loops -> Nat]
  /\ events \in [Notifiers -> Seq(Event)]
  /\ cb \in [Notifiers -> Callback]
  /\ reported \in [Sources -> Nat]
  /\ mutex \in {"none", "temp", "main"}
  /\ chip \in Nat /\ faults \in Nat
  /\ main \in MainPlaces
  /\ snap \in [temps : Nat, chip : Nat]

(* The initial state has its ranges. *)
LEMMA InitTyped == Init => Typed
<1> SUFFICES ASSUME Init PROVE Typed
  OBVIOUS
<1>1. << >> \in Seq(Event)
  OBVIOUS
<1>2. Idle \in Callback
  BY DEF Idle, Callback
<1> QED
  BY <1>1, <1>2 DEF Init, Typed, LoopPlaces, MainPlaces

(* A step keeps the ranges. *)
LEMMA StepTyped == Typed /\ [Next]_vars => Typed'
<1> SUFFICES ASSUME Typed, [Next]_vars PROVE Typed'
  OBVIOUS
<1> USE DEF Typed, Goto, LoopPlaces, MainPlaces, loopVars, mainVars
<1>1. ASSUME NEW c \in Loops, Change(c) PROVE Typed'
  <2>1. ASSUME NEW n \in Notifiers, c \in Reports(n)
        PROVE  [src |-> c, val |-> world[c] + 1] \in Event
    BY <2>1 DEF Reports, Event
  <2>2. events' \in [Notifiers -> Seq(Event)]
    BY <1>1, <2>1 DEF Change
  <2> QED
    BY <1>1, <2>2 DEF Change
<1>2. ASSUME NEW n \in Notifiers, TakeEvent(n) PROVE Typed'
  <2> DEFINE e == Head(events[n])
  <2>1. e \in Event /\ Tail(events[n]) \in Seq(Event)
    BY <1>2 DEF TakeEvent
  <2>2. world[e.src] \in Nat /\ e.src \in Sources /\ e.val \in Nat
    BY <2>1 DEF Event, Sources
  <2>3. PICK at \in {"store", "flag"} :
          cb' = [cb EXCEPT ![n] =
                   [at |-> at, src |-> e.src,
                    val |-> IF Windows THEN e.val ELSE world[e.src]]]
    BY <1>2 DEF TakeEvent
  <2>4. cb' \in [Notifiers -> Callback]
    BY <2>2, <2>3 DEF Callback
  <2>5. events' \in [Notifiers -> Seq(Event)]
    BY <1>2, <2>1 DEF TakeEvent
  <2> QED
    BY <1>2, <2>4, <2>5 DEF TakeEvent
<1>3. ASSUME NEW n \in Notifiers, CallbackStore(n) PROVE Typed'
  <2>1. cb[n] \in Callback
    OBVIOUS
  <2>2. cb' \in [Notifiers -> Callback] /\ shown' \in [Loops -> Nat]
    BY <1>3, <2>1 DEF CallbackStore, Callback
  <2> QED
    BY <1>3, <2>2 DEF CallbackStore
<1>4. ASSUME NEW n \in Notifiers, CallbackFlag(n) PROVE Typed'
  <2>1. cb[n] \in Callback /\ Idle \in Callback
    BY DEF Idle, Callback
  <2>2. reported' \in [Sources -> Nat] /\ cb' \in [Notifiers -> Callback]
    BY <1>4, <2>1 DEF CallbackFlag, Callback
  <2> QED
    BY <1>4, <2>2 DEF CallbackFlag
<1>5. ASSUME NEW c \in Loops, Loop(c) PROVE Typed'
  <2>1. CASE LoopTop(c)
    <3>1. \/ Goto(c, "exit") /\ UNCHANGED began
          \/ Goto(c, "collect") /\ began' = [began EXCEPT ![c] = world[c]]
      BY <2>1 DEF LoopTop
    <3>2. pc' \in [Loops -> LoopPlaces] /\ began' \in [Loops -> Nat]
      BY <3>1
    <3> QED
      BY <2>1, <3>2 DEF LoopTop
  <2>5. CASE Collect(c)
    BY <2>5 DEF Collect
  <2>6. CASE CollectThrows(c)
    BY <2>6 DEF CollectThrows
  <2>2. CASE Store(c)
    BY <2>2 DEF Store
  <2>3. CASE Check(c)
    BY <2>3 DEF Check
  <2>4. CASE SleepFor(c)
    BY <2>4 DEF SleepFor
  <2> QED
    BY <1>5, <2>1, <2>2, <2>3, <2>4, <2>5, <2>6 DEF Loop
<1>6. CASE TemperatureStep
  <2>1. CASE TempLock \/ TempFrequencies
    BY <2>1 DEF TempLock, TempFrequencies
  <2>2. CASE TempVector
    BY <2>2 DEF TempVector
  <2>3. CASE TempScalars
    BY <2>3 DEF TempScalars
  <2> QED
    BY <1>6, <2>1, <2>2, <2>3 DEF TemperatureStep
<1>7. CASE Start
  BY <1>7 DEF Start, SpawnLoops, StartNotifiers, StartPowerMonitor, SeedFrequencies
<1>8. CASE Snapshot
  BY <1>8 DEF Snapshot, SnapshotLock, SnapshotVector, SnapshotScalars
<1>9. CASE Stop
  BY <1>9 DEF Stop, RequestStop, JoinLoops, StopPowerMonitor, StopNotifiers
<1>10. CASE PostThermal \/ RunThermal \/ UNCHANGED vars
  BY <1>10 DEF PostThermal, RunThermal, vars
<1> QED
  BY <1>1, <1>2, <1>3, <1>4, <1>5, <1>6, <1>7, <1>8, <1>9, <1>10 DEF Next, Notifier

(* What the thermal notification leaves alone: it sets a flag that no loop *)
(* tests.                                                                  *)
LEMMA FrameOfThermal ==
  ASSUME PostThermal \/ RunThermal
  PROVE  /\ UNCHANGED <<loopVars, mainVars, world, events, cb, reported, mutex, faults>>
         /\ dirty' \ {"thermalDirty"} = dirty \ {"thermalDirty"}
         /\ \A c \in Loops : RaisedFor(c)' = RaisedFor(c)
<1>1. /\ UNCHANGED <<loopVars, mainVars, world, events, cb, reported, mutex, faults>>
      /\ dirty' = dirty \/ dirty' = dirty \cup {"thermalDirty"}
  BY DEF PostThermal, RunThermal
<1>2. \A c \in Loops : "thermalDirty" \notin FlagSet(c)
  BY DEF FlagSet
<1>3. ASSUME NEW c \in Loops PROVE RaisedFor(c)' = RaisedFor(c)
  BY <1>1, <1>2, RaisedAsSet
<1> QED
  BY <1>1, <1>3

(* What the main thread and the temperature loop's own steps leave alone.  *)
LEMMA FrameOfMain ==
  ASSUME Start \/ Snapshot \/ Stop
  PROVE  /\ UNCHANGED <<world, events, cb, reported, dirty, faults, got, began, shown, chip>>
         /\ \/ pc' = pc
            \/ main = "new" /\ \A c \in Loops : pc'[c] \in {"top", "exit"}
<1>1. CASE SpawnLoops
  BY <1>1 DEF SpawnLoops
<1>2. CASE StartNotifiers \/ StartPowerMonitor \/ SeedFrequencies
  BY <1>2 DEF StartNotifiers, StartPowerMonitor, SeedFrequencies, loopVars
<1>3. CASE Snapshot
  BY <1>3 DEF Snapshot, SnapshotLock, SnapshotVector, SnapshotScalars, loopVars
<1>4. CASE Stop
  BY <1>4 DEF Stop, RequestStop, JoinLoops, StopPowerMonitor, StopNotifiers, loopVars
<1> QED
  BY <1>1, <1>2, <1>3, <1>4 DEF Start

(* A step of the temperature loop changes the loop's place and what it     *)
(* stores, no other loop's and none of the main thread's.                  *)
LEMMA FrameOfTemperature ==
  ASSUME TemperatureStep
  PROVE  /\ UNCHANGED <<world, events, cb, reported, dirty, faults, got, began, mainVars>>
         /\ \E p \in LoopPlaces : pc' = [pc EXCEPT !["temp"] = p]
         /\ pc["temp"] \in {"lock", "vector", "scalars", "freq"} /\ "temp" \in Loops
  BY DEF TemperatureStep, TempLock, TempVector, TempScalars, TempFrequencies, Goto, LoopPlaces

-----------------------------------------------------------------------------
(* Nothing that is reported, being reported or read is newer than the      *)
(* world, which only moves forward.                                        *)
EventsPast ==
  \A n \in Notifiers : \A i \in 1 .. Len(events[n]) :
    events[n][i].val <= world[events[n][i].src]

CallbacksPast ==
  \A n \in Notifiers : cb[n].at # "idle" =>
    cb[n].src \in Sources /\ cb[n].val <= world[cb[n].src]

ReportedPast == \A s \in Sources : reported[s] <= world[s]

BeganPast == \A c \in Loops : began[c] <= world[c]

(* Only power's callbacks store values; an idle one is about nothing.      *)
CallbackShape ==
  \A n \in Notifiers : /\ cb[n].at = "store" => cb[n].src = "power"
                       /\ cb[n].at = "idle" => cb[n].src = "none"

PastOnly == EventsPast /\ CallbacksPast /\ ReportedPast /\ BeganPast /\ CallbackShape

(* A step reports, reads or queues nothing that is newer than the world. *)
LEMMA StepPast == Typed /\ PastOnly /\ [Next]_vars => PastOnly'
<1> SUFFICES ASSUME Typed, PastOnly, [Next]_vars PROVE PastOnly'
  OBVIOUS
<1>a. /\ world \in [Loops -> Nat] /\ began \in [Loops -> Nat]
      /\ reported \in [Sources -> Nat] /\ cb \in [Notifiers -> Callback]
      /\ events \in [Notifiers -> Seq(Event)] /\ Sources \subseteq Loops
  BY DEF Typed, Sources
<1>b. ASSUME NEW n \in Notifiers, NEW i \in 1 .. Len(events[n])
      PROVE  /\ events[n][i] \in Event
             /\ events[n][i].src \in Loops /\ events[n][i].val \in Nat
  <2>1. events[n] \in Seq(Event)
    BY <1>a
  <2>2. events[n][i] \in Event
    BY <2>1
  <2> QED
    BY <2>2, <1>a DEF Event
<1>c. EventsPast /\ CallbacksPast /\ ReportedPast /\ BeganPast /\ CallbackShape
  BY DEF PastOnly
<1>1. ASSUME NEW c \in Loops, Change(c) PROVE PastOnly'
  <2>1. world' \in [Loops -> Nat] /\ \A d \in Loops : world[d] <= world'[d]
    BY <1>1, <1>a DEF Change
  <2>2. world'[c] = world[c] + 1
    BY <1>1, <1>a DEF Change
  <2>3. ASSUME NEW n \in Notifiers, NEW i \in 1 .. Len(events'[n])
        PROVE  events'[n][i].val <= world'[events'[n][i].src]
    <3> DEFINE e == [src |-> c, val |-> world[c] + 1]
    <3>0. ASSUME NEW j \in 1 .. Len(events[n])
          PROVE  events[n][j].val <= world'[events[n][j].src]
      <4>1. events[n][j].val <= world[events[n][j].src]
        BY <1>c DEF EventsPast
      <4>2. world[events[n][j].src] <= world'[events[n][j].src]
        BY <2>1, <1>b
      <4>3. /\ world[events[n][j].src] \in Nat /\ world'[events[n][j].src] \in Nat
            /\ events[n][j].val \in Nat
        BY <1>a, <1>b, <2>1
      <4> QED
        BY <4>1, <4>2, <4>3
    <3>1. CASE events'[n] = events[n]
      BY <3>0, <3>1
    <3>2. CASE c \in Reports(n) /\ events'[n] = Append(events[n], e)
      <4>1. e \in Event /\ e.src = c /\ e.val = world[c] + 1
        BY <3>2, <1>a DEF Reports, Event
      <4>2. CASE i = Len(events[n]) + 1
        <5>1. events'[n][i] = e
          BY <4>2, <4>1, <3>2, <1>a
        <5>2. e.val <= world'[e.src]
          BY <4>1, <2>2, <1>a
        <5> QED
          BY <5>1, <5>2
      <4>3. CASE i # Len(events[n]) + 1
        <5>1. events'[n][i] = events[n][i] /\ i \in 1 .. Len(events[n])
          BY <4>1, <4>3, <3>2, <1>a
        <5> QED
          BY <5>1, <3>0
      <4> QED
        BY <4>2, <4>3
    <3> QED
      BY <1>1, <3>1, <3>2, <1>a DEF Change
  <2>4. ASSUME NEW n \in Notifiers, cb[n].at # "idle"
        PROVE  cb[n].src \in Sources /\ cb[n].val <= world'[cb[n].src]
    <3>1. cb[n].src \in Sources /\ cb[n].val <= world[cb[n].src] /\ cb[n].val \in Nat
      BY <2>4, <1>c, <1>a DEF CallbacksPast, Callback
    <3>2. world[cb[n].src] <= world'[cb[n].src]
      BY <3>1, <2>1, <1>a
    <3>3. world[cb[n].src] \in Nat /\ world'[cb[n].src] \in Nat
      BY <3>1, <2>1, <1>a
    <3> QED
      BY <3>1, <3>2, <3>3
  <2>5. \A s \in Sources : reported[s] <= world'[s]
    <3> SUFFICES ASSUME NEW s \in Sources PROVE reported[s] <= world'[s]
      OBVIOUS
    <3>1. reported[s] <= world[s] /\ world[s] <= world'[s]
      BY <2>1, <1>a, <1>c DEF ReportedPast
    <3>2. reported[s] \in Nat /\ world[s] \in Nat /\ world'[s] \in Nat
      BY <2>1, <1>a
    <3> QED
      BY <3>1, <3>2
  <2>6. \A d \in Loops : began[d] <= world'[d]
    <3> SUFFICES ASSUME NEW d \in Loops PROVE began[d] <= world'[d]
      OBVIOUS
    <3>1. began[d] <= world[d] /\ world[d] <= world'[d]
      BY <2>1, <1>c DEF BeganPast
    <3>2. began[d] \in Nat /\ world[d] \in Nat /\ world'[d] \in Nat
      BY <2>1, <1>a
    <3> QED
      BY <3>1, <3>2
  <2>7. UNCHANGED <<cb, reported, began>>
    BY <1>1 DEF Change, loopVars
  <2> QED
    BY <2>3, <2>4, <2>5, <2>6, <2>7, <1>c
    DEF PastOnly, EventsPast, CallbacksPast, ReportedPast, BeganPast, CallbackShape
<1>2. ASSUME NEW n \in Notifiers, TakeEvent(n) PROVE PastOnly'
  <2> DEFINE e == Head(events[n])
  <2>1. /\ e = events[n][1] /\ 1 \in 1 .. Len(events[n])
        /\ Len(Tail(events[n])) = Len(events[n]) - 1
        /\ \A i \in 1 .. Len(Tail(events[n])) : Tail(events[n])[i] = events[n][i + 1]
    BY <1>2, <1>a DEF TakeEvent
  <2>2. e \in Event
    BY <2>1, <1>b
  <2>3. e.val <= world[e.src] /\ e.src \in Sources /\ world[e.src] \in Nat /\ e.val \in Nat
    BY <2>1, <2>2, <1>a, <1>c DEF Event, EventsPast
  <2>4. PICK at \in {"store", "flag"} :
          /\ at = "store" => e.src = "power"
          /\ cb' = [cb EXCEPT ![n] =
                   [at |-> at, src |-> e.src,
                    val |-> IF Windows THEN e.val ELSE world[e.src]]]
    BY <1>2 DEF TakeEvent
  <2>5. /\ cb'[n].src = e.src /\ cb'[n].at = at /\ cb'[n].val <= world[e.src]
        /\ \A m \in Notifiers : m # n => cb'[m] = cb[m]
    BY <2>3, <2>4, <1>a
  <2>6. CallbacksPast' /\ CallbackShape'
    <3>1. world' = world
      BY <1>2 DEF TakeEvent
    <3> QED
      BY <2>3, <2>4, <2>5, <1>c, <3>1 DEF CallbacksPast, CallbackShape
  <2>7. \A m \in Notifiers : \A i \in 1 .. Len(events'[m]) :
          events'[m][i].val <= world[events'[m][i].src]
    <3> SUFFICES ASSUME NEW m \in Notifiers, NEW i \in 1 .. Len(events'[m])
                 PROVE  events'[m][i].val <= world[events'[m][i].src]
      OBVIOUS
    <3>1. CASE m # n
      <4>1. events'[m] = events[m]
        BY <3>1, <1>2, <1>a DEF TakeEvent
      <4> QED
        BY <4>1, <1>c DEF EventsPast
    <3>2. CASE m = n
      <4>1. events'[n] = Tail(events[n])
        BY <1>2, <1>a DEF TakeEvent
      <4>2. i + 1 \in 1 .. Len(events[n])
        BY <4>1, <3>2, <2>1, <1>a
      <4>3. events'[m][i] = events[n][i + 1]
        BY <4>1, <3>2, <2>1
      <4> QED
        BY <4>2, <4>3, <1>c DEF EventsPast
    <3> QED
      BY <3>1, <3>2
  <2>8. UNCHANGED <<world, reported, began>>
    BY <1>2 DEF TakeEvent, loopVars
  <2> QED
    BY <2>6, <2>7, <2>8, <1>c DEF PastOnly, EventsPast, ReportedPast, BeganPast
<1>3. ASSUME NEW n \in Notifiers, CallbackStore(n) PROVE PastOnly'
  <2>1. \A m \in Notifiers : /\ cb'[m].src = cb[m].src /\ cb'[m].val = cb[m].val
                             /\ cb'[m].at = IF m = n THEN "flag" ELSE cb[m].at
    BY <1>3, <1>a DEF CallbackStore, Callback
  <2> QED
    BY <1>3, <2>1, <1>c
    DEF CallbackStore, PastOnly, EventsPast, CallbacksPast, ReportedPast, BeganPast, CallbackShape
<1>4. ASSUME NEW n \in Notifiers, CallbackFlag(n) PROVE PastOnly'
  <2>1. \A m \in Notifiers : cb'[m] = IF m = n THEN Idle ELSE cb[m]
    BY <1>4, <1>a DEF CallbackFlag
  <2>2. \A s \in Sources : reported'[s] <= world[s]
    BY <1>4, <1>a, <1>c DEF CallbackFlag, ReportedPast, CallbacksPast
  <2> QED
    BY <1>4, <2>1, <2>2, <1>c
    DEF CallbackFlag, Idle, loopVars,
        PastOnly, EventsPast, CallbacksPast, ReportedPast, BeganPast, CallbackShape
<1>5. ASSUME NEW c \in Loops, Loop(c) PROVE PastOnly'
  <2>1. /\ UNCHANGED <<world, events, cb, reported>>
        /\ began' = began \/ began' = [began EXCEPT ![c] = world[c]]
    BY <1>5 DEF Loop, LoopTop, Collect, CollectThrows, Store, Check, SleepFor
  <2>2. BeganPast'
    BY <2>1, <1>a, <1>c DEF BeganPast
  <2> QED
    BY <2>1, <2>2, <1>c DEF PastOnly, EventsPast, CallbacksPast, ReportedPast, CallbackShape
<1>6. CASE TemperatureStep \/ Start \/ Snapshot \/ Stop \/ PostThermal \/ RunThermal
           \/ UNCHANGED vars
  BY <1>6, <1>c, FrameOfMain, FrameOfTemperature, FrameOfThermal
  DEF PastOnly, EventsPast, CallbacksPast, ReportedPast, BeganPast, CallbackShape,
      vars, loopVars
<1> QED
  BY <1>1, <1>2, <1>3, <1>4, <1>5, <1>6 DEF Next, Notifier

-----------------------------------------------------------------------------
(* An event that has been reported is newer than the last collection only  *)
(* while its flag is up or the loop is about to collect again.             *)
NoneMissed ==
  \A s \in Sources :
    reported[s] > began[s] => RaisedFor(s) # {} \/ pc[s] \in {"none", "top", "exit"}

(* A step after which a source's report is newer than the last collection's *)
(* beginning leaves a flag raised, or the loop about to collect.           *)
LEMMA StepNoneMissed ==
  ASSUME Typed, PastOnly, NoneMissed, [Next]_vars
  PROVE  NoneMissed'
<1>a. /\ world \in [Loops -> Nat] /\ began \in [Loops -> Nat]
      /\ pc \in [Loops -> LoopPlaces]
      /\ reported \in [Sources -> Nat] /\ cb \in [Notifiers -> Callback]
      /\ Sources \subseteq Loops
  BY DEF Typed, Sources
<1>b. ReportedPast /\ CallbacksPast
  BY DEF PastOnly
<1> SUFFICES ASSUME NEW s \in Sources, reported'[s] > began'[s]
             PROVE  RaisedFor(s)' # {} \/ pc'[s] \in {"none", "top", "exit"}
  BY DEF NoneMissed
<1>c. reported[s] > began[s] => RaisedFor(s) # {} \/ pc[s] \in {"none", "top", "exit"}
  BY DEF NoneMissed
<1>d. /\ RaisedFor(s) = FlagSet(s) \cap dirty
      /\ RaisedFor(s)' = FlagSet(s) \cap dirty'
  BY <1>a, RaisedAsSet
<1>e. CASE UNCHANGED <<reported, began, dirty>> /\ pc'[s] = pc[s]
  BY <1>c, <1>d, <1>e
<1>1. ASSUME NEW c \in Loops, Change(c) PROVE UNCHANGED <<reported, began, dirty, pc>>
  BY <1>1 DEF Change, loopVars
<1>2. ASSUME NEW n \in Notifiers, TakeEvent(n) \/ CallbackStore(n)
      PROVE  UNCHANGED <<reported, began, dirty, pc>>
  BY <1>2 DEF TakeEvent, CallbackStore, loopVars
<1>3. ASSUME NEW n \in Notifiers, CallbackFlag(n)
      PROVE  RaisedFor(s)' # {} \/ pc'[s] \in {"none", "top", "exit"}
  <2>1. cb[n].src \in Sources
    BY <1>3, <1>b DEF CallbackFlag, CallbacksPast
  <2>2. dirty \subseteq dirty' /\ FlagOf(n, cb[n].src) \in dirty' /\ UNCHANGED <<pc, began>>
    BY <1>3 DEF CallbackFlag, loopVars
  <2>3. CASE s = cb[n].src
    BY <2>2, <2>3, <1>d, FlagsOfCallbacks
  <2>4. CASE s # cb[n].src
    BY <1>3, <2>2, <2>4, <1>a, <1>c, <1>d DEF CallbackFlag
  <2> QED
    BY <2>3, <2>4
<1>4. ASSUME NEW c \in Loops, LoopTop(c)
      PROVE  RaisedFor(s)' # {} \/ pc'[s] \in {"none", "top", "exit"}
  <2>1. CASE c = s
    <3>1. CASE c \in stop
      BY <1>4, <1>a, <2>1, <3>1 DEF LoopTop, Goto
    <3>2. CASE c \notin stop
      <4>1. began'[s] = world[s] /\ reported' = reported
        BY <1>4, <1>a, <2>1, <3>2 DEF LoopTop
      <4> QED
        BY <4>1, <1>a, <1>b DEF ReportedPast
    <3> QED
      BY <3>1, <3>2
  <2>2. CASE c # s
    <3>1. began'[s] = began[s] /\ pc'[s] = pc[s] /\ UNCHANGED <<reported, dirty>>
      BY <1>4, <1>a, <2>2 DEF LoopTop, Goto
    <3> QED
      BY <3>1, <1>c, <1>d
  <2> QED
    BY <2>1, <2>2
<1>5. ASSUME NEW c \in Loops, Collect(c) \/ CollectThrows(c) \/ Store(c) \/ SleepFor(c)
      PROVE  RaisedFor(s)' # {} \/ pc'[s] \in {"none", "top", "exit"}
  <2>1. /\ UNCHANGED <<reported, dirty, began>>
        /\ pc'[s] = pc[s] \/ pc[s] \in {"collect", "store", "sleep"}
    BY <1>5, <1>a DEF Collect, CollectThrows, Store, SleepFor, Goto
  <2> QED
    BY <2>1, <1>c, <1>d
<1>6. ASSUME NEW c \in Loops, Check(c)
      PROVE  RaisedFor(s)' # {} \/ pc'[s] \in {"none", "top", "exit"}
  <2>1. UNCHANGED <<reported, began>>
    BY <1>6 DEF Check
  <2>2. CASE c = s
    BY <1>6, <2>1, <2>2, <1>a, <1>c, <1>d DEF Check, Goto
  <2>3. CASE c # s
    <3>1. pc'[s] = pc[s]
      BY <1>6, <1>a, <2>3 DEF Check, Goto
    <3>2. FlagSet(s) \cap dirty' = FlagSet(s) \cap dirty
      <4>1. \A i \in DOMAIN FlagsOf(c) : FlagsOf(c)[i] \notin FlagSet(s)
        BY <2>3, <1>a, FlagsAreSets, FlagsDisjoint
      <4> QED
        BY <1>6, <4>1 DEF Check
    <3> QED
      BY <3>1, <3>2, <2>1, <1>c, <1>d
  <2> QED
    BY <2>2, <2>3
<1>7. CASE TemperatureStep
  <2>1. UNCHANGED <<reported, began, dirty>> /\ pc'[s] = pc[s]
    BY <1>7, <1>a, FrameOfTemperature DEF Sources
  <2> QED
    BY <2>1, <1>e
<1>8. CASE Start \/ Snapshot \/ Stop
  <2>1. UNCHANGED <<reported, began, dirty>>
    BY <1>8, FrameOfMain
  <2>2. pc' = pc \/ pc'[s] \in {"top", "exit"}
    BY <1>8, <1>a, FrameOfMain
  <2> QED
    BY <2>1, <2>2, <1>c, <1>d
<1>9. CASE UNCHANGED vars
  BY <1>9, <1>e DEF vars, loopVars
<1>10. CASE PostThermal \/ RunThermal
  <2>1. UNCHANGED <<reported, began>> /\ pc' = pc /\ RaisedFor(s)' = RaisedFor(s)
    BY <1>10, <1>a, FrameOfThermal DEF loopVars
  <2> QED
    BY <2>1, <1>c
<1> QED
  BY <1>e, <1>1, <1>2, <1>3, <1>4, <1>5, <1>6, <1>7, <1>8, <1>9, <1>10
  DEF Next, Notifier, Loop

-----------------------------------------------------------------------------
(* While no collection throws, what a collector has read and what it has   *)
(* stored is of the current collection, unless a callback is at work or    *)
(* its flag is up.                                                         *)
Quiet(s) == faults = 0 /\ RaisedFor(s) = {} /\ \A n \in Notifiers : cb[n].src # s

ReadIsRecent == \A s \in Sources : pc[s] = "store" => got[s] >= began[s]

StoredIsRecent ==
  \A s \in Sources : pc[s] \in {"check", "sleep"} /\ Quiet(s) => shown[s] >= began[s]

Recent == ReadIsRecent /\ StoredIsRecent

(* A step keeps what is read and what is stored as recent as the last      *)
(* collection's beginning.                                                 *)
LEMMA StepRecent ==
  ASSUME Typed, PastOnly, Recent, [Next]_vars
  PROVE  Recent'
<1>a. /\ world \in [Loops -> Nat] /\ began \in [Loops -> Nat]
      /\ got \in [Loops -> Nat] /\ shown \in [Loops -> Nat]
      /\ pc \in [Loops -> LoopPlaces] /\ cb \in [Notifiers -> Callback]
      /\ Sources \subseteq Loops /\ "temp" \notin Sources
      /\ faults \in Nat
  BY DEF Typed, Sources
<1>b. CallbacksPast /\ CallbackShape /\ BeganPast
  BY DEF PastOnly
<1> SUFFICES ASSUME NEW s \in Sources
             PROVE  /\ pc'[s] = "store" => got'[s] >= began'[s]
                    /\ pc'[s] \in {"check", "sleep"} /\ Quiet(s)' => shown'[s] >= began'[s]
  BY DEF Recent, ReadIsRecent, StoredIsRecent
<1> DEFINE Goal == /\ pc'[s] = "store" => got'[s] >= began'[s]
                   /\ pc'[s] \in {"check", "sleep"} /\ Quiet(s)' => shown'[s] >= began'[s]
<1>c. /\ pc[s] = "store" => got[s] >= began[s]
      /\ pc[s] \in {"check", "sleep"} /\ Quiet(s) => shown[s] >= began[s]
  BY DEF Recent, ReadIsRecent, StoredIsRecent
<1>d. /\ RaisedFor(s) = FlagSet(s) \cap dirty
      /\ RaisedFor(s)' = FlagSet(s) \cap dirty'
  BY <1>a, RaisedAsSet
<1>e. ASSUME pc'[s] = pc[s], got'[s] = got[s], began'[s] = began[s], shown'[s] = shown[s],
             Quiet(s)' => Quiet(s)
      PROVE  Goal
  BY <1>c, <1>e
<1>f. ASSUME UNCHANGED <<faults, dirty, cb>> PROVE Quiet(s)' => Quiet(s)
  BY <1>f, <1>d DEF Quiet
<1>1. ASSUME NEW c \in Loops, Change(c) PROVE Goal
  <2>1. UNCHANGED <<pc, got, began, shown, faults, dirty, cb>>
    BY <1>1 DEF Change, loopVars
  <2> QED
    BY <2>1, <1>e, <1>f
<1>2. ASSUME NEW n \in Notifiers, TakeEvent(n) PROVE Goal
  <2>1. UNCHANGED <<pc, got, began, shown, faults, dirty>>
    BY <1>2 DEF TakeEvent, loopVars
  <2>2. cb[n].src = "none" /\ \A m \in Notifiers : m # n => cb'[m] = cb[m]
    BY <1>2, <1>a, <1>b DEF TakeEvent, CallbackShape
  <2>3. Quiet(s)' => Quiet(s)
    BY <2>1, <2>2, <1>d DEF Quiet, Sources
  <2> QED
    BY <2>1, <2>3, <1>e
<1>3. ASSUME NEW n \in Notifiers, CallbackStore(n) PROVE Goal
  <2>1. UNCHANGED <<pc, got, began, faults, dirty>>
    BY <1>3 DEF CallbackStore, mainVars
  <2>2. \A m \in Notifiers : cb'[m].src = cb[m].src
    BY <1>3, <1>a DEF CallbackStore, Callback
  <2>3. cb[n].src = "power"
    BY <1>3, <1>b DEF CallbackStore, CallbackShape
  <2>4. CASE s = "power"
    BY <2>1, <2>2, <2>3, <2>4, <1>c DEF Quiet
  <2>5. CASE s # "power"
    <3>1. shown'[s] = shown[s]
      BY <1>3, <1>a, <2>5 DEF CallbackStore
    <3> QED
      BY <3>1, <2>1, <2>2, <1>d, <1>e DEF Quiet
  <2> QED
    BY <2>4, <2>5
<1>4. ASSUME NEW n \in Notifiers, CallbackFlag(n) PROVE Goal
  <2>1. UNCHANGED <<pc, got, began, shown, faults>>
    BY <1>4 DEF CallbackFlag, loopVars
  <2>2. cb[n].src \in Sources
    BY <1>4, <1>b DEF CallbackFlag, CallbacksPast
  <2>3. CASE cb[n].src = s
    <3>1. RaisedFor(s)' # {}
      BY <1>4, <2>2, <2>3, <1>d, FlagsOfCallbacks DEF CallbackFlag
    <3> QED
      BY <3>1, <2>1, <1>c DEF Quiet
  <2>4. CASE cb[n].src # s
    <3>1. \A m \in Notifiers : m # n => cb'[m] = cb[m]
      BY <1>4, <1>a DEF CallbackFlag
    <3>2. dirty \subseteq dirty'
      BY <1>4 DEF CallbackFlag
    <3>3. Quiet(s)' => Quiet(s)
      BY <3>1, <3>2, <2>1, <2>4, <1>d DEF Quiet
    <3> QED
      BY <2>1, <3>3, <1>e
  <2> QED
    BY <2>3, <2>4
<1>5. ASSUME NEW c \in Loops, Loop(c), c # s PROVE Goal
  <2>1. /\ pc'[s] = pc[s] /\ got'[s] = got[s] /\ began'[s] = began[s] /\ shown'[s] = shown[s]
    BY <1>5, <1>a DEF Loop, LoopTop, Collect, CollectThrows, Store, Check, SleepFor, Goto
  <2>2. cb' = cb
    BY <1>5 DEF Loop, LoopTop, Collect, CollectThrows, Store, Check, SleepFor
  <2>3. faults' = 0 => faults = 0
    BY <1>5, <1>a DEF Loop, LoopTop, Collect, CollectThrows, Store, Check, SleepFor
  <2>4. FlagSet(s) \cap dirty' = FlagSet(s) \cap dirty
    <3>1. \A i \in DOMAIN FlagsOf(c) : FlagsOf(c)[i] \notin FlagSet(s)
      BY <1>5, <1>a, FlagsAreSets, FlagsDisjoint
    <3> QED
      BY <1>5, <3>1 DEF Loop, LoopTop, Collect, CollectThrows, Store, Check, SleepFor
  <2>5. Quiet(s)' => Quiet(s)
    BY <2>2, <2>3, <2>4, <1>d DEF Quiet
  <2> QED
    BY <2>1, <2>5, <1>e
<1>6. CASE LoopTop(s)
  BY <1>6, <1>a DEF LoopTop, Goto
<1>7. CASE Collect(s)
  <2>1. /\ pc'[s] = "store" /\ got'[s] = world[s] /\ began'[s] = began[s]
    BY <1>7, <1>a DEF Collect, Goto
  <2>2. world[s] >= began[s]
    BY <1>a, <1>b DEF BeganPast
  <2> QED
    BY <2>1, <2>2
<1>8. CASE CollectThrows(s)
  <2>1. faults' # 0 /\ pc'[s] = "check"
    BY <1>8, <1>a DEF CollectThrows, Goto
  <2> QED
    BY <2>1 DEF Quiet
<1>9. CASE Store(s)
  <2>1. pc'[s] = "check" /\ shown'[s] = got[s] /\ began'[s] = began[s] /\ pc[s] = "store"
    BY <1>9, <1>a DEF Store, Goto
  <2> QED
    BY <2>1, <1>c
<1>10. CASE Check(s)
  <2>1. UNCHANGED <<faults, cb, shown, began>> /\ pc[s] = "check"
    BY <1>10 DEF Check
  <2>2. \/ pc'[s] = "top"
        \/ pc'[s] = "sleep" /\ dirty' = dirty
    BY <1>10, <1>a DEF Check, Goto
  <2> QED
    BY <2>1, <2>2, <1>c, <1>f
<1>11. CASE SleepFor(s)
  <2>1. /\ UNCHANGED <<faults, cb, shown, began, dirty>>
        /\ pc'[s] = "top" \/ (pc'[s] = pc[s] /\ pc[s] = "sleep")
    BY <1>11, <1>a DEF SleepFor, Goto
  <2> QED
    BY <2>1, <1>c, <1>f
<1>12. CASE TemperatureStep
  <2>1. UNCHANGED <<faults, dirty, cb, got, began>> /\ pc'[s] = pc[s]
    BY <1>12, <1>a, FrameOfTemperature
  <2>2. shown'[s] = shown[s]
    BY <1>12, <1>a
    DEF TemperatureStep, TempLock, TempVector, TempScalars, TempFrequencies
  <2> QED
    BY <2>1, <2>2, <1>e, <1>f
<1>13. CASE Start \/ Snapshot \/ Stop
  <2>1. /\ UNCHANGED <<faults, dirty, cb, got, began, shown>>
        /\ pc' = pc \/ pc'[s] \in {"top", "exit"}
    BY <1>13, <1>a, FrameOfMain
  <2> QED
    BY <2>1, <1>e, <1>f
<1>14. CASE UNCHANGED vars
  BY <1>14, <1>e, <1>f DEF vars, loopVars
<1>15. CASE PostThermal \/ RunThermal
  <2>1. UNCHANGED <<pc, got, began, shown, faults, cb>> /\ RaisedFor(s)' = RaisedFor(s)
    BY <1>15, <1>a, FrameOfThermal DEF loopVars
  <2>2. Quiet(s)' => Quiet(s)
    BY <2>1 DEF Quiet
  <2> QED
    BY <2>1, <2>2, <1>e
<1> QED
  BY <1>1, <1>2, <1>3, <1>4, <1>5, <1>6, <1>7, <1>8, <1>9, <1>10, <1>11, <1>12, <1>13,
     <1>14, <1>15 DEF Next, Notifier, Loop

-----------------------------------------------------------------------------
(* Where the threads are, in relation to each other: the collectors run    *)
(* between SpawnLoops and JoinLoops, callbacks while their notifier is      *)
(* started or once it has been given up, and tempMutex is held by whoever   *)
(* is inside its section.                                                  *)
LoopsLive ==
  /\ main = "new" => \A c \in Loops : pc[c] = "none"
  /\ main \in {"stopPower", "stopNotifiers", "stopped"} => \A c \in Loops : pc[c] = "exit"

CallbacksLive ==
  /\ \A n \in Notifiers : cb[n].at # "idle" => n \in listening \cup strays
  /\ main \in {"new", "notifiers", "stopped"} => listening = {}
  /\ main \in {"new", "notifiers"} => strays = {}

MutexHeld ==
  /\ mutex = "temp" <=> "temp" \in Loops /\ pc["temp"] \in {"vector", "scalars", "freq"}
  /\ mutex = "main" <=> main \in {"snapVector", "snapScalars"}

Places == LoopsLive /\ CallbacksLive /\ MutexHeld

(* A step keeps loops and callbacks within Start() and Stop(), and the     *)
(* mutex with who is at its places.                                        *)
LEMMA StepPlaces ==
  ASSUME Typed, Places, [Next]_vars
  PROVE  Places'
<1>a. pc \in [Loops -> LoopPlaces] /\ cb \in [Notifiers -> Callback]
  BY DEF Typed
<1>b. LoopsLive /\ CallbacksLive /\ MutexHeld
  BY DEF Places
<1> USE DEF Places
<1>1. ASSUME NEW c \in Loops, Change(c) PROVE Places'
  BY <1>1, <1>b DEF Change, LoopsLive, CallbacksLive, MutexHeld, loopVars, mainVars
<1>2. ASSUME NEW n \in Notifiers, Notifier(n) PROVE Places'
  <2>1. UNCHANGED <<main, pc, mutex, calling>>
    BY <1>2 DEF Notifier, TakeEvent, CallbackStore, CallbackFlag, loopVars, mainVars
  <2>2. ASSUME NEW m \in Notifiers, cb'[m].at # "idle" PROVE m \in listening \cup strays
    <3>1. CASE m # n
      <4>1. cb'[m] = cb[m]
        BY <1>2, <1>a, <3>1 DEF Notifier, TakeEvent, CallbackStore, CallbackFlag
      <4> QED
        BY <4>1, <2>2, <1>b DEF CallbacksLive
    <3>2. CASE m = n
      BY <1>2, <2>2, <3>2, <1>a, <1>b
      DEF Notifier, TakeEvent, CallbackStore, CallbackFlag, CallbacksLive, Idle
    <3> QED
      BY <3>1, <3>2
  <2> QED
    BY <2>1, <2>2, <1>b DEF LoopsLive, CallbacksLive, MutexHeld
<1>3. ASSUME NEW c \in Loops, Loop(c) PROVE Places'
  <2>1. /\ UNCHANGED <<cb, calling, main, mutex>>
        /\ pc[c] \in {"top", "collect", "store", "check", "sleep"}
    BY <1>3 DEF Loop, LoopTop, Collect, CollectThrows, Store, Check, SleepFor, mainVars
  <2>2. /\ pc'[c] \notin {"vector", "scalars", "freq"}
        /\ \A d \in Loops : d # c => pc'[d] = pc[d]
    BY <1>3, <1>a DEF Loop, LoopTop, Collect, CollectThrows, Store, Check, SleepFor, Goto
  <2>3. LoopsLive'
    BY <2>1, <1>b DEF LoopsLive
  <2>4. MutexHeld'
    BY <2>1, <2>2, <1>b DEF MutexHeld
  <2> QED
    BY <2>1, <2>3, <2>4, <1>b DEF CallbacksLive
<1>4. CASE TemperatureStep
  <2>1. UNCHANGED <<cb, calling, main>>
    BY <1>4, FrameOfTemperature DEF mainVars
  <2>2. LoopsLive'
    BY <1>4, <2>1, <1>b, FrameOfTemperature DEF LoopsLive
  <2>3. MutexHeld'
    <3>1. CASE TempLock
      BY <3>1, <2>1, <1>a, <1>b DEF TempLock, Goto, MutexHeld
    <3>2. CASE TempVector
      BY <3>2, <2>1, <1>a, <1>b DEF TempVector, Goto, MutexHeld
    <3>3. CASE TempScalars
      BY <3>3, <2>1, <1>a, <1>b DEF TempScalars, Goto, MutexHeld
    <3>4. CASE TempFrequencies
      BY <3>4, <2>1, <1>a, <1>b DEF TempFrequencies, Goto, MutexHeld
    <3> QED
      BY <1>4, <3>1, <3>2, <3>3, <3>4 DEF TemperatureStep
  <2> QED
    BY <2>1, <2>2, <2>3, <1>b DEF CallbacksLive
<1>5. CASE SpawnLoops
  <2>1. \A c \in Loops : pc[c] = "none" /\ pc'[c] \in {"top", "exit"}
    BY <1>5, <1>b DEF SpawnLoops, LoopsLive
  <2>2. UNCHANGED <<cb, calling, mutex>> /\ main = "new" /\ main' = "notifiers"
    BY <1>5 DEF SpawnLoops
  <2> QED
    BY <2>1, <2>2, <1>b DEF LoopsLive, CallbacksLive, MutexHeld
<1>6. CASE StartNotifiers
  BY <1>6, <1>b DEF StartNotifiers, LoopsLive, CallbacksLive, MutexHeld, loopVars
<1>7. CASE StartPowerMonitor \/ SeedFrequencies
  BY <1>7, <1>b
  DEF StartPowerMonitor, SeedFrequencies, LoopsLive, CallbacksLive, MutexHeld, loopVars
<1>8. CASE Snapshot
  BY <1>8, <1>b
  DEF Snapshot, SnapshotLock, SnapshotVector, SnapshotScalars,
      LoopsLive, CallbacksLive, MutexHeld, loopVars
<1>9. CASE RequestStop \/ JoinLoops
  BY <1>9, <1>b DEF RequestStop, JoinLoops, LoopsLive, CallbacksLive, MutexHeld, loopVars
<1>10. CASE StopPowerMonitor \/ StopNotifiers
  BY <1>10, <1>b
  DEF StopPowerMonitor, StopNotifiers, LoopsLive, CallbacksLive, MutexHeld, loopVars
<1>11. CASE UNCHANGED vars
  BY <1>11, <1>b DEF vars, LoopsLive, CallbacksLive, MutexHeld, loopVars, mainVars
<1>12. CASE PostThermal \/ RunThermal
  BY <1>12, <1>b, FrameOfThermal DEF LoopsLive, CallbacksLive, MutexHeld, loopVars, mainVars
<1> QED
  BY <1>1, <1>2, <1>3, <1>4, <1>5, <1>6, <1>7, <1>8, <1>9, <1>10, <1>11, <1>12
  DEF Next, Start, Stop

-----------------------------------------------------------------------------
(* The list and the scalars are of one sample, except while the holder of  *)
(* tempMutex is between the two; a snapshot's copy is of what is there.    *)
SampleWhole ==
  /\ "temp" \in Loops => /\ pc["temp"] # "store"
                         /\ shown["temp"] = IF pc["temp"] = "scalars" THEN got["temp"] ELSE chip
  /\ "temp" \notin Loops => chip = 0
  /\ main = "snapScalars" => snap.temps = IF "temp" \in Loops THEN shown["temp"] ELSE 0
  /\ SnapshotOfOneSample

(* A step keeps the scalars of the temperature sample with its vector,     *)
(* outside of the two places where it is half stored or half read.         *)
LEMMA StepSample ==
  ASSUME Typed, CallbackShape, Places, SampleWhole, [Next]_vars
  PROVE  SampleWhole'
<1>a. /\ pc \in [Loops -> LoopPlaces] /\ shown \in [Loops -> Nat] /\ got \in [Loops -> Nat]
      /\ snap \in [temps : Nat, chip : Nat]
  BY DEF Typed
<1>b. MutexHeld /\ LoopsLive
  BY DEF Places
<1> USE DEF SampleWhole, SnapshotOfOneSample
<1>1. CASE UNCHANGED <<shown, got, chip, snap, main>> /\ ("temp" \in Loops => pc'["temp"] = pc["temp"])
  BY <1>1
<1>2. ASSUME NEW c \in Loops, Change(c) PROVE UNCHANGED <<shown, got, chip, snap, main, pc>>
  BY <1>2 DEF Change, loopVars, mainVars
<1>3. ASSUME NEW n \in Notifiers, TakeEvent(n) \/ CallbackFlag(n)
      PROVE  UNCHANGED <<shown, got, chip, snap, main, pc>>
  BY <1>3 DEF TakeEvent, CallbackFlag, loopVars, mainVars
<1>4. ASSUME NEW n \in Notifiers, CallbackStore(n) PROVE SampleWhole'
  <2>1. UNCHANGED <<got, chip, snap, main, pc>>
    BY <1>4 DEF CallbackStore, mainVars
  <2>2. "temp" \in Loops => shown'["temp"] = shown["temp"]
    BY <1>4, <1>a DEF CallbackStore
  <2> QED
    BY <2>1, <2>2
<1>5. ASSUME NEW c \in Loops, Loop(c) PROVE SampleWhole'
  <2>1. UNCHANGED <<chip, snap, main>>
    BY <1>5 DEF Loop, LoopTop, Collect, CollectThrows, Store, Check, SleepFor, mainVars
  <2>2. CASE c # "temp"
    <3>1. "temp" \in Loops => /\ pc'["temp"] = pc["temp"] /\ shown'["temp"] = shown["temp"]
                              /\ got'["temp"] = got["temp"]
      BY <1>5, <1>a, <2>2
      DEF Loop, LoopTop, Collect, CollectThrows, Store, Check, SleepFor, Goto
    <3> QED
      BY <2>1, <3>1
  <2>3. CASE c = "temp"
    <3>1. /\ pc["temp"] \in {"top", "collect", "check", "sleep"} /\ shown' = shown
          /\ pc'["temp"] \notin {"store", "scalars"}
      BY <1>5, <1>a, <2>3
      DEF Loop, LoopTop, Collect, CollectThrows, Store, Check, SleepFor, Goto
    <3> QED
      BY <2>1, <2>3, <3>1
  <2> QED
    BY <2>2, <2>3
<1>6. CASE TempLock \/ TempFrequencies
  BY <1>6, <1>a DEF TempLock, TempFrequencies, Goto, mainVars
<1>7. CASE TempVector
  BY <1>7, <1>a, <1>b DEF TempVector, Goto, mainVars, MutexHeld
<1>8. CASE TempScalars
  BY <1>8, <1>a, <1>b DEF TempScalars, Goto, mainVars
<1>9. CASE Start
  <2>1. /\ UNCHANGED <<shown, got, chip, snap>>
        /\ main \notin {"snapVector", "snapScalars"} /\ main' \notin {"snapVector", "snapScalars"}
    BY <1>9 DEF Start, SpawnLoops, StartNotifiers, StartPowerMonitor, SeedFrequencies, loopVars
  <2>2. "temp" \in Loops => \/ pc'["temp"] = pc["temp"]
                            \/ pc["temp"] = "none" /\ pc'["temp"] \in {"top", "exit"}
    BY <1>9, <1>b, FrameOfMain DEF LoopsLive
  <2> QED
    BY <2>1, <2>2
<1>10. CASE SnapshotLock
  BY <1>10 DEF SnapshotLock, loopVars
<1>11. CASE SnapshotVector
  BY <1>11, <1>a DEF SnapshotVector, loopVars
<1>12. CASE SnapshotScalars
  <2>1. "temp" \in Loops => pc["temp"] # "scalars"
    BY <1>12, <1>b DEF SnapshotScalars, MutexHeld
  <2>2. snap'.temps = snap.temps /\ snap'.chip = chip
    BY <1>12, <1>a DEF SnapshotScalars
  <2> QED
    BY <1>12, <2>1, <2>2 DEF SnapshotScalars, loopVars
<1>13. CASE Stop
  BY <1>13 DEF Stop, RequestStop, JoinLoops, StopPowerMonitor, StopNotifiers, loopVars
<1>14. CASE PostThermal \/ RunThermal \/ UNCHANGED vars
  BY <1>1, <1>14, FrameOfThermal DEF vars, loopVars, mainVars
<1> QED
  BY <1>1, <1>2, <1>3, <1>4, <1>5, <1>6, <1>7, <1>8, <1>9, <1>10, <1>11, <1>12, <1>13, <1>14
  DEF Next, Notifier, TemperatureStep, Snapshot

-----------------------------------------------------------------------------
(* The inductive invariant.                                                *)
IInv == Typed /\ PastOnly /\ NoneMissed /\ Recent /\ Places /\ SampleWhole

(* The initial state satisfies the inductive invariant. *)
LEMMA InitHolds == Init => IInv
<1> SUFFICES ASSUME Init PROVE IInv
  OBVIOUS
<1>1. Typed
  BY InitTyped
<1>2. PastOnly
  BY DEF Init, Idle, Sources, PastOnly, EventsPast, CallbacksPast, ReportedPast, BeganPast,
         CallbackShape
<1>3. NoneMissed /\ Recent
  BY DEF Init, Sources, NoneMissed, Recent, ReadIsRecent, StoredIsRecent
<1>4. Places /\ SampleWhole
  BY DEF Init, Idle, Places, LoopsLive, CallbacksLive, MutexHeld, SampleWhole, SnapshotOfOneSample
<1> QED
  BY <1>1, <1>2, <1>3, <1>4 DEF IInv

(* Every step keeps it. *)
LEMMA StepHolds == IInv /\ [Next]_vars => IInv'
  BY StepTyped, StepPast, StepNoneMissed, StepRecent, StepPlaces, StepSample DEF IInv, PastOnly

(* So it holds in every state of every behaviour. *)
LEMMA Inductive == Spec => []IInv
  BY InitHolds, StepHolds, PTL DEF Spec

(* No event is slept through: however callbacks, collections and the test  *)
(* of the flags interleave, a collector that sleeps with its flags down    *)
(* has begun its last collection no earlier than every event reported.     *)
THEOREM EventsWakeCollectors == Spec => []NoEventSleptThrough
<1>1. IInv => NoEventSleptThrough
  <2> SUFFICES ASSUME IInv, NEW s \in Sources, pc[s] = "sleep", RaisedFor(s) = {}
               PROVE  began[s] >= reported[s]
    BY DEF NoEventSleptThrough
  <2>1. ~(reported[s] > began[s])
    BY DEF IInv, NoneMissed
  <2>2. reported[s] \in Nat /\ began[s] \in Nat
    BY DEF IInv, Typed, Sources
  <2> QED
    BY <2>1, <2>2
<1> QED
  BY <1>1, Inductive, PTL

(* And without a failed collection what it then shows is no older, even    *)
(* where a callback and a collection store over each other.                *)
THEOREM SleepersShowCurrent == Spec => []ShownIsCurrent
<1>1. IInv => ShownIsCurrent
  <2> SUFFICES ASSUME IInv, NEW s \in Sources, faults = 0, pc[s] = "sleep", RaisedFor(s) = {},
                      \A n \in Notifiers : cb[n].src # s
               PROVE  shown[s] >= reported[s]
    BY DEF ShownIsCurrent
  <2>1. ~(reported[s] > began[s]) /\ shown[s] >= began[s]
    BY DEF IInv, NoneMissed, Recent, StoredIsRecent, Quiet
  <2>2. reported[s] \in Nat /\ began[s] \in Nat /\ shown[s] \in Nat
    BY DEF IInv, Typed, Sources
  <2> QED
    BY <2>1, <2>2
<1> QED
  BY <1>1, Inductive, PTL

(* tempMutex makes every snapshot's temperatures those of one sample.      *)
THEOREM SnapshotsConsistent == Spec => []SnapshotOfOneSample
<1>1. IInv => SnapshotOfOneSample
  BY DEF IInv, SampleWhole
<1> QED
  BY <1>1, Inductive, PTL

(* Stop() leaves nothing behind that writes ModuleData, but for a thermal   *)
(* block still queued and for the thread of a monitor that was given up.    *)
THEOREM StopIsQuiet == Spec => QuietAfterStop
<1> DEFINE Step == /\ main \in {"stopNotifiers", "stopped"} => UNCHANGED <<pc, chip>>
                   /\ main = "stopped" /\ strays = {} =>
                        /\ UNCHANGED shown
                        /\ dirty' \ {"thermalDirty"} = dirty \ {"thermalDirty"}
<1>1. IInv /\ [Next]_vars => Step
  <2> SUFFICES ASSUME IInv, Next, main \in {"stopNotifiers", "stopped"}
               PROVE  Step
    BY DEF vars, loopVars
  <2>1. \A c \in Loops : pc[c] = "exit"
    BY DEF IInv, Places, LoopsLive
  <2>2. main = "stopped" /\ strays = {} => \A n \in Notifiers : cb[n].at = "idle"
    BY DEF IInv, Places, CallbacksLive
  <2>3. ASSUME NEW c \in Loops, Change(c) PROVE UNCHANGED <<pc, chip, shown, dirty>>
    BY <2>3 DEF Change, loopVars
  <2>4. ASSUME NEW n \in Notifiers, TakeEvent(n) PROVE UNCHANGED <<pc, chip, shown, dirty>>
    BY <2>4 DEF TakeEvent, loopVars
  <2>5. ASSUME NEW n \in Notifiers, CallbackStore(n) \/ CallbackFlag(n)
        PROVE  UNCHANGED <<pc, chip>> /\ ~(main = "stopped" /\ strays = {})
    BY <2>5, <2>2 DEF CallbackStore, CallbackFlag, loopVars
  <2>6. ASSUME NEW c \in Loops, Loop(c) PROVE FALSE
    BY <2>6, <2>1 DEF Loop, LoopTop, Collect, CollectThrows, Store, Check, SleepFor
  <2>7. ~TemperatureStep
    BY <2>1, FrameOfTemperature
  <2>8. ASSUME Start \/ Snapshot \/ Stop PROVE UNCHANGED <<pc, chip, shown, dirty>>
    BY <2>8, FrameOfMain
  <2>9. CASE PostThermal \/ RunThermal
    BY <2>9, FrameOfThermal DEF loopVars
  <2> QED
    BY <2>3, <2>4, <2>5, <2>6, <2>7, <2>8, <2>9 DEF Next, Notifier
<1> QED
  BY <1>1, Inductive, PTL DEF Spec, QuietAfterStop
=============================================================================
