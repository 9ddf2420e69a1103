-------------------------------- MODULE Sample --------------------------------
(***************************************************************************)
(* One turn after the other of the main loops: how a sample is put         *)
(* together, checked and handed to the terminal interface, the shared      *)
(* block and the history.  A quantity is abstracted to whether it is one   *)
(* ("ok"), out of its range ("off") or not a number ("nan"); WiFi to the   *)
(* parity of its last successful look.  When a step comes, the programs'   *)
(* start and end, the disks and the USB devices are in module Program.     *)
(***************************************************************************)
EXTENDS Integers, Sequences

CONSTANTS SampleBuilds  \* the builds to consider, of "mac", "linux", "windows"

VARIABLES build,     \* the build that runs
          step,      \* the step of the loop
          known,     \* on Windows, whether the facts of the start are cached ...
          gpuCache,  \* ... and the graphics card, on the first turn
          wifi,      \* the data of WiFiInfo and BluetoothInfo
          data,      \* the sample: TuiData, on Windows SystemInfo
          skipped,   \* whether an exception cut the validation short
          served,    \* whether no sink went without its data in this turn
          sinks      \* what the terminal interface, the block and the history get
                     \* in this turn

mvars == <<build, step, known, gpuCache, wifi, data, skipped, served, sinks>>

StepsMac == <<"snapshot", "gpu", "wifi", "sensors", "tui", "block", "history">>
StepsLinux == <<"snapshot", "gpu", "wifi", "tui", "history">>
StepsWindowsEarly == <<"facts", "snapshot", "gpu", "tui", "block", "validate", "fill", "wifi",
                       "raw", "history">>
StepsWindows == <<"facts", "snapshot", "gpu", "validate", "fill", "wifi", "raw", "tui", "block",
                  "history">>
Steps == [mac |-> StepsMac, linux |-> StepsLinux, windows |-> StepsWindows]

First == Steps[build][1]
NextStep ==
  LET s == Steps[build]
      i == CHOOSE j \in DOMAIN s : s[j] = step
  IN  IF i = Len(s) THEN "end" ELSE s[i + 1]

NoData == [usage |-> "ok", used |-> "ok", freq |-> "ok", gpu |-> "blank", vram |-> "blank",
           wifi |-> 0, facts |-> "none"]
NoSink == [data |-> NoData, skipped |-> FALSE]

SampleInit ==
  /\ build \in SampleBuilds
  /\ step = Steps[build][1]
  /\ known = "unset" /\ gpuCache = "unset" /\ wifi = 0
  /\ data = NoData /\ skipped = FALSE /\ served = TRUE
  /\ sinks = [s \in {"tui", "block", "history"} |-> NoSink]

Handed(s) == sinks' = [sinks EXCEPT ![s] = [data |-> data, skipped |-> skipped]]

Sampled(d) ==
  /\ data' = d /\ step' = NextStep
  /\ UNCHANGED <<build, known, gpuCache, wifi, skipped, served, sinks>>

(***************************************************************************)
(* What goes into a sample.                                                *)
(***************************************************************************)
\* Windows caches the facts of the first turn, "Unknown" after an exception.
SystemInfoCached(throws) ==
  /\ step = "facts"
  /\ known' = IF known # "unset" THEN known ELSE IF throws THEN "unknown" ELSE "known"
  /\ data' = [data EXCEPT !.facts = known']
  /\ step' = NextStep
  /\ UNCHANGED <<build, gpuCache, wifi, skipped, served, sinks>>

\* The coordinator's snapshot.
Snapshot(usage, used, freq) ==
  /\ step = "snapshot"
  /\ Sampled([data EXCEPT !.usage = usage, !.used = used, !.freq = freq])

\* ThreadSafeGpuCache::Initialize() is tried once; what it did not find or threw at
\* stays "No GPU detected".
GpuCache(found) == IF gpuCache # "unset" THEN gpuCache ELSE IF found THEN "card" ELSE "none"

\* The vendor's library answers for some cards only; its share of video memory goes
\* where the cached clock was.  An exception names the error in place of the card, and
\* the list of cards is then empty, as it is without a card.
GpuWindows(found, nvml, throws) ==
  /\ step = "gpu" /\ build = "windows"
  /\ gpuCache' = GpuCache(found)
  /\ data' = [data EXCEPT
                !.gpu = IF throws THEN "failed" ELSE gpuCache',
                !.vram = IF throws THEN "none" ELSE IF nvml THEN "percent" ELSE "clock"]
  /\ step' = NextStep
  /\ UNCHANGED <<build, known, wifi, skipped, served, sinks>>

\* The first card named, the first usage there is.
GpuMac(found) ==
  /\ step = "gpu" /\ build = "mac"
  /\ Sampled([data EXCEPT !.gpu = IF found THEN "card" ELSE "none"])

GpuLinux(found) ==
  /\ step = "gpu" /\ build = "linux"
  /\ Sampled([data EXCEPT !.gpu = IF found THEN "card" ELSE "none"])

\* WiFi and Bluetooth, looked at or not; the looks' exceptions are swallowed.
Looked(looks) ==
  /\ step = "wifi"
  /\ wifi' = IF looks THEN 1 - wifi ELSE wifi
  /\ data' = [data EXCEPT !.wifi = wifi']
  /\ step' = NextStep
  /\ UNCHANGED <<build, known, gpuCache, skipped, served, sinks>>

WirelessMac(looks) == build = "mac" /\ Looked(looks)
WirelessLinux(looks) == build = "linux" /\ Looked(looks)
WirelessWindows(looks) == build = "windows" /\ Looked(looks)

\* Windows writes both into the block at once, outside the sequence lock.
RawWireless ==
  /\ step = "raw"
  /\ sinks' = [sinks EXCEPT !["block"].data.wifi = data.wifi]
  /\ step' = NextStep
  /\ UNCHANGED <<build, known, gpuCache, wifi, data, skipped, served>>

\* Sensors, processes and displays of macOS: nothing of them goes to the block or
\* the history.  TuiData of Windows is filled from what was validated.
Fill ==
  /\ step \in {"sensors", "fill"}
  /\ step' = NextStep
  /\ UNCHANGED <<build, known, gpuCache, wifi, data, skipped, served, sinks>>

(***************************************************************************)
(* Validation, on Windows only.                                            *)
(***************************************************************************)
\* An exception of the n-th check (its warning comes before the correction) skips
\* the rest.
Corrected(n) ==
  [data EXCEPT !.usage = IF n > 1 /\ @ = "off" THEN "ok" ELSE @,
               !.used = IF n > 2 /\ @ = "off" THEN "ok" ELSE @,
               !.freq = IF n > 3 /\ @ = "nan" THEN "ok" ELSE @]

Validate(n) ==
  /\ step = "validate"
  /\ n \in 1..2 => (n = 1 /\ data.usage = "off") \/ (n = 2 /\ data.used = "off")
  /\ data' = Corrected(n)
  /\ skipped' = (n <= 3)
  /\ step' = NextStep
  /\ UNCHANGED <<build, known, gpuCache, wifi, served, sinks>>

(***************************************************************************)
(* The sinks.                                                              *)
(***************************************************************************)
\* On Windows the card's name, memory and usage are filled in only if the list of
\* cards is not empty.
OnScreen ==
  IF build = "windows" /\ data.gpu # "card"
  THEN [data EXCEPT !.gpu = "blank", !.vram = "blank"]
  ELSE data

UpdateData ==
  /\ step = "tui"
  /\ sinks' = [sinks EXCEPT !["tui"] = [data |-> OnScreen, skipped |-> skipped]]
  /\ step' = NextStep
  /\ UNCHANGED <<build, known, gpuCache, wifi, data, skipped, served>>

\* The block, if there is one.
PublishMac(there) ==
  /\ step = "block" /\ build = "mac"
  /\ IF there THEN Handed("block") ELSE UNCHANGED sinks
  /\ served' = (served /\ there) /\ step' = NextStep
  /\ UNCHANGED <<build, known, gpuCache, wifi, data, skipped>>

\* On Windows its exceptions are swallowed and part of it may be old.
PublishWindows(there) ==
  /\ step = "block" /\ build = "windows"
  /\ IF there THEN Handed("block") ELSE UNCHANGED sinks
  /\ served' = (served /\ there) /\ step' = NextStep
  /\ UNCHANGED <<build, known, gpuCache, wifi, data, skipped>>

Recorded(runs) ==
  /\ step = "history"
  /\ IF runs THEN Handed("history") ELSE UNCHANGED sinks
  /\ served' = (served /\ runs) /\ step' = NextStep
  /\ UNCHANGED <<build, known, gpuCache, wifi, data, skipped>>

RecordMac(runs) == build = "mac" /\ Recorded(runs)
RecordLinux(runs) == build = "linux" /\ Recorded(runs)
RecordWindows(runs) == build = "windows" /\ Recorded(runs)

(***************************************************************************)
(* The loop.                                                               *)
(***************************************************************************)
\* The sample is a local of the loop's body.
Again ==
  /\ step = "end"
  /\ step' = First /\ data' = NoData /\ skipped' = FALSE /\ served' = TRUE
  /\ sinks' = [s \in DOMAIN sinks |-> NoSink]
  /\ UNCHANGED <<build, known, gpuCache, wifi>>

\* An exception ends the turn; on Windows, in what serves the terminal interface and
\* the block, it ends only that.
Throws ==
  /\ step # "end"
  /\ IF build = "windows" /\ step \in {"fill", "wifi", "raw", "tui"}
     THEN step' = "history" /\ served' = FALSE /\ UNCHANGED <<data, skipped, sinks>>
     ELSE /\ step' = First /\ data' = NoData /\ skipped' = FALSE
          /\ served' = TRUE /\ sinks' = [s \in DOMAIN sinks |-> NoSink]
  /\ UNCHANGED <<build, known, gpuCache, wifi>>

SampleNext ==
  \/ \E b \in BOOLEAN : SystemInfoCached(b) \/ GpuMac(b) \/ GpuLinux(b)
                        \/ WirelessMac(b) \/ WirelessLinux(b) \/ WirelessWindows(b)
                        \/ PublishMac(b) \/ PublishWindows(b)
                        \/ RecordMac(b) \/ RecordLinux(b) \/ RecordWindows(b)
  \/ \E found, nvml, throws \in BOOLEAN : GpuWindows(found, nvml, throws)
  \/ \E u \in {"ok", "off", "nan"}, m \in {"ok", "off"}, f \in {"ok", "nan"} : Snapshot(u, m, f)
  \/ \E n \in {1, 2, 4} : Validate(n)
  \/ RawWireless \/ Fill \/ UpdateData \/ Again \/ Throws

SampleSpec == SampleInit /\ [][SampleNext]_mvars

(***************************************************************************)
(* Properties.                                                             *)
(***************************************************************************)
\* What the three sinks get.  Nothing out of range that validation covers, whatever
\* throws on the way, unless a check itself did (a usage that is not a number
\* passes: both comparisons are false).  And in a turn in which each gets its data
\* the same sample, WiFi and Bluetooth included ("Shared memory write moved after TUI
\* block (WiFi/BT data)", main.cpp), but for what Windows shows of the graphics card:
\* nothing where the block and the history have the usage and the name that stands
\* for no card or for an error.
SinksGetSample ==
  /\ build = "windows" =>
       \A s \in DOMAIN sinks :
         LET d == sinks[s].data
         IN  ~sinks[s].skipped => d.usage # "off" /\ d.used # "off" /\ d.freq # "nan"
  /\ step = "end" /\ served =>
       LET recorded == sinks["history"].data
           shown == sinks["tui"].data
           fields == IF build = "windows" /\ recorded.gpu # "card"
                       THEN DOMAIN recorded \ {"gpu", "vram"} ELSE DOMAIN recorded
       IN  /\ \A f \in DOMAIN recorded :
                IF f \in fields THEN shown[f] = recorded[f] ELSE shown[f] = "blank"
           /\ build # "linux" => sinks["block"].data = recorded
==============================================================================
