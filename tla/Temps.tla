-------------------------------- MODULE Temps --------------------------------
(***************************************************************************)
(* TemperatureWrapper.  On macOS: the connection to the SMC, opened and    *)
(* closed by the main thread, read by the coordinator's loop and kept safe *)
(* by a mutex; the groups its sensors are averaged by, the last good       *)
(* reading, what fills in for sensors that are missing; the thread that    *)
(* runs powermetrics under an alarm.  On Windows the list of readers, on   *)
(* Linux the files of sysfs, from which near values are dropped.  Degrees  *)
(* are integers; what fills in is named, not valued.                       *)
(***************************************************************************)
EXTENDS Integers, Sequences, SequencesExt, FiniteSetsExt

CONSTANTS TempsBuilds,  \* the builds, of "silicon", "intel", "windows", "linux"
          SmcKeys,      \* the temperature keys of the SMC
          GroupOf,      \* the label of a key's group, "hidden" if it is not whitelisted
          Enough,       \* valid sensors that make a reading worth keeping (3)
          Degrees,      \* the values a sensor or a file may give
          Near,         \* values less than this apart are taken for one sensor
          MaxFiles      \* bound: files

VARIABLES tempsBuild,  \* the build
          wrapper,     \* initialized and the main thread's place in Cleanup()
          smc,         \* conn, ready, keys, the kept reading; who has the mutex
          reading,     \* the loop's place in GetTemperatures() and its result
          pm,          \* the thread of powermetrics and g_pm_temps
          killed       \* whether the alarm has ended the process

wvars == <<tempsBuild, wrapper, smc, reading, pm, killed>>

Mac == tempsBuild \in {"silicon", "intel"}
Alive == ~killed

\* A reading of the SMC: the degrees of each label, and the sensors behind them.
NoReading == [temps |-> <<>>, valid |-> 0]
Idle == [at |-> "idle", smc |-> NoReading, torn |-> FALSE, todo |-> {}, more |-> {},
         got |-> <<>>, from |-> <<>>]

\* What a copy of a vector that is being cleared may give besides the old and the new.
Torn == [temps |-> [l \in {"freed"} |-> 0], valid |-> 0]

TempsInit ==
  /\ tempsBuild \in TempsBuilds
  /\ wrapper = [initialized |-> FALSE, at |-> "new"]
  /\ smc = [conn |-> FALSE, ready |-> FALSE, keys |-> {}, kept |-> NoReading, mutex |-> "free"]
  /\ reading = Idle
  /\ pm = [running |-> FALSE, at |-> "none", batch |-> {}, temps |-> {}]
  /\ killed = FALSE

(***************************************************************************)
(* The main thread.                                                        *)
(***************************************************************************)
\* lookup_whitelist, and the type of the key: what as_smc_enumerate keeps.
Whitelisted(k) == GroupOf[k] # "hidden"
Enumerated(there) == {k \in there : Whitelisted(k)}

\* as_smc_open and probe_smc: the service may not be there.
Opened(opens, answers, there) ==
  [smc EXCEPT !.conn = opens,
              !.ready = opens /\ answers /\ tempsBuild = "silicon",
              !.keys = IF opens /\ answers /\ tempsBuild = "silicon"
                         THEN Enumerated(there) ELSE {}]

\* Initialize(): the SMC may open and tell no keys; powermetrics may not be there.
InitializeMac(opens, answers, there, tool) ==
  /\ Mac /\ wrapper.at = "new"
  /\ wrapper' = [initialized |-> TRUE, at |-> "up"]
  /\ smc' = Opened(opens, answers, there)
  /\ pm' = IF tool THEN [pm EXCEPT !.running = TRUE, !.at = "warm"] ELSE pm
  /\ UNCHANGED <<tempsBuild, reading, killed>>

InitializeOther ==
  /\ ~Mac /\ wrapper.at = "new"
  /\ wrapper' = [initialized |-> TRUE, at |-> "up"]
  /\ UNCHANGED <<tempsBuild, smc, reading, pm, killed>>

\* Cleanup() first has the thread of powermetrics end, ...
CleanupBegins ==
  /\ wrapper.at = "up"
  /\ wrapper' = [wrapper EXCEPT !.at = "join"]
  /\ pm' = [pm EXCEPT !.running = FALSE]
  /\ UNCHANGED <<tempsBuild, smc, reading, killed>>

\* ... then closes the SMC: on Intel without the mutex, on Apple Silicon, if it is open,
\* under it, ...
CloseUnlocked ==
  /\ wrapper.at = "join" /\ pm.at \in {"none", "ended"}
  /\ IF tempsBuild = "silicon" /\ smc.conn
     THEN /\ smc' = [smc EXCEPT !.ready = FALSE, !.mutex = "main"]
          /\ wrapper' = [wrapper EXCEPT !.at = "unready"]
     ELSE /\ smc' = [smc EXCEPT !.conn = FALSE]
          /\ wrapper' = [wrapper EXCEPT !.at = "closed"]
  /\ UNCHANGED <<tempsBuild, reading, pm, killed>>

Close ==
  /\ tempsBuild = "silicon" /\ smc.conn => smc.mutex = "free"
  /\ CloseUnlocked

KeysStay ==
  /\ wrapper.at = "unready"
  /\ wrapper' = [wrapper EXCEPT !.at = "forgot"]
  /\ UNCHANGED <<tempsBuild, smc, reading, pm, killed>>

ForgetKeys ==
  /\ wrapper.at = "unready"
  /\ smc' = [smc EXCEPT !.keys = {}]
  /\ wrapper' = [wrapper EXCEPT !.at = "forgot"]
  /\ UNCHANGED <<tempsBuild, reading, pm, killed>>

\* ... where a copy that the loop makes of the kept reading without the mutex may
\* meet the begin and the end of its clear(), ...
ClearBegins ==
  /\ wrapper.at = "forgot"
  /\ wrapper' = [wrapper EXCEPT !.at = "clearing"]
  /\ reading' = [reading EXCEPT !.torn = @ \/ reading.at = "copy"]
  /\ UNCHANGED <<tempsBuild, smc, pm, killed>>

ClearEnds ==
  /\ wrapper.at = "clearing"
  /\ smc' = [smc EXCEPT !.kept = NoReading]
  /\ wrapper' = [wrapper EXCEPT !.at = "cleared"]
  /\ UNCHANGED <<tempsBuild, reading, pm, killed>>

CloseConnection ==
  /\ wrapper.at = "cleared"
  /\ smc' = [smc EXCEPT !.conn = FALSE, !.mutex = "free"]
  /\ wrapper' = [wrapper EXCEPT !.at = "closed"]
  /\ UNCHANGED <<tempsBuild, reading, pm, killed>>

\* ... and takes the flag back.
CleanupEnds ==
  /\ wrapper.at = "closed"
  /\ wrapper' = [initialized |-> FALSE, at |-> "down"]
  /\ UNCHANGED <<tempsBuild, smc, reading, pm, killed>>

(***************************************************************************)
(* GetTemperatures(), on the thread of the coordinator.                    *)
(***************************************************************************)
InRange(v) == v > 10 /\ v < 150

\* On Apple Silicon a look at the flag without the mutex: what is not ready answers
\* with a copy of what was kept, ...
ReadMac ==
  /\ Mac /\ reading.at \in {"idle", "done"}
  /\ reading' = IF ~wrapper.initialized THEN [Idle EXCEPT !.at = "done"]
                ELSE IF tempsBuild = "silicon" /\ ~smc.ready
                     THEN [Idle EXCEPT !.at = "copy", !.smc = smc.kept,
                                       !.torn = wrapper.at = "clearing"]
                ELSE [Idle EXCEPT !.at = "lock", !.todo = SmcKeys]
  /\ UNCHANGED <<tempsBuild, wrapper, smc, pm, killed>>

\* ... which may be anything if it met a clear().
Copied(r) ==
  /\ reading.at = "copy"
  /\ reading.torn \/ r = reading.smc
  /\ reading' = [reading EXCEPT !.at = "smc", !.smc = r]
  /\ UNCHANGED <<tempsBuild, wrapper, smc, pm, killed>>

\* Only Intel looks at the connection once it has the mutex; Apple Silicon goes by
\* the list of the keys.
LockSmc ==
  /\ reading.at = "lock" /\ smc.mutex = "free"
  /\ smc' = [smc EXCEPT !.mutex = "loop"]
  /\ reading' = IF tempsBuild = "silicon"
                THEN [reading EXCEPT !.at = "read", !.todo = smc.keys]
                ELSE [reading EXCEPT !.at = IF smc.conn THEN "read" ELSE "empty"]
  /\ UNCHANGED <<tempsBuild, wrapper, pm, killed>>

\* The sensors in range, averaged by group.
Averages(v) ==
  LET valid == {k \in DOMAIN v : InRange(v[k])}
      group(l) == {k \in valid : GroupOf[k] = l}
  IN  [temps |-> [l \in {GroupOf[k] : k \in valid} |->
                    MapThenSumSet(LAMBDA k : v[k], group(l)) \div Cardinality(group(l))],
       valid |-> Cardinality(valid)]

KeptAlways(r) == r
Kept(r) == IF r.valid >= Enough THEN r ELSE smc.kept

\* as_smc_read_temps: a good reading is kept, a poor one replaced by what was kept.
ReadTemps(v) ==
  /\ tempsBuild = "silicon" /\ reading.at = "read"
  /\ DOMAIN v = reading.todo
  /\ LET r == Averages(v) IN
     /\ smc' = [smc EXCEPT !.mutex = "free", !.kept = Kept(r)]
     /\ reading' = [reading EXCEPT !.at = "smc", !.todo = {},
                                   !.smc = IF smc'.kept.temps # <<>> THEN smc'.kept ELSE r]
  /\ UNCHANGED <<tempsBuild, wrapper, pm, killed>>

\* smc_read_temp, on Intel: each of the known keys for itself.
ReadKey(k, v) ==
  /\ tempsBuild = "intel" /\ reading.at \in {"read", "empty"} /\ k \in reading.todo
  /\ smc' = [smc EXCEPT !.mutex = "free"]
  /\ reading' = [reading EXCEPT
                   !.at = IF reading.todo = {k} THEN "smc" ELSE "lock",
                   !.todo = @ \ {k},
                   !.smc.valid = IF reading.at = "read" /\ v > 0 /\ v < 150 THEN @ + 1 ELSE @]
  /\ UNCHANGED <<tempsBuild, wrapper, pm, killed>>

\* What fills in: the sensors of the ARM PMU if the SMC gave none, those of HID if
\* there are less than two, the last of powermetrics, the battery.
Given(arm, hid, battery) ==
  LET n == IF tempsBuild = "intel" THEN reading.smc.valid ELSE Cardinality(DOMAIN reading.smc.temps)
      pmu == tempsBuild = "silicon" /\ n = 0 /\ arm > 0
  IN  (IF pmu THEN {"arm"} ELSE {})
      \cup (IF n + (IF pmu THEN arm ELSE 0) < 2 /\ hid THEN {"hid"} ELSE {})
      \cup pm.temps
      \cup (IF InRange(battery) /\ battery < 80 THEN {"battery"} ELSE {})

Supplement(arm, hid, battery) ==
  /\ reading.at = "smc"
  /\ reading' = [reading EXCEPT !.at = "done", !.more = Given(arm, hid, battery)]
  /\ UNCHANGED <<tempsBuild, wrapper, smc, pm, killed>>

\* Each reader of Windows has a handler of its own.
WindowsReaders == <<"CpuTempReader", "GpuInfo", "MemoryTempReader", "BoardTempReader",
                    "IntelOobmsmReader", "IntelMchbarReader", "RyzenSmuReader">>
ReadWindows(fails) ==
  /\ tempsBuild = "windows" /\ wrapper.initialized
  /\ reading' = [Idle EXCEPT !.at = "done",
                             !.got = SelectSeq(WindowsReaders, LAMBDA r : r \notin fails),
                             !.more = fails]
  /\ UNCHANGED <<tempsBuild, wrapper, smc, pm, killed>>

Apart(a, b) == a - b >= Near \/ b - a >= Near

\* The files of the thermal zones, then those of hwmon, whose value is one ...
ReadTempMillideg(v) == v > 0 /\ v <= 200

\* ... and of near values the first.
Deduped(files) ==
  LET deduped[n \in 0..Len(files)] ==
        IF n = 0 THEN <<>>
        ELSE LET before == deduped[n - 1] IN
             IF /\ ReadTempMillideg(files[n])
                /\ \A i \in DOMAIN before : Apart(files[n], before[i])
             THEN Append(before, files[n])
             ELSE before
  IN  deduped[Len(files)]

ReadLinux(files) ==
  /\ tempsBuild = "linux" /\ wrapper.initialized
  /\ reading' = [Idle EXCEPT !.at = "done", !.from = files, !.got = Deduped(files)]
  /\ UNCHANGED <<tempsBuild, wrapper, smc, pm, killed>>

(***************************************************************************)
(* The thread of powermetrics.                                             *)
(***************************************************************************)
\* Its pauses, 5 s at first and 30 s later, are not cut short by Cleanup().
PmLoop ==
  /\ pm.at \in {"warm", "pause"}
  /\ pm' = [pm EXCEPT !.at = IF pm.running THEN "start" ELSE "ended", !.batch = {}]
  /\ UNCHANGED <<tempsBuild, wrapper, smc, reading, killed>>

\* alarm(15) and popen().
PmStart(opens) ==
  /\ pm.at = "start"
  /\ pm' = [pm EXCEPT !.at = IF opens THEN "read" ELSE "pause"]
  /\ UNCHANGED <<tempsBuild, wrapper, smc, reading, killed>>

\* A line whose number is in range goes into the batch: the power of the CPU, in mW,
\* as well as its temperature.
PmLine(label) ==
  /\ pm.at = "read"
  /\ pm' = [pm EXCEPT !.batch = @ \cup {label}]
  /\ UNCHANGED <<tempsBuild, wrapper, smc, reading, killed>>

PmEnd ==
  /\ pm.at = "read"
  /\ pm' = [pm EXCEPT !.at = "pause", !.temps = IF pm.batch = {} THEN @ ELSE pm.batch]
  /\ UNCHANGED <<tempsBuild, wrapper, smc, reading, killed>>

\* The handler of SIGALRM was taken back at once, so its default action is due.
AlarmFires ==
  /\ pm.at = "read"
  /\ killed' = TRUE
  /\ UNCHANGED <<tempsBuild, wrapper, smc, reading, pm>>

FileLists == UNION {[1..n -> Degrees] : n \in 0..MaxFiles}

TempsNext ==
  /\ Alive
  /\ \/ \E opens, answers, tool \in BOOLEAN, there \in SUBSET SmcKeys :
           InitializeMac(opens, answers, there, tool)
     \/ InitializeOther \/ CleanupBegins \/ Close \/ ForgetKeys \/ ClearBegins \/ ClearEnds
     \/ CloseConnection \/ CleanupEnds
     \/ ReadMac \/ LockSmc
     \/ \E r \in {reading.smc, NoReading, Torn} : Copied(r)
     \/ \E v \in [reading.todo -> Degrees] : ReadTemps(v)
     \/ \E k \in SmcKeys, v \in Degrees : ReadKey(k, v)
     \/ \E arm \in 0..2, hid \in BOOLEAN, battery \in Degrees : Supplement(arm, hid, battery)
     \/ \E failing \in SUBSET Range(WindowsReaders) : ReadWindows(failing)
     \/ \E files \in FileLists : ReadLinux(files)
     \/ PmLoop \/ (\E opens \in BOOLEAN : PmStart(opens)) \/ PmEnd \/ AlarmFires
     \/ \E label \in {"CPU Power", "CPU Die"} : PmLine(label)

TempsSpec == TempsInit /\ [][TempsNext]_wvars

(***************************************************************************)
(* Properties.                                                             *)
(***************************************************************************)
\* On Apple Silicon nobody talks to the SMC over a connection that Cleanup() has
\* closed (on Intel, where Cleanup() does not lock, the loop may); what is kept is a
\* good reading or none, and while one is kept a reading of fewer sensors is not
\* shown in its place ("return last known good data"), unless the loop's copy of it
\* met the clear(), which only Cleanup() makes happen.  On Linux the values given
\* are apart, and none is left out that is near none of them.
TempsSound ==
  /\ tempsBuild = "silicon" =>
       /\ reading.at = "read" /\ reading.todo # {} => smc.conn
       /\ smc.kept # NoReading => smc.kept.valid >= Enough
       /\ reading.torn => wrapper.at \notin {"new", "up", "join"}
       /\ /\ smc.kept # NoReading /\ wrapper.initialized
          /\ reading.at \in {"smc", "done"} /\ ~reading.torn
          => reading.smc = smc.kept
  /\ tempsBuild = "linux" /\ reading.at = "done" =>
       /\ \A i, j \in DOMAIN reading.got : i # j => Apart(reading.got[i], reading.got[j])
       /\ \A k \in DOMAIN reading.from :
            ReadTempMillideg(reading.from[k]) =>
              \E i \in DOMAIN reading.got : ~Apart(reading.from[k], reading.got[i])

\* A powermetrics that takes too long is given up, no more ("SIGALRM timeout helper:
\* interrupt a blocking read", TemperatureWrapper.cpp).
SlowReadIsInterrupted == ~killed
==============================================================================
