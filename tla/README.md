# TCMT-M: a TLA+ verification project

TCMT-M collects hardware readings (CPU, memory, disks, network, temperature,
power) in a C++ process, shows them in a terminal UI, and publishes them to an
Avalonia (C#) client and to an MCP server through a local socket and a shared
memory block. This directory models the parts of it that are concurrent, that
fail half-way, or that depend on the order of events. TLC checks the models on
small instances; TLAPS proves the properties that matter most for every
instance. Paths below are relative to the repository.

Contents: [the system](#1-the-system) · [modules](#2-modules-and-how-they-correspond-to-the-code) ·
[runs](#3-runs-bounds-and-fairness) · [proofs](#4-proofs) ·
[disagreements](#5-where-code-and-intent-disagree) · [not modelled](#6-what-is-not-modelled-and-why) ·
[plan](#7-plan) · [how to run](#8-how-to-run-it)

## 1. The system

```
  devices ──► collector threads ──► ModuleData ──► main loop ──► shared block ──► Avalonia client
  OS events ► notifier threads ─┘        │             │            ▲  writeSequence   (C#)
                                         │             ├──► HistoryLogger ──► SQLite
                                         └─► TUI       └──► IPCServer ◄── socket ──► clients, MCP server
                        every thread ──► Logger ──► file, TUI ring buffer
```

| component | state | operations | interacts through | what is hard | what makes it correct |
| --- | --- | --- | --- | --- | --- |
| IPC server, POSIX (`src/core/IPC/IPCServer.cpp`) | `clients_`, `running_`, the listening socket, descriptor numbers | accept loop, one detached `HandleClient` per connection, `Stop()` | socket messages HELLO, HELLO_ACK, schema, ACK, PING, BYE, Shutdown; `clientsMutex_` | the descriptor is closed before its registry entry goes, so its number can be reused; `Stop()` closes descriptors under running handlers; SIGPIPE; a write to a client that does not read blocks, in `Stop()` under the mutex | handlers only use their own descriptor; one entry per handler; nothing left open; only a client that does not read can hold `Stop()` up |
| Shared block (`IPCData.h`, `main_mac.cpp`, `SharedMemoryManager*.cpp`, `main.cpp`, `IPCMemoryReader.cs`) | `writeSequence`, the fields | publish (two increments round the stores), `ReadWithSequence` (retry loop) | shared memory, no lock between processes | torn reads, counter wrap, exceptions and crashes between the increments, writes outside the protocol | a read that passes its check is of one instant; a read returns |
| Logger (`Utils/Logger.cpp`) | queue, worker's local vector, shutdown flag, the file, the TUI's ring buffer | `WriteLog`, the worker, `Flush`, `Shutdown` at static destruction | `logMutex`, a condition variable, vector swaps | swaps between three threads, a flag set outside the mutex, detached threads that still log | every entry once, in order, written in the end |
| History logger (`history/HistoryLogger.cpp`) | `pending_`, a transaction, the table | `WriteBatch`, `RunLoop`, `FlushBatch`, `RotateIfNeeded`, `Shutdown` | `mutex_`, SQLite | any of five SQLite calls fails, a kill at any point, two threads flushing | no row lost without a failure, batches atomic, stored rows stay until they expire |
| Module coordinator (`coordinator/*`) | `ModuleData`, dirty flags, stop tokens | six collector loops, callbacks, `Start`, `Snapshot`, `Stop` | atomics, `tempMutex`, callbacks on notifier threads | an event between a read and the store, or between the test of a flag and the sleep; teardown order | no event slept through, what is shown is current, snapshots of one sample, quiet after `Stop()` but for what no thread of it can join |
| System event monitor (`notifications/SystemEventMonitor.cpp`) | `running_`, the thread, its sources (macOS); a window and a pump thread (Windows) | `Start` with a 500 ms limit, `Stop`, the run loop, the thermal queue | run loop, window messages | a thread slower than the limit, a message in another thread's queue | a started monitor can be joined; `Stop()` returns and nothing calls back |
| ETW monitor (`etw/EtwMonitor.cpp`) | session and trace handles, `running_` | `Start`, `Stop`, `ProcessTrace` thread | a kernel object that outlives the process | stale sessions, a trace that ends by itself, a session the system refuses to stop | no dispatch after `Stop()`, no session without its handle unless it was refused |
| IPC server, Windows | pipes, one thread | `ServerLoop`, `HandlePipeClient` | named pipes | blocking `ConnectNamedPipe` | the schema reaches who connects |
| IPC client, C++ (`IPCClient.cpp`) | socket, mapping | `Connect` (socket, handshake, mapping), typed reads | socket, shared memory | reads ignore the sequence, take the width the caller asks for, and outlive the server | what it reads is what was written |
| Avalonia client (`AvaloniaUI/Services/Hardware`) | connection state, mapping, timers | connect with retries, receive loop, reconnect, timed reads through a mapper | socket, mapping, events on the UI thread | retries never backed off, reader closed under a read, reconnect after dispose; types and slots guessed from the content | it finds a server that comes back; what it shows follows the connection and the block; a disposed client ends; never reads an unmapped block |
| MCP server (`MCP/MCPServer.cpp`) | rate-limit window, `initialized_`, tools | `initialize`, `tools/list`, `tools/call`, `ping`, `shutdown` | stdin, stdout, C++ client | limit at its boundary, calls before initialisation, stale mapping | calls are limited, none before the session |
| Terminal UI (`tui/TuiApp.cpp`) | `running_`, its thread, the last data, the page of temperatures | `Start`, quit, `Stop`, `UpdateData`, the frame | atomics, a mutex, the log buffer | quit on its own thread, then `Stop()`; panels of variable length | its thread is joined and the terminal given back once; panels do not overwrite each other |
| Main programs (`main_mac.cpp`, `main.cpp`, `main_linux.cpp`) | the exit flag, counters and caches of the loop | start, one turn of the loop, signal handler, ways out, `--mcp`, `--json` | everything above | parts that fail, exceptions anywhere, Ctrl-C twice, a sample that reaches three sinks at different places | quitting ends the process or brings it to one of two known waits; the sinks get one validated sample |
| Set-up of the shared memory (`SharedMemoryManager*.cpp`) | mapping, names | create, write, remove | global names | an old block found again | slots say what was published |
| Device-change notifier (`DeviceChangeNotifier.h`) | one flag per device kind | callbacks set, `Poll` exchanges | atomics | a change during a scan, two flags for one device | no change lost |
| Temperature providers (`TemperatureWrapper.cpp`) | SMC connection, keys, last good reading, the powermetrics thread | `Initialize`, `GetTemperatures`, `Cleanup` | a mutex, an alarm | closing under a read; a cached vector copied without the lock; an alarm without a handler; sensors that drop out | no use of a closed connection, a good reading is not replaced by a bad one |
| Configuration (`ConfigManager.cpp`) | a JSON document and its file | `Load`, `Set*`, `AppendToArray`, `Save` | the file system | one temporary file for all `--json` processes, perhaps one that cannot be removed | a document is a process' own |
| User notifications, other providers, sensors, platform wrappers | devices | queries | — | little: sequential or the hardware's | — |

PROJECT.json lists the hazards of this code at their lines, with the
properties that would catch each.

## 2. Modules and how they correspond to the code

| module | models | a step is |
| --- | --- | --- |
| `IpcServer` | accept thread, handlers, registry, descriptor table, `Stop()`, and a client per connection | one system call or one hold of `clientsMutex_`; `Stop()` holds it over its writes, a step each |
| `IpcServerProofs` | proofs about it | |
| `AvaloniaClient` | the client on macOS: pipe task, mapping, posted notifications, UI timer, Reconnect; the server as one connection sees it | one await, one change of the mapping, one post, one UI handler (a tick has a beginning and an end) |
| `BlockSnapshot` | the abstract promise of the shared block: one value that changes at once, a read returns a value it had during the read | |
| `Seqlock` | the publisher and one `ReadWithSequence`, a word at a time; implements `BlockSnapshot` | one load or store of a word |
| `SeqlockProofs` | proofs about it, refinement included | |
| `Logger` | `WriteLog`, worker, `Flush`, `Shutdown`, `LogBuffer` | one hold of `logMutex` or one file write |
| `LoggerProofs` | proofs about it | |
| `BatchStore` | the abstract promise of the history: rows wait in order, leave from the front a call at a time for the table or for nowhere, and stay in the table until they expire | |
| `HistoryLogger` | queue, worker, both users of `FlushBatch`, retention, `Shutdown`, kill and restart; implements `BatchStore` | one hold of `mutex_` or one SQLite call |
| `Coordinator` | the collector loops, callbacks, `Snapshot`, `Start`, `Stop` | one atomic access, one device read, one hold of `tempMutex` |
| `CoordinatorProofs` | proofs about it | |
| `SystemEventMonitor` | macOS: owner, run-loop thread, thermal queue | one look at `running_`, one callback |
| `EventWindow` | Windows: owner, hidden window, message queues, pump | one message or one join |
| `EtwMonitor` | owner, trace thread, the system's session | one API call |
| `Threads` | a sum: one of `HistoryLogger`, `Seqlock` (with every fault), `AvaloniaClient`, `SystemEventMonitor`, `EtwMonitor` runs | a step of that module |
| `HistoryProofs` | proofs about the history logger in that sum, refinement included | |
| `ThreadsProofs` | proofs about the client and the two monitors in it, and the ranges of history, block and client | |
| `Program` | the three `main()`s: start, loop, exit, static destructors; `TuiApp`'s thread; Ctrl-C; the device notifiers | one part started, one section of the loop, one stage of the exit |
| `ProgramProofs` | proofs about it | |
| `Sample` | one turn of each loop: caches, validation, exceptions, and what the TUI, the block and the history get | one section of the loop |
| `Schema` | the fields both builds declare, the readers of the Avalonia client and its mapper, those of the C++ client and the MCP tools | one field read |
| `Block` | the slots of the lists in the block, the two publishers, the rows the mapper makes | one publication, one field read |
| `Temps` | `TemperatureWrapper` on macOS (both processors), Windows, Linux | one stage of `Cleanup()`, one look or copy outside the SMC mutex, one hold of it, one source of temperatures, one line of powermetrics |
| `Screen` | the rows of a frame of the TUI | one frame |
| `Mcp` | `IPCClient::Connect`, the requests of `MCPServer`, the tools of each build | one step of the handshake, one request |
| `OneShot` | `--json`: `ConfigManager` and the temporary file, several processes | one section, one file operation |
| `Readings` | a sum: one of `Seqlock` (without faults), `Schema`, `Block`, `Sample`, `Screen`, `Temps`, `Mcp`, `OneShot` runs | a step of that module |
| `Selection` | `SelectSeq` as a recursive function, which can be reasoned about | |
| `ReadingsProofs` | proofs about `Mcp`, `Temps`, `Screen`, `OneShot`, `Block`, `Sample` and `Schema` in that sum | |
| `MC*` | the names a cfg needs that cannot be written in it | |

`map` in PROJECT.json gives the source lines of every definition. Operators
marked external model a system call or a library from the way the code uses
it. Definitions introduced by "mutant" are not part of any specification: each
is a plausible slip in one definition, kept to show that a property notices it.

The main abstractions:

* **IpcServer.** A connection is a value, a message is its type. `owner` is the
  descriptor table; `Foreign` stands for files and sockets the rest of the
  process opens, which is what makes number reuse visible. Neither client of
  the repository sends PING or BYE; `Keepers` are clients that do, because the
  server implements both. A write to a closed peer ends the process: SIGPIPE is
  not ignored anywhere. The sockets block and have no timeouts. The schema, some
  15 KB, may fill the buffer of a connection (`full`; macOS gives an AF_UNIX socket
  8 KB), and so may one PONG too many; a write then waits until the client reads or
  goes, the handler's in `schema` or `rest`, `Stop()`'s in `telling` with
  `clientsMutex_`. A client reads when it likes (`ClientRead`). Partial reads of a
  message are left out, and of partial writes all but the schema's.
* **AvaloniaClient.** Blocks and connections are named by the life of the server
  they belong to. `at` is where the pipe task is; the `using` of the socket makes
  every way out of an attempt a `Drop`. The server is the outside of `IpcServer`
  for one connection: which messages can be waiting, when the socket is closed,
  and which block has the name. A kill leaves the name. A reading that lost its
  mapping ends in data, in nothing or in the death of the process.
* **Seqlock.** The block is a set of words, a field a set of words read
  together. Platform differences are constants: `MayThrow`, `CatchBumps`
  (Windows' handlers complete the sequence, macOS' do not), `MayCrash`,
  `RawWords` (what `main.cpp` writes outside the protocol). Stores and
  loads are in program order: both publishers put release fences inside the two
  increments and the reader uses full barriers, and which orders weaker than
  these would do is not modelled.
* **Logger.** An entry is `<<thread, number>>`. `logMutex` is one step except
  where the worker has found nothing to do and has not gone to sleep yet.
* **HistoryLogger.** A row knows its call, its place in the batch and its day. The
  table `db` maps ids to rows; `lastId` is what AUTOINCREMENT counts.
  Time is `day` and `hourPassed`. Any SQLite call may fail; a failed BEGIN,
  INSERT or COMMIT is handled as the code handles it.
* **Coordinator.** What a device says is a version number. A collection is a
  read, then a store; a callback is a store, then a flag. Only the fields of
  `ModuleData` that are several values from one sample are kept apart. A macOS
  monitor that is not ready in 500 ms counts as failed, but its detached thread goes
  on and calls back (`strays`); the thermal notification is a block on a queue of
  its own (`thermal`), which `Stop()` does not wait for.
* **SystemEventMonitor, EventWindow, EtwMonitor.** Which kind of event arrives
  makes no difference to them and is left out. Device and network contents are
  in `Coordinator`. `ControlTraceW` may refuse to stop a session, before a start or
  in `Stop()`; the code ignores its result, and `refused` remembers it for the property.
* **Sums.** `Threads` and `Readings` choose a part in the initial state; the part
  then takes the steps of its module and the others stay as they start, with a
  single initial state each. Their states are as many as those of the parts
  together, not multiplied, and a property of one part holds of the sum exactly
  if it holds of the part's own specification. Fairness is stated for the part
  that runs. Nothing is claimed of two parts at once; the modules of a sum share
  no state.
* **Program.** A part is a name; what matters of it is whether `main()` goes on
  without it, gives up at once, or gives up through `SafeExit()`. The devices are a
  generation for USB and one for Bluetooth; a scan returns the present one or
  throws. After `return` or `exit()` come the static destructors, of which
  `LogTerminator` joins the log's worker. Two waits on the way out belong to other
  modules and are places here: the write of `IPCServer::Stop()` to a client that does
  not read (`IpcServer`), and that join when the worker has missed its wake-up
  (`Logger`).
* **Sample.** A quantity is in range, out of it or not a number. The order of the
  sections is that of each `main()`. Windows gives the TUI its GPU fields only if the
  list of cards is not empty, while block and history get a name that stands for no
  card and a usage: `OnScreen` is what the TUI makes of the data, `NoData` what an
  exception in the section leaves.
* **Schema.** A field is its declared type and the type it is read as; a read is
  right, reads other bytes, or finds nothing. Numbered fields of a list are one.
* **Block.** A row is the item it came from; a name is two characters, so that a
  short name over a long one can be told. The client is followed only while the
  block does not change its meaning: what happens across a publication is
  `Seqlock`'s and, field by field, nobody's promise.
* **Temps.** Degrees are a few integers. The values of the Windows readers and of
  what fills in on macOS are names. `Cleanup()` is its steps: the flag and the keys
  under the mutex, the `clear()` of the kept reading with a beginning and an end, the
  connection. On Apple Silicon a read that finds the flag down copies the kept
  reading without the mutex: a copy that meets the `clear()` gives the old value,
  nothing, or `Torn`. One that has the mutex reads the keys there are and looks at
  no connection: that the keys are gone is all that keeps it from a closed one.
* **Screen.** Rows and columns are counted, text is not.
* **Mcp.** Time is a tick and `Window` ticks are a second. Where a tool's numbers
  come from is modelled, not the numbers.
* **OneShot.** A file is a content of its own, the name leads to one: a process can
  go on writing a file that another has removed. A file of another user stays in the
  sticky `/tmp` (`Removed`); `std::remove`'s result is ignored and it is loaded. A
  document cut short does not parse and is empty to `Load()`.

## 3. Runs, bounds and fairness

| run | instance | states | shows |
| --- | --- | --- | --- |
| `ipc_server` | 2 connections, 2 descriptor numbers, 1 PING | 2.6 M | `OwnDescriptor`, `HandshakeOrder`, `RegistryAccounting`, `NothingLeftOpen`, `StopReturns` |
| `logger` | 2 threads × 2 entries, 1 flusher, exit at any time | 0.4 M | `EveryEntryOnce`, `FileInOrder`, `LoggedIsWritten` |
| `coordinator` | power and temperature loops, one notifier, 1 change each, 1 failing collection, 1 snapshot, a monitor given up, 1 thermal block | 0.9 M | `NoEventSleptThrough`, `ShownIsCurrent`, `SnapshotOfOneSample`, `QuietAfterStop`, `ChangeIsShown` |
| `program` | three platforms, USB scan every 3rd loop, WiFi every 2nd, 1 change, 1 exception, 2 Ctrl-C | 0.5 M | `TerminalGivenBack`, `QuitEnds`, `LatestDevicesSeen` |
| `threads` | history: 3 calls of 1 or 2 rows, limit 2, 2 days, 1 kill; block: 2 words, exceptions, crashes, raw writes; client: 2 lives, 2 missed ticks, 3 waiting notifications; macOS monitor: 3 looks of the 50, 3 events; ETW: 3 starts, 2 events | 0.1 M | `TypeOK` of the first three · `NothingLost`, `BatchAtomic`, refinement of `BatchStore` · `ReadReturns` · `MappedNotOlder`, `ConnectsAgain`, `ConnectedHasData`, `ShutdownIsFinal` · `NoCallbackAfterStop`, `SessionInReach`, `StopsReturn` |
| `readings` | lock: 3 words, 2 overlapping fields, counter modulo 8, 6 increments during a read; slots: 2 of 3 items; temperatures: 4 keys, 4 degrees, 3 files; MCP: limit 2 in 2 ticks, 2 servers; `--json`: 2 processes, 2 sections; screen: 20, 24 and 60 rows, lists of 0 or 8, 0, 7 or 13 sensors | 0.9 M | `NoTornRead`, `ParityMarksWriting`, refinement of `BlockSnapshot` · `MappedAsWritten` · `PublishedIsShown` · `SinksGetSample` · `TempsSound` · `LogFitsBetween` · `CallsAreLimited` · `OwnDataPrinted` |
| `avalonia_close`, `logger_wakeup`, `event_window_stop`, `program_quit`, `block_slots`, `temps_alarm` | | | the counterexamples of section 5 |

Why the bounds are enough:

* Two connections and two numbers are the least for which a number is reused
  while its old entry is still listed and another connection is open. The
  proofs cover any number of both.
* Two lives are the least for a mapping, a connection and a name that belong to
  different ones; three give nothing new (0.2 M states, checked once). Two missed
  ticks stand for five: a limit that is reached and one that is not. Three
  notifications are what one connection posts.
* Three words and two overlapping fields make a field both smaller than the
  block and torn in more than one way. `MaxLag < Modulus` says that fewer than
  2^32 increments happen during one attempt to read; at two publishes a second
  that is over thirty years. The proofs cover every block and every modulus.
* A worker, a flusher and a shutting-down thread with two entries from each of
  two threads meet in every combination of full and empty vectors.
* One kill and one failure of each SQLite call at any point; a row written before
  midnight expires after it (a retention of 0 days over 2, which is one of 30
  over 32 with the same boundary).
* Power is the collector with the richest protocol (two flags, two callbacks, a
  store by the callback itself); temperature is the only one with a lock. The
  other loops are these with fewer flags. One change is enough to be missed, and
  one failing collection to be late.

* `ReadReturns` needs no two values of a word: what it could hang on is the
  sequence, which runs through all of its parities with one.
* One change of the devices, one exception anywhere and two signals: a change is
  lost, if at all, by the flag, the counter and the scan it meets, all of which
  one exception can disturb. The scan intervals are unequal, as in the code.
* Two slots for three items: a list shorter than before, as long, longer, and too
  long. Two lengths of names make an overwritten name visible.
* A terminal below the minimum of 24 rows, at it, and with room for everything;
  empty lists and lists that do not fit; sensors on no page, two and three pages.
* Four keys: two in one group, one in another, one hidden, so that a group can
  lose one sensor or all. Two of the degrees are closer than the limit, one is
  out of range.
* Calls at the boundary of a window need two windows; two servers are the least
  with which a mapping is that of an older one.
* Two processes with one name and the file of an earlier one.

No bound of a run is a counter of the code, except the retry limits of
`ReadWithSequence` and `Start()`, which are made smaller. Symmetry is not used.
Deadlock is not reported (`CHECK_DEADLOCK FALSE`): every system here ends, after
`Stop()`, a kill, or when a bound is reached. Hangs are what the liveness
properties are for.

Fairness:

* Threads that are runnable are scheduled: weak fairness of the accept loop
  (its `poll` returns every 500 ms), of the logger's and history's workers
  (timed waits), of the collectors and the run loop (timed sleeps), and of a
  main thread that has begun to stop.
* The client's pipe task and UI thread are scheduled. A posted notification is
  handled in the end although the timer ticks (strong fairness: the dispatcher
  serves its queue). A server that starts or stops finishes doing so and serves
  who connects; nobody has to start, stop or kill one.
* `tempMutex` is taken under strong fairness in `Coordinator`: the main thread
  takes it for short moments only and a waiting collector gets it in the end.
* In `Program` the main thread and the TUI's go on, and the system delivers its
  notifications; nobody has to press a key, and nobody has to end the
  two waits that are not the process' own (`Unblock` is not fair). `Readings` assumes nothing.
* Nothing is assumed of clients, which owe neither an answer nor a read, of strays
  and queued blocks, of the operating system's events, of handlers that may block in
  `read()` or `write()`, of SQLite calls succeeding, or of anybody calling
  `Stop()` or `Shutdown()`.
* `ProcessTrace` has to return only when its session or trace handle is closed.

## 4. Proofs

Checked by `tlapm` from nothing, without assumptions other than the named
`ASSUME`s on the constants, which say what the constants are: sets of names that
do not collide, limits and lengths that are natural numbers, and

* `ModulusAssumption` (`Seqlock`, and again in `Threads`): `MaxLag < Modulus`, an even
  counter; `BlockAssumption`: fields are sets of the block's words;
  `AttemptsAssumption`: one attempt and one look at least;
* `LoopsAssumption`, `NotifiersAssumption` (`Coordinator`): the code's six loops
  and two notifiers at most; `LoggerAssumption`: the ring buffer holds a line;
* `SizesAssumption` (`Threads`): no empty call, which `WriteBatch` turns away;
  `RetentionAssumption`: a number of days; `BoundsAssumption` (and in `Coordinator`):
  the bounds are natural numbers;
* `PlatformsAssumption` (`Program`), `SampleAssumption`, `SchemaAssumption` (`Readings`):
  the builds are those there are, three of the programs and two that publish a block;
* `OneShotAssumption`, `SlotsAssumption`, `TempsAssumption`, `ScreenAssumption`
  (`Readings`): items and keys are none of the marks for "nothing", a good reading
  has a sensor at least, degrees are integers, a column has a width.

Every assumption is evaluated in the run of its module. A theorem about a part of a
sum is stated of the sum's specification: steps of the other parts leave the
variables of the part alone.

| module | theorem | states |
| --- | --- | --- |
| `IpcServerProofs` | `TypeCorrect`, `HandlersOwnDescriptors`, `RegistryCounts`, `StopLeavesNothingOpen`, `HandshakeInOrder` | `TypeOK`, `OwnDescriptor`, `RegistryAccounting`, `NothingLeftOpen`, `HandshakeOrder` |
| `SeqlockProofs` | `TypeCorrect`, `ParityCorrect`, `NoTornReads`, `SeqlockImplementsBlock` | `TypeOK`, `ParityMarksWriting`, `NoTornRead`, the refinement |
| `LoggerProofs` | `NothingLostOrDoubled`, `WrittenInOrder` | `EveryEntryOnce`, `FileInOrder` |
| `CoordinatorProofs` | `EventsWakeCollectors`, `SleepersShowCurrent`, `SnapshotsConsistent`, `StopIsQuiet` | `NoEventSleptThrough`, `ShownIsCurrent`, `SnapshotOfOneSample`, `QuietAfterStop` |
| `HistoryProofs` | `StoredInOrder`, `BatchesAreAtomic`, `RowsKept`, `HistoryIsStore` | `NothingLost`, `BatchAtomic`, `StoredUntilExpired` (checked by no run: `ImplementsStore` says more), `ImplementsStore` |
| `ThreadsProofs` | `NoCallbacksLeft`, `SessionsInReach`, `NewestBlockMapped`, `RangesKept` | `NoCallbackAfterStop`, `SessionInReach`, `MappedNotOlder`, `TypeOK` |
| `ProgramProofs` | `TerminalReturned` | `TerminalGivenBack` |
| `ReadingsProofs` | `CallsLimited`, `TemperaturesSound`, `LogFits`, `OwnPrinted`, `PublishedShown`, `SinksAgree`, `FieldsMapped` | `CallsAreLimited`, `TempsSound`, `LogFitsBetween`, `OwnDataPrinted`, `PublishedIsShown`, `SinksGetSample`, `MappedAsWritten` |

`IpcServerProofs` (any set of connections, finite or not, any descriptors):

* `TypeCorrect`: `TypeOK` is inductive as it stands. The two steps that need
  an argument are erasing an entry (`EraseTyped`, on `find_if` and `erase`) and
  the broadcast (`BroadcastTyped`).
* `HandlersOwnDescriptors`: `OwnDescriptor` is not inductive: `Register` starts
  a handler on the number that was accepted, and closing a descriptor might take
  that of a connection still to be registered. `Accepting` says whose the
  accepted number is, `Joined` that after `Stop()` has joined the accept thread
  nothing is accepted. `IInv` is the conjunction.
* `RegistryCounts`: `Counted` states the accounting with the finiteness that
  counting needs: the positions of the entries with a number are as many as
  the handlers that owe an erase of it. `ErasedCount` gives a bijection between
  the positions before and after an erase; `Register` and `Erase` add and remove
  one on both sides; no other step changes either.
* `StopLeavesNothingOpen`: `Known` says that an open descriptor of a connection
  is held by its handler or has just been accepted. When `Stop()` closes what
  the registry lists nothing is being accepted, so its handler owes an erase, so
  by `Counted` the registry lists the number.
* `HandshakeInOrder`: `Said` ties the place of a handler to how many messages its
  connection has been sent, the n-th being what the handshake says n-th. It needs
  `IInv`: only because a handler's number is its own does its write reach
  its own connection.

`SeqlockProofs` (checked by TLC in the run `readings`, its `TypeOK` with all faults in `threads`;
any block, field, counter width and retry limit):

* `TypeCorrect`, on every platform; `ParityCorrect` and `NoTornReads`
  where every publish completes its sequence; and
  `SeqlockImplementsBlock`, the refinement, without exceptions, crashes and raw
  writes. The strengthening is `CopyFollows` (the words copied so far are the
  block's as long as the sequence has not moved; if it has, by how much) and
  `BlockHolds` (what is in the block between and during publishes).
  `MaxLag < Modulus` is used in one place: a sequence that has moved is not back
  where it was.

`LoggerProofs` (any threads, flushers and number of entries):

* `NothingLostOrDoubled`: the accepted entries are in the three vectors and the
  file, each at one place (`Whole`, by the operator `Exactly`). The lemmas on
  `Exactly` say what moving a vector, appending an entry and dropping the first one
  do to it. `Numbered` ties the entries to the threads' counters, so that a new one
  is new.
* `WrittenInOrder`: `Alone` says that before `Flush()` and the exit nobody but the
  worker takes entries, and that its hands are empty when it takes the next batch.

`CoordinatorProofs` (any of the loops and notifiers, any number of changes, failures
and snapshots):

* `EventsWakeCollectors`: `NoneMissed` says that while more has been reported of a
  source than its loop had seen when it last began, one of its flags is up or the
  loop is about to begin again. It needs `PastOnly`: nothing reported, queued or
  being called back is newer than the device, so a loop that begins has seen it.
* `SleepersShowCurrent` adds `Recent`: what a loop has read, and then what it has
  stored unless a collection threw, is not older than when it began.
* `SnapshotsConsistent`: `SampleWhole` says that list and scalars are of one sample
  except while the temperature loop is between the two, which `Places` says it is only
  with `tempMutex`, and what a snapshot has taken of them so far.
* `StopIsQuiet` is an action property, from `Places`: after `Stop()` no loop and no
  callback is anywhere it could change something, unless its notifier was given up as
  not started; the thermal flag, whose block may still be queued, is left out of what
  has to be quiet.

`HistoryProofs` (any batch sizes, queue limit, retention, days and kills):

* `StoredInOrder`: `Stored` says that table, batches and queue, one after the other, are
  what was queued, while no flush has failed and no row could expire. `Control` says
  that never both threads flush, so that the two batches have an order.
* `BatchesAreAtomic`: `Complete` says that in the table, in a batch and in the queue no
  row is without the others of its call; `Queued` and `Numbered` that a call's number
  is its own. Retention does not split a call: its rows have one day.
* `RowsKept` is an action property, from `Shape` and what `RotateIfNeeded` deletes.
* `HistoryIsStore` is a refinement. The abstract queue is the worker's batch, then the main
  thread's, then `pending_`; the abstract table is the table as committed. Taking a batch,
  BEGIN and the inserts do not show; a commit is `StoreFront`, a failure or a kill
  `LoseFront`. That a batch is the front of the queue is `Control` (never two batches);
  that no call is cut in two by its leaving is `Apart`: no call has rows both in a batch
  and behind it, since a call is queued and a batch is taken in one hold of `mutex_`. The
  lemmas on sequences say what stays of the queue when its front goes.

`ThreadsProofs` (any number of retries, starts, events and server lives): one
invariant per part. `MonitorInv`: `Start()` gives its thread up only when time is
over. `EtwInv`: `running_` is set exactly while the trace thread is there, and a
session this process started has its handle unless the system refused to stop it. `ClientInv`: the name is that of no
block or of one not older than the connection, and that is what is mapped. `RangesKept`
adds to these `HistoryRanges` (a thread that inserts is within its batch, so the
place it inserts at cannot leave it) and `LockRanges` (a publish leaves room for its own
second increment: a lag at its bound is never exceeded).

`ProgramProofs` (any scan intervals, any number of changes, exceptions and signals):
`TerminalReturned` rests on the order in which each `main()` starts and stops its parts.
`AfterIs` gives the place that follows another in a list that names each place once;
`StartGoes`, `LoopGoes` and `ExitGoes` say what that means for the three programs: start
never turns back, the loop stays in the loop, the way out passes by the stops of the terminal
interface and of the history before it can return. `Curses` ties curses and the
calls of `endwin()` to where the thread is, `Place` says where `main()` can be while the
thread has not been started and where after that, and `Returned` what holds once it has
returned.

`ReadingsProofs`:

* `CallsLimited` (any limit, any window): `TwoWindows` splits the calls remembered into
  those of the window before and those of the present one; neither are more than
  the limit, and the older ones are too old when the window after next begins.
* `TemperaturesSound` (any keys, groups, files and degrees): `MutexInv` says who holds the
  SMC mutex while a read or `Cleanup()` is under way, and that as long as a key is to be
  read the connection is there, since `Cleanup()` takes the keys first and under the
  mutex; `KeptInv` that what is given is what is kept, unless the copy met the `clear()`;
  `LinuxInv` uses `DedupedIsGood`, what removing near duplicates computes for every
  list of files.
* `LogFits` (any terminal and any lists): `WidthsGrow`, `CutNameFills` and
  `ColumnIsInt` bound the rows and columns taken; `ScreenInv` is the property with
  the ranges of what is drawn.

* `OwnPrinted` (any processes and sections): `OwnOnly` says what a process that runs
  alone has in its document and what the file of its name holds, from `RemoveTmp` to
  `Prints`, what another has left and could not be removed included (`RowAdded`: rows are
  only put behind); `ShotInv` adds that of two that run neither is alone.
* `PublishedShown` (any capacity, items and lists): `SlotsOk` is what a publication
  leaves in every slot, whatever was there; `ReadOk` the same of the fields before the
  client's cursor while the block says the same.
* `SinksAgree` (every build): `SampleSound` says that what Windows has validated is in
  range, until the next turn gathers anew; `SampleShared` that from the TUI's section to the
  end of the turn the sample changes no more, and `Shown` what of it the TUI shows. `StepAfter` is the order of the sections
  in each loop: one moved behind a sink would break it.
* `FieldsMapped` (every declared field and every client): `MacTypes`, `WindowsTypes`,
  `AskedIs` and `ToolsRead` give the types declared and asked for, table by table, from
  `FieldsApart` (no field is in two sets of fields); `ReadEqual`, `ReadNarrower`, `MapOne`
  and `MapTwo` what comes of reading a field of one type as another.

Recursive functions (`Selected`, `Deduped`, the widths of a name) are reasoned about
without the library's induction theorems. `Least` gives the smallest number
with a property, `PrefixRecursion` that a function defined along a list exists and is what it
says, `PrefixInduction` that what holds of the empty prefix and is kept by one more
element holds of the list: the induction hypothesis is a set, not an operator.

Only model-checked:

* the liveness properties: `StopReturns`, `LoggedIsWritten`, `ChangeIsShown`, `QuitEnds`,
  `LatestDevicesSeen`, `ReadReturns`, `ConnectsAgain`, `ConnectedHasData`, `ShutdownIsFinal`
  and `StopsReturn`. TLAPS reasons neither about fairness nor about ENABLED here.

Every invariant, action property and refinement that a passing run checks is a theorem.

## 5. Where code and intent disagree

Six runs expect a counterexample:

* `avalonia_close`: the comment at `IPCService.cs:56` says that the memory reader
  is closed "so timer stops reading stale data". Closing it does not stop a tick
  that is under way on the UI thread: the readers do not take `_lock`, and go on
  with a pointer the pipe task has unmapped, or with no schema.
* `logger_wakeup`: `Logger::Shutdown()` sets its flag and notifies without the
  mutex (`Logger.cpp:389`); both can fall between the worker's test and its
  sleep, and the join waits until somebody logs once more.
* `event_window_stop`: on Windows the window belongs to the thread that calls
  `Start()` and later joins the pump, so the posted WM_CLOSE is never read
  (`SystemEventMonitor.cpp:559`).

* `program_quit`: the quit key clears `running_` on the TUI's own thread, so
  `Stop()` (`TuiApp.cpp:80`) returns before its join, and the destructor of the
  joinable thread ends the process by abort(): `q` on macOS and Linux.
* `block_slots`: `main_mac.cpp:1079` says "only connected" adapters. The slot of one
  that is not connected any more keeps its content if it is past the end of the
  new list, and no schema carries the count. Disks and sensors likewise.
* `temps_alarm`: the handler that is to "interrupt a blocking read"
  (`TemperatureWrapper.cpp:946`) is taken back three lines later, before any alarm
  is set; a powermetrics that takes longer than 15 s ends the process.

Others were met while modelling. The models contain them, the properties are
stated so as not to hide them, and the hazards in PROJECT.json name the lines:

* After an invalid HELLO, or a client that closes before its greeting,
  `HandleClient` returns without erasing the entry (`IPCServer.cpp:438`). The
  client count never returns to zero; `RegistryAccounting` says which entries
  stay.
* `main.cpp:1730` writes WiFi and Bluetooth fields while the sequence is even
  (`WriteRaw` in `Seqlock`); the protocol document says readers rely on its
  parity. `NoTornRead` is checked and proved where that is not done.
* `ReconnectAsync` disposes the `IPCService` and starts it again, which a
  disposed service refuses: the button disconnects for good. After a Shutdown
  the pipe task ends for good too, and a server started later is not found.
* `DataReady` sets `IsConnected` without the event the window listens to
  (`HardwareMonitorService.cs:44`). After a tick in the middle of a handshake the
  window goes on saying disconnected while data arrives. `ConnectsAgain`
  therefore speaks of the service.
* When the ACK cannot be written nothing closes the mapping: if no server comes
  back, the last values stay on display as connected. `ConnectedHasData` speaks
  of a mapping, not of its freshness. A disposed client may be left with a mapping
  in the same way.
* `SchemaMessage.IsValid` compares the version, so the branch of
  `OnSchemaReceived` that keeps the connection on a mismatch (`IPCService.cs:83`)
  is never reached: the client rejects and connects again at once, for ever.

* A connection accepted after `Stop()`'s broadcast is closed without Shutdown;
  Shutdown can also arrive between HELLO_ACK and the schema.
* A client that says HELLO and does not read can stop the server's `Stop()` for good:
  its write of Shutdown (`IPCServer.cpp:393`) waits for room in the buffer and holds
  `clientsMutex_`, which every handler's end and every accept need. `StopReturns` says
  that nothing else can. The way out of macOS' and Linux' `main()` passes through it.
* When a number is reused before its old entry goes, the client type is stored
  in the first, stale entry.
* On macOS an exception between the increments, and on Windows a crash, invert
  the parity for good: from then on a publish under way has an even sequence.
  `ParityMarksWriting` holds, and is proved, where that cannot happen.
* `Flush()`, which has no caller, writes the stream while the worker may.
* An entry queued between the worker's swap and its look at the shutdown flag
  makes the worker swap it back and forth for ever; one queued after the last
  drain is never written.
* A failed flush of the history drops its batch without a retry or a log line.
* `Stop()` of the system event monitor has nothing to join if `Start()` gave the
  thread up, whose callbacks then go on into `ModuleData` after the coordinator's
  `Stop()`; and a queued thermal block may run after the monitor is gone.
  `QuietAfterStop` excepts these two and nothing else.
* When `ProcessTrace` ends by itself `Stop()` returns early and leaves the
  session running; `SessionInReach` says that at least its handle is kept. When
  `ControlTraceW` refuses to stop a session its handle is cleared all the same
  (`EtwMonitor.cpp:161`), and until the next successful `Start()` it is out of reach.
* CPU frequencies are stored by two loops from two sources.

Of the parts added last:

* Main programs: the wake-up that `Logger::Shutdown()` may lose keeps a `main()` that
  has returned in its static destructors; on Windows `q` closes the TUI only and the loop goes on without
  it; USB is scanned only while the history logger runs; `SafeExit()` calls exit()
  with the coordinator's threads alive. macOS never hears of a device that goes
  (`termIterator_` is never drained), so its periodic scan has to find out.
  Bluetooth's `Detect()` has no periodic repetition where there is a notifier: one
  that throws loses the change.
* Sample: a usage that is not a number passes the validation, both comparisons
  being false; a GPU that is not NVIDIA's is cached with its first usage for good;
  Windows' memory percentage of the GPU is a clock without NVML; and without a card,
  or after an exception in its section, Windows' TUI gets no GPU fields (`main.cpp:1608`)
  where the block gets "No GPU detected" or "Failed to get GPU info" and the history a usage.
* Schema: the MCP tools of macOS ask for Float64 where the block has Float32 and
  get half of the bits: `ReadNumeric` "zero-extends" reals too (`IPCClient.cpp:253`).
  The Avalonia mapper asks for `phys/*/temperature` and `cpu/sampleIntervalMs` (macOS),
  `phys/*/health` and `os/version` (Windows) in the other build's type only and
  shows nothing. `MappedAsWritten` excepts exactly these.
* Block: `InitSharedMemory` of a second Windows instance may erase what the first
  has published. Physical disks on macOS keep a longer name's tail and old
  attributes.
* MCP: the process keeps the mapping of a server that stopped; `--mcp` without a
  running instance never initialises `TemperatureWrapper` on macOS and Linux, so
  `get_temperatures` gives null; Windows' pipe server sends its schema at once, so
  the C++ client's handshake never succeeds there, and Windows' direct
  `get_gpu_status` is null; a `method` that is no string throws out of `Run()`.
  Twice the limit can pass in one second (`CallsAreLimited` says no more can).
* Temperatures: `Cleanup()` on Intel closes the SMC without the lock the reader does
  not take either; it waits up to 30 s for the powermetrics thread; `g_as_smc_ready`
  is read without the lock, and the cached reading copied without it while it is
  cleared (lines 813 and 1243: `Torn`); the CPU's power in mW goes into the list of
  temperatures (`PmLine`).
* Screen: a panel that begins above the reserved rows runs into them ("Content
  must not overflow into them", `TuiApp.cpp`), the page of the temperatures shown
  may be one that is gone, and a name cut inside a wide character is a column short.
* `--json`: two processes at once share the temporary file and may print each
  other's rows; `Load()` returns true without a file; what `std::remove` could not
  remove (`main_mac.cpp:261`) is loaded, and its rows are printed with those gathered.

## 6. What is not modelled, and why

* Windows' named-pipe server: its accepting thread holds no state others read, the
  handler of a connection has no caller, and `Stop()`, whose join could hang, is
  never reached because `exit()` runs no destructor of `main()`. The Avalonia
  client's side of that pipe, with its bounded retries, has no peer here either.
* Two instances of the program that share the names of socket and block at one
  time: the code does not claim to support them. Lives one after the other are in
  `AvaloniaClient` and `Mcp`.
* The POSIX `SharedMemoryManager`s and `Platform`'s `SharedMemory` and
  `InterprocessMutex`: no caller. Linux publishes no block.
* Providers (CPU, GPU, disk, network, USB, Bluetooth, WiFi, motion sensors) and the
  register accesses behind `TemperatureWrapper` query the operating system and the
  hardware; `Coordinator`, `Program`, `Sample` and `Temps` model when they are called
  and where results go.
* The settings of the configuration file are read into variables at the start;
  `refreshRate` is read by nobody.
* Colours and words of the screen, views, JSON text, log formatting, file rotation, configuration
  syntax: no property is about them.
* Memory orders weaker than program order, partial socket reads and writes,
  allocation failures.

## 7. Plan

Done, in this order: `IpcServer`, `Seqlock` with `BlockSnapshot`, `Logger`,
`HistoryLogger`, `Coordinator`, the notifiers, the proofs of `Seqlock` and
`IpcServer`, `AvaloniaClient`;
then `Program`, `Sample`, `Schema`, `Block`, `Temps`, `Screen`, `Mcp`, `OneShot`, and
the sums `Threads` and `Readings`;
then the proofs of `Coordinator`, `Logger`, `HistoryLogger`, the monitors, the client and
the parts of `Readings`; then `BatchStore` and its refinement, the ranges of the
parts of `Threads`, and the proofs of `Program`, `Sample` and `Schema`.

What could follow: a lifecycle (started, stopping, stopped) as an abstract specification
that `SystemEventMonitor` and `EtwMonitor` implement, and a log that is the sequence
of what was accepted, which `Logger` implements until `Flush()` or the exit takes part.

## 8. How to run it

    tlc -workers 2 -config IpcServer.cfg MCIpcServer     # any run: its cfg and module
    tlapm IpcServerProofs.tla                            # and SeqlockProofs, LoggerProofs,
                                                         # CoordinatorProofs, HistoryProofs, ThreadsProofs,
                                                         # ProgramProofs, ReadingsProofs

The larger runs take a minute or two each, and so does each proof module but the last,
which takes five.
