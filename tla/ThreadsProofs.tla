----------------------------- MODULE ThreadsProofs -----------------------------
(***************************************************************************)
(* Proofs about three of the parts of Threads: the system event monitor,   *)
(* the ETW monitor and the Avalonia client, for every number of retries,   *)
(* starts, events and servers.  Each part has an invariant of its own; the *)
(* steps of the other parts leave its variables alone.                     *)
(***************************************************************************)
EXTENDS HistoryProofs

-----------------------------------------------------------------------------
(* SystemEventMonitor.  Start() gives the thread up only when its time is  *)
(* over, and until then holds it; Stop() of a thread that is held joins    *)
(* it.  So when Stop() has returned and time was not over, the thread has  *)
(* ended.                                                                  *)

TimeOver == ~(retries < MaxRetries)

MonitorInv ==
  /\ pumping \in BOOLEAN /\ retries \in Nat
  /\ pumpOwner = "new" => ~pumping /\ pump = "none"
  /\ pumpOwner \in {"waiting", "deciding", "started"} => held
  /\ pumpOwner = "deciding" => pumping \/ TimeOver
  /\ pumpOwner = "started" => pumping
  /\ pumpOwner = "failed" => TimeOver
  /\ pumpOwner \in {"stopped", "destroyed"} => pump = "done" \/ TimeOver

(* The monitor starts within its invariant. *)
LEMMA MonitorInit == ASSUME Monitor!Init PROVE MonitorInv
  BY DEF Monitor!Init, MonitorInv

(* Only the run-loop thread's "signal" sets running_, and a thread that    *)
(* has ended stays so; the owner's variables are not the thread's.         *)
LEMMA MonitorLoop ==
  ASSUME MonitorInv, Monitor!RunLoopThread
  PROVE  MonitorInv'
<1> USE DEF MonitorInv, TimeOver, Monitor!ownerVars
<1>1. CASE Monitor!SetUp
  BY <1>1 DEF Monitor!SetUp
<1>2. CASE Monitor!SignalReady
  <2>1. pumping' /\ pumping' \in BOOLEAN
    BY <1>2 DEF Monitor!SignalReady
  <2> QED
    BY <1>2, <2>1 DEF Monitor!SignalReady
<1>3. CASE Monitor!TestRunning
  BY <1>3 DEF Monitor!TestRunning
<1>4. CASE Monitor!IdleSecond \/ Monitor!CallbackReturns \/ Monitor!CleanUp
  BY <1>4 DEF Monitor!IdleSecond, Monitor!CallbackReturns, Monitor!CleanUp
<1> QED
  BY <1>1, <1>2, <1>3, <1>4 DEF Monitor!RunLoopThread

(* Every step of the monitor keeps its invariant. *)
LEMMA MonitorStep ==
  ASSUME MonitorInv, Monitor!Next
  PROVE  MonitorInv'
<1> USE DEF MonitorInv, TimeOver
<1>1. CASE Monitor!RunLoopThread
  BY <1>1, MonitorLoop
<1>2. CASE Monitor!PostEvent \/ Monitor!PostThermal \/ Monitor!RunBlock
  BY <1>2 DEF Monitor!PostEvent, Monitor!PostThermal, Monitor!RunBlock, Monitor!ownerVars
<1>3. CASE Monitor!StartThread
  BY <1>3 DEF Monitor!StartThread
<1>4. CASE Monitor!WaitStep
  BY <1>4 DEF Monitor!WaitStep
<1>5. CASE Monitor!WaitEnds
  BY <1>5 DEF Monitor!WaitEnds
<1>6. CASE Monitor!Decide
  BY <1>6 DEF Monitor!Decide
<1>7. CASE Monitor!StopFlag
  BY <1>7 DEF Monitor!StopFlag
<1>8. CASE Monitor!StopMacOS
  BY <1>8 DEF Monitor!StopMacOS
<1> QED
  BY <1>1, <1>2, <1>3, <1>4, <1>5, <1>6, <1>7, <1>8
  DEF Monitor!Next, Monitor!Start, Monitor!Stop

-----------------------------------------------------------------------------
(* EtwMonitor.  running_ is set from the launch of the trace thread to its *)
(* end; so a Stop() that sees it clear has nothing to join, and one that   *)
(* sees it set joins.                                                      *)

EtwInv ==
  /\ tracing \in BOOLEAN /\ starts \in Nat
  /\ tracing <=> tracer \in {"launched", "tracing", "dispatching", "leaving"}
  /\ traceOwner \in {"opening", "launching", "stopped"} => ~tracing
  /\ tracing \/ traceOwner \in {"opening", "launching"} => starts > 0
  /\ session /\ starts > 0 => handle \/ refused

(* The monitor starts within its invariant, whether an earlier process     *)
(* left a session or not.                                                  *)
LEMMA EtwInit == ASSUME Etw!Init PROVE EtwInv
<1>1. ~tracing /\ tracing \in BOOLEAN
  BY DEF Etw!Init
<1> QED
  BY <1>1 DEF Etw!Init, EtwInv

(* Every step of the ETW monitor keeps its invariant. *)
LEMMA EtwStep ==
  ASSUME EtwInv, Etw!Next
  PROVE  EtwInv'
<1> USE DEF EtwInv
<1>1. CASE Etw!StartTrace
  <2>1. starts' \in Nat /\ starts' > 0 /\ UNCHANGED <<tracing, tracer>>
    BY <1>1 DEF Etw!StartTrace
  <2>2. traceOwner' = traceOwner \/ (traceOwner' = "opening" /\ ~tracing)
    BY <1>1 DEF Etw!StartTrace
  <2>3. session' => handle' \/ refused'
    <3>1. CASE tracing /\ UNCHANGED <<session, refused, handle>>
      BY <1>1, <3>1
    <3>2. CASE handle' = TRUE \/ session' = FALSE \/ refused' = TRUE
      BY <3>2
    <3> QED
      BY <1>1, <3>1, <3>2 DEF Etw!StartTrace, Etw!StopSession
  <2> QED
    BY <2>1, <2>2, <2>3
<1>2. CASE Etw!OpenTrace
  BY <1>2 DEF Etw!OpenTrace, Etw!StopSession
<1>3. CASE Etw!Launch
  BY <1>3 DEF Etw!Launch
<1>4. CASE Etw!BeginTrace
  BY <1>4 DEF Etw!BeginTrace
<1>5. CASE Etw!DispatchEvent \/ Etw!DispatchReturns \/ Etw!ProcessTraceReturns
  BY <1>5 DEF Etw!DispatchEvent, Etw!DispatchReturns, Etw!ProcessTraceReturns
<1>6. CASE Etw!ClearRunning
  BY <1>6 DEF Etw!ClearRunning
<1>7. CASE Etw!StopTest
  BY <1>7 DEF Etw!StopTest
<1>8. CASE Etw!CloseSession
  BY <1>8 DEF Etw!CloseSession, Etw!StopSession
<1>9. CASE Etw!JoinTrace
  BY <1>9 DEF Etw!JoinTrace
<1>10. CASE Etw!Again
  BY <1>10 DEF Etw!Again
<1> QED
  BY <1>1, <1>2, <1>3, <1>4, <1>5, <1>6, <1>7, <1>8, <1>9, <1>10
  DEF Etw!Next, Etw!Start, Etw!TraceThread, Etw!Stop

-----------------------------------------------------------------------------
(* AvaloniaClient.  The name belongs to no block or to one that is not     *)
(* older than the connection; that is the block OpenMemory maps.           *)

ClientInv ==
  /\ life \in Nat /\ named \in Nat /\ conn \in Nat /\ mapped \in Nat
  /\ conn <= life
  /\ server = "up" => named = life
  /\ named = 0 \/ conn <= named
  /\ at \in {"ready", "ack", "alive"} /\ ~disposed => conn <= mapped

(* The client starts within its invariant. *)
LEMMA ClientInit == ASSUME Client!Init PROVE ClientInv
  BY DEF Client!Init, ClientInv

(* Whatever the server does, the name does not go back to an earlier       *)
(* block.                                                                  *)
LEMMA ClientServer ==
  ASSUME ClientInv, Client!Server
  PROVE  ClientInv'
<1> USE DEF ClientInv, Client!clientVars
<1>1. CASE Client!ServerUnlinks
  BY <1>1 DEF Client!ServerUnlinks
<1>2. CASE Client!ServerListens
  BY <1>2 DEF Client!ServerListens
<1>3. CASE Client!ServerAccepts \/ Client!ServerGreets \/ Client!ServerStops
  BY <1>3 DEF Client!ServerAccepts, Client!ServerGreets, Client!ServerStops
<1>4. CASE Client!ServerEnds \/ Client!ServerCrashes
  BY <1>4 DEF Client!ServerEnds, Client!ServerCrashes
<1> QED
  BY <1>1, <1>2, <1>3, <1>4 DEF Client!Server

(* The steps of the pipe task: only OpenMemory comes to "ready", with the  *)
(* named block.                                                            *)
LEMMA ClientPipe ==
  ASSUME ClientInv, Client!Pipe
  PROVE  ClientInv'
<1> USE DEF ClientInv, Client!pipeKeeps, Client!serverVars, Client!Drop, Client!Remap
<1>1. CASE Client!LoopTest
  BY <1>1 DEF Client!LoopTest
<1>2. CASE Client!Connect
  BY <1>2 DEF Client!Connect
<1>3. CASE Client!ConnectFails \/ Client!HandshakeFails \/ Client!RejectSchema
           \/ Client!SendAckFails
  BY <1>3 DEF Client!ConnectFails, Client!HandshakeFails, Client!RejectSchema,
              Client!SendAckFails
<1>4. CASE Client!SendHello \/ Client!ReceiveHandshake
  BY <1>4 DEF Client!SendHello, Client!ReceiveHandshake
<1>5. CASE Client!OpenMemory
  BY <1>5 DEF Client!OpenMemory
<1>6. CASE Client!PostReady \/ Client!SendAck
  BY <1>6 DEF Client!PostReady, Client!SendAck
<1>7. CASE Client!LeaveKeepAlive
  BY <1>7 DEF Client!LeaveKeepAlive
<1>8. CASE Client!CloseMemory
  BY <1>8 DEF Client!CloseMemory, Client!Closed
<1>9. CASE Client!PostDisconnected
  BY <1>9 DEF Client!PostDisconnected
<1> QED
  BY <1>1, <1>2, <1>3, <1>4, <1>5, <1>6, <1>7, <1>8, <1>9 DEF Client!Pipe

(* Every step of the client and its server keeps the invariant. *)
LEMMA ClientStep ==
  ASSUME ClientInv, Client!Next
  PROVE  ClientInv'
<1> USE DEF ClientInv, Client!uiKeeps, Client!serverVars
<1>1. CASE Client!Server
  BY <1>1, ClientServer
<1>2. CASE Client!Pipe
  BY <1>2, ClientPipe
<1>3. CASE Client!HandlePosted \/ Client!TickBegins \/ Client!TickEnds
  BY <1>3 DEF Client!HandlePosted, Client!TickBegins, Client!TickEnds
<1>4. CASE Client!Reconnect
  BY <1>4 DEF Client!Reconnect
<1> QED
  BY <1>1, <1>2, <1>3, <1>4 DEF Client!Next

-----------------------------------------------------------------------------
(* Ranges.  The history logger's follow from HistoryProofs' invariant and  *)
(* from these: every row, wherever it is, was queued, by one of the calls  *)
(* there may be; a batch is inserted no further than its end.              *)

HistoryRanges ==
  /\ running \in BOOLEAN /\ notified \in BOOLEAN /\ dropped \in BOOLEAN /\ hourPassed \in BOOLEAN
  /\ workerPc \in {"top", "lock", "waiting", "flush", "exited"}
  /\ written \in Seq(History!Row) /\ day <= MaxDay /\ crashes \in 0 .. MaxCrashes
  /\ \A t \in History!Threads : flushPc[t] = "insert" => inserted <= Len(batch[t])
  /\ (\A t \in History!Threads : flushPc[t] \in {"idle", "begin"}) => inserted = 0

(* The ranges hold at first. *)
LEMMA HistoryRangesInit == ASSUME Init PROVE HistoryRanges
<1>1. << >> \in Seq(History!Row) /\ 0 \in 0 .. MaxCrashes /\ 0 <= MaxDay
  BY EmptySeq, BoundsAssumption
<1>2. running = TRUE /\ notified = FALSE /\ dropped = FALSE /\ hourPassed = FALSE
  BY DEF Init, History!Init
<1>3. running \in BOOLEAN /\ notified \in BOOLEAN /\ dropped \in BOOLEAN /\ hourPassed \in BOOLEAN
  BY <1>2
<1>4. /\ workerPc = "top" /\ written = << >> /\ day = 0 /\ crashes = 0 /\ inserted = 0
      /\ \A t \in History!Threads : flushPc[t] = "idle"
  BY DEF Init, History!Init
<1> QED
  BY <1>1, <1>3, <1>4 DEF HistoryRanges

(* The rows a call brings are in their range. *)
LEMMA WriteRanges ==
  ASSUME IInv, HistoryRanges, History!WriteBatch
  PROVE  written' \in Seq(History!Row)
<1> DEFINE c == History!Calls + 1
<1>1. PICK size \in Sizes : written' = written \o History!Rows(c, size)
  BY DEF History!WriteBatch
<1>2. c \in 1 .. MaxCalls
  BY CallsTyped, BoundsAssumption DEF IInv, History!WriteBatch
<1>3. day \in 0 .. MaxDay /\ size \in Nat
  BY SizesAssumption, BoundsAssumption DEF IInv, Shape, HistoryRanges
<1> HIDE DEF c
<1>4. \A n \in 1 .. size : [call |-> c, row |-> n, size |-> size, day |-> day] \in History!Row
  BY <1>2, <1>3 DEF History!Row
<1>5. History!Rows(c, size) \in Seq(History!Row)
  BY <1>3, <1>4 DEF History!Rows
<1> QED
  BY <1>1, <1>5 DEF HistoryRanges

(* A flush inserts no more than there is. *)
LEMMA FlushRanges ==
  ASSUME IInv, HistoryRanges, NEW t \in History!Threads, History!FlushBatch(t)
  PROVE  HistoryRanges'
<1> USE DEF History!runVars, History!flushVars, History!clockVars
<1>0. /\ Shape /\ Control /\ flushPc[t] # "idle"
      /\ UNCHANGED <<running, workerPc, notified, mainPc, pending, day, hourPassed, crashes, written>>
  BY DEF IInv, History!FlushBatch, History!Begin, History!Insert, History!Commit
<1>1. \A u \in History!Threads \ {t} : flushPc[u] = "idle" /\ batch[u] = << >>
  BY <1>0, OneFlushes
<1>2. dropped' \in BOOLEAN
  BY DEF HistoryRanges, History!FlushBatch, History!Begin, History!Insert, History!Commit,
         History!Rollback
<1>3. CASE History!Done(t)
  <2>1. inserted' = 0 /\ \A u \in History!Threads : flushPc'[u] = "idle"
    BY <1>0, <1>1, <1>3, DoneKeeps
  <2> QED
    BY <1>0, <1>2, <2>1 DEF HistoryRanges
<1>4. CASE History!Begin(t) /\ flushPc' = [flushPc EXCEPT ![t] = "insert"] /\ UNCHANGED <<batch, inserted>>
  <2>1. inserted = 0
    BY <1>1, <1>4 DEF HistoryRanges, History!Begin
  <2>2. flushPc'[t] = "insert" /\ \A u \in History!Threads \ {t} : flushPc'[u] = "idle"
    BY <1>0, <1>1, <1>4 DEF Shape
  <2>3. inserted <= Len(batch[t])
    BY <1>0, <2>1 DEF Shape
  <2>4. /\ \A u \in History!Threads : flushPc'[u] = "insert" => inserted' <= Len(batch'[u])
        /\ (\A u \in History!Threads : flushPc'[u] \in {"idle", "begin"}) => inserted' = 0
    BY <1>4, <2>2, <2>3
  <2> QED
    BY <1>0, <1>2, <2>4 DEF HistoryRanges
<1>5. CASE inserted < Len(batch[t]) /\ inserted' = inserted + 1 /\ UNCHANGED <<flushPc, batch>>
           /\ flushPc[t] = "insert"
  <2>1. inserted' <= Len(batch[t])
    BY <1>0, <1>5 DEF Shape
  <2> QED
    BY <1>0, <1>1, <1>2, <1>5, <2>1 DEF HistoryRanges
<1>6. CASE flushPc' = [flushPc EXCEPT ![t] = "commit"] /\ UNCHANGED <<batch, inserted>>
  <2>1. flushPc'[t] = "commit" /\ \A u \in History!Threads \ {t} : flushPc'[u] = "idle"
    BY <1>0, <1>1, <1>6 DEF Shape
  <2>2. /\ \A u \in History!Threads : flushPc'[u] = "insert" => inserted' <= Len(batch'[u])
        /\ (\A u \in History!Threads : flushPc'[u] \in {"idle", "begin"}) => inserted' = 0
    BY <2>1
  <2> QED
    BY <1>0, <1>2, <2>2 DEF HistoryRanges
<1> QED
  BY <1>3, <1>4, <1>5, <1>6 DEF History!FlushBatch, History!Begin, History!Insert,
                                History!Commit, History!Rollback

(* Outside a flush nothing is inserted. *)
LEMMA TakeRanges ==
  ASSUME IInv, HistoryRanges, NEW t \in History!Threads, UNCHANGED inserted,
         \A u \in History!Threads : flushPc[u] = "idle",
         History!Take(t) \/ UNCHANGED flushPc
  PROVE  /\ \A u \in History!Threads : flushPc'[u] = "insert" => inserted' <= Len(batch'[u])
         /\ (\A u \in History!Threads : flushPc'[u] \in {"idle", "begin"}) => inserted' = 0
<1>1. \A u \in History!Threads : flushPc'[u] \in {"idle", "begin"}
  BY DEF IInv, Shape, History!Take
<1> QED
  BY <1>1 DEF HistoryRanges

(* Every step of the logger keeps its ranges. *)
LEMMA HistoryRangesStep ==
  ASSUME IInv, HistoryRanges, History!Next
  PROVE  HistoryRanges'
<1> USE DEF History!runVars, History!flushVars, History!clockVars
<1>1. CASE History!WriteBatch
  <2>1. written' \in Seq(History!Row)
    BY <1>1, WriteRanges
  <2>2. notified' \in BOOLEAN
    BY <1>1 DEF HistoryRanges, History!WriteBatch
  <2> QED
    BY <1>1, <2>1, <2>2 DEF HistoryRanges, History!WriteBatch
<1>2. CASE \E t \in History!Threads : History!FlushBatch(t)
  BY <1>2, FlushRanges
<1>3. CASE History!Dequeue \/ History!Wake
  <2>1. \A u \in History!Threads : flushPc[u] = "idle"
    BY <1>3 DEF History!Dequeue, History!Wake, IInv, Control, Shape, History!Threads
  <2>2. UNCHANGED inserted /\ (History!Take("worker") \/ UNCHANGED flushPc)
    BY <1>3 DEF History!Dequeue, History!Wake
  <2>3. /\ \A u \in History!Threads : flushPc'[u] = "insert" => inserted' <= Len(batch'[u])
        /\ (\A u \in History!Threads : flushPc'[u] \in {"idle", "begin"}) => inserted' = 0
    BY <2>1, <2>2, TakeRanges DEF History!Threads
  <2>4. /\ workerPc' \in {"flush", "waiting"} /\ notified' = FALSE
        /\ UNCHANGED <<running, dropped, hourPassed, written, day, crashes>>
    BY <1>3 DEF History!Dequeue, History!Wake
  <2> QED
    BY <2>3, <2>4 DEF HistoryRanges
<1>4. CASE History!ShutdownFlush
  <2>1. \A u \in History!Threads : flushPc[u] = "idle"
    BY <1>4 DEF History!ShutdownFlush, IInv, Control, Shape, History!Threads
  <2>2. UNCHANGED inserted /\ (History!Take("main") \/ UNCHANGED flushPc)
    BY <1>4 DEF History!ShutdownFlush
  <2>3. /\ \A u \in History!Threads : flushPc'[u] = "insert" => inserted' <= Len(batch'[u])
        /\ (\A u \in History!Threads : flushPc'[u] \in {"idle", "begin"}) => inserted' = 0
    BY <2>1, <2>2, TakeRanges DEF History!Threads
  <2>4. UNCHANGED <<running, notified, workerPc, dropped, hourPassed, written, day, crashes>>
    BY <1>4 DEF History!ShutdownFlush
  <2> QED
    BY <2>3, <2>4 DEF HistoryRanges
<1>5. CASE History!LoopTop
  BY <1>5 DEF HistoryRanges, History!LoopTop
<1>6. CASE History!Rotate
  <2>1. hourPassed' \in BOOLEAN
    BY <1>6 DEF HistoryRanges, History!Rotate
  <2> QED
    BY <1>6, <2>1 DEF HistoryRanges, History!Rotate
<1>7. CASE History!ShutdownBegin
  <2>1. notified' \in BOOLEAN /\ running' = FALSE
    BY <1>7 DEF HistoryRanges, History!ShutdownBegin
  <2> QED
    BY <1>7, <2>1 DEF HistoryRanges, History!ShutdownBegin
<1>8. CASE History!ShutdownClose
  BY <1>8 DEF HistoryRanges, History!ShutdownClose
<1>9. CASE History!DayPasses
  <2>1. day' <= MaxDay /\ hourPassed' = TRUE
    BY <1>9, BoundsAssumption DEF History!DayPasses, IInv, Shape
  <2> QED
    BY <1>9, <2>1 DEF HistoryRanges, History!DayPasses
<1>10. CASE History!Crash
  <2>1. crashes' \in 0 .. MaxCrashes
    BY <1>10, BoundsAssumption DEF HistoryRanges, History!Crash
  <2>2. running' = TRUE /\ notified' = FALSE /\ dropped' = TRUE /\ hourPassed' = FALSE
    BY <1>10 DEF History!Crash, History!Fresh
  <2>3. /\ workerPc' = "top" /\ inserted' = 0 /\ UNCHANGED <<written, day>>
        /\ \A u \in History!Threads : flushPc'[u] = "idle"
    BY <1>10 DEF History!Crash, History!Fresh
  <2> QED
    BY <2>1, <2>2, <2>3 DEF HistoryRanges
<1> QED
  BY <1>1, <1>2, <1>3, <1>4, <1>5, <1>6, <1>7, <1>8, <1>9, <1>10
  DEF History!Next, History!RunLoop, History!ShutdownGoesOn, History!Threads

(* The ranges of the logger's variables. *)
LEMMA HistoryTyped == ASSUME IInv, HistoryRanges PROVE History!TypeOK
<1>1. Shape /\ Control /\ Queued
  BY DEF IInv
<1>2. \A r \in History!Range(written) : r \in History!Row
  <2>1. \A i \in DOMAIN written : written[i] \in History!Row
    BY DEF HistoryRanges
  <2> QED
    BY <2>1 DEF History!Range
<1>3. ASSUME NEW s \in Seq(AnyRow), History!Range(s) \subseteq History!Range(written)
      PROVE  s \in Seq(History!Row)
  <2>1. \A i \in 1 .. Len(s) : s[i] \in History!Row
    BY <1>2, <1>3 DEF History!Range
  <2> QED
    BY <2>1
<1>4. \A q \in {pending, written, batch["worker"], batch["main"]} : q \in Seq(History!Row)
  <2>1. pending \in Seq(History!Row)
    BY <1>1, <1>3 DEF Shape, Queued
  <2>2. batch["worker"] \in Seq(History!Row) /\ batch["main"] \in Seq(History!Row)
    BY <1>1, <1>3 DEF Shape, Queued, History!Threads
  <2> QED
    BY <2>1, <2>2 DEF HistoryRanges
<1>5. History!Range(db) \subseteq History!Row
  BY <1>1, <1>2 DEF Queued
<1>6. inserted \in 0 .. Len(batch["worker"]) + Len(batch["main"])
  <2> PICK w, m : w = Len(batch["worker"]) /\ m = Len(batch["main"])
    OBVIOUS
  <2>1. w \in Nat /\ m \in Nat /\ inserted \in Nat
    BY <1>1 DEF Shape, History!Threads
  <2>2. inserted <= w \/ inserted <= m
    <3>1. CASE \A t \in History!Threads : flushPc[t] \in {"idle", "begin"}
      <4>1. inserted = 0
        BY <3>1 DEF HistoryRanges
      <4> QED
        BY ONLY <2>1, <4>1
    <3>2. CASE \E t \in History!Threads : flushPc[t] \in {"insert", "commit"}
      <4>1. PICK t \in History!Threads : flushPc[t] \in {"insert", "commit"}
        BY <3>2
      <4>2. inserted <= Len(batch[t]) \/ inserted = Len(batch[t])
        BY <1>1, <4>1 DEF HistoryRanges, Control
      <4>3. t = "worker" \/ t = "main"
        BY DEF History!Threads
      <4>4. inserted <= w \/ inserted = w \/ inserted <= m \/ inserted = m
        BY <4>2, <4>3
      <4> QED
        BY ONLY <2>1, <4>4
    <3>3. \A t \in History!Threads : flushPc[t] \in {"idle", "begin", "insert", "commit"}
      BY <1>1 DEF Shape
    <3> QED
      BY <3>1, <3>2, <3>3
  <2>3. inserted \in 0 .. w + m
    BY ONLY <2>1, <2>2
  <2> QED
    BY <2>3
<1>7. day \in 0 .. MaxDay
  BY <1>1, BoundsAssumption DEF Shape, HistoryRanges
<1> QED
  BY <1>1, <1>4, <1>5, <1>6, <1>7 DEF Shape, HistoryRanges, History!TypeOK

(* The sequence lock's ranges hold with exceptions and crashes too; a      *)
(* publish under way has room for its second increment within MaxLag.      *)

LockRanges == Lock!TypeOK /\ (writing => lag + 1 <= MaxLag /\ MaxLag >= 2)

(* The lock starts within its ranges. *)
LEMMA LockInit == ASSUME Lock!Init PROVE LockRanges
<1>1. 0 \in 0 .. Modulus - 1 /\ 0 \in 0 .. MaxLag /\ 1 \in 1 .. MaxAttempts /\ 1 \in 1 .. MaxSpin
  BY ModulusAssumption, AttemptsAssumption
<1>2. data \in [Words -> Values] /\ buf \in [Words -> Values]
  BY DEF Lock!Init
<1>3. writing = FALSE /\ partial = FALSE
  BY DEF Lock!Init
<1>4. writing \in BOOLEAN /\ partial \in BOOLEAN /\ ~writing
  BY <1>3
<1>5. /\ seq = 0 /\ seq1 = 0 /\ wtodo = {} /\ rtodo = {} /\ field = {} /\ wval \in Values
      /\ published \in Values /\ rpc = "idle" /\ attempt = 1 /\ spin = 1 /\ seen = {} /\ lag = 0
  BY DEF Lock!Init
<1> QED
  BY <1>1, <1>2, <1>4, <1>5 DEF LockRanges, Lock!TypeOK

(* One increment moves the sequence within the circle. *)
LEMMA IncrementRanges ==
  ASSUME Lock!TypeOK, Lock!Increment
  PROVE  /\ seq' \in 0 .. Modulus - 1
         /\ lag' = IF rpc = "copy" THEN lag + 1 ELSE lag
  BY ModulusAssumption DEF Lock!TypeOK, Lock!Increment

(* Every step of publisher and reader keeps the ranges. *)
LEMMA LockStep == ASSUME LockRanges, Lock!Next PROVE LockRanges'
<1> USE DEF LockRanges, Lock!TypeOK, Lock!readerVars, Lock!writerVars
<1> USE ModulusAssumption, AttemptsAssumption, BlockAssumption
<1>1. CASE Lock!BeginWrite
  <2>1. seq' \in 0 .. Modulus - 1 /\ lag' = IF rpc = "copy" THEN lag + 1 ELSE lag
    BY <1>1, IncrementRanges DEF Lock!BeginWrite
  <2>2. lag' \in 0 .. MaxLag /\ (writing' => lag' + 1 <= MaxLag /\ MaxLag >= 2)
    BY <1>1, <2>1 DEF Lock!BeginWrite
  <2> QED
    BY <1>1, <2>1, <2>2 DEF Lock!BeginWrite
<1>2. CASE Lock!EndWrite
  <2>1. seq' \in 0 .. Modulus - 1 /\ lag' \in 0 .. MaxLag
    BY <1>2, IncrementRanges DEF Lock!EndWrite
  <2> QED
    BY <1>2, <2>1 DEF Lock!EndWrite
<1>3. CASE Lock!Throw \/ Lock!CrashAndRestart
  BY <1>3 DEF Lock!Throw, Lock!CrashAndRestart
<1>4. ASSUME NEW w \in Words, Lock!WriteWord(w) PROVE LockRanges'
  BY <1>4 DEF Lock!WriteWord
<1>5. ASSUME NEW w \in RawWords, Lock!WriteRaw(w) PROVE LockRanges'
  BY <1>5 DEF Lock!WriteRaw
<1>6. CASE Lock!Call
  BY <1>6 DEF Lock!Call
<1>7. CASE Lock!ReadSeq1
  BY <1>7 DEF Lock!ReadSeq1, Lock!StartCopy
<1>8. CASE Lock!Spin
  BY <1>8 DEF Lock!Spin, Lock!StartCopy, Lock!Retry
<1>9. CASE Lock!ReadSeq2
  BY <1>9 DEF Lock!ReadSeq2, Lock!Retry
<1>10. ASSUME NEW w \in Words, Lock!CopyWord(w) PROVE LockRanges'
  BY <1>10 DEF Lock!CopyWord
<1> QED
  BY <1>1, <1>2, <1>3, <1>4, <1>5, <1>6, <1>7, <1>8, <1>9, <1>10
  DEF Lock!Next, Lock!Publisher, Lock!ReadWithSequence

(* The client starts within its ranges. *)
LEMMA ClientTypedInit == ASSUME Client!Init PROVE Client!TypeOK
<1>1. 0 \in 0 .. MaxServers /\ 0 \in 0 .. MaxConsecutiveErrors /\ 0 <= MaxPosted
  BY BoundsAssumption
<1>2. /\ << >> \in Seq({"HelloAck", "Schema", "Shutdown"})
      /\ << >> \in Seq({"connected", "ready", "disconnected"}) /\ Len(<< >>) = 0
  BY EmptySeq
<1>3. /\ match \in BOOLEAN /\ greeted \in BOOLEAN /\ serverShutdown \in BOOLEAN
      /\ disposed \in BOOLEAN /\ isConnected \in BOOLEAN /\ shown \in BOOLEAN /\ alive \in BOOLEAN
  BY DEF Client!Init
<1>4. /\ server = "down" /\ life = 0 /\ named = 0 /\ handler = "none" /\ inbox = << >>
      /\ at = "loop" /\ conn = 0 /\ mapped = 0 /\ posted = << >> /\ tick = "idle" /\ errors = 0
  BY DEF Client!Init
<1> QED
  BY <1>1, <1>2, <1>3, <1>4 DEF Client!TypeOK, Client!PipeAt

(* What the server does keeps the ranges. *)
LEMMA ServerTyped == ASSUME Client!TypeOK, Client!Server PROVE Client!TypeOK'
<1> USE BoundsAssumption DEF Client!TypeOK, Client!clientVars, Client!uiVars
<1>1. CASE Client!ServerUnlinks
  <2>1. match' \in BOOLEAN
    BY <1>1 DEF Client!ServerUnlinks
  <2>2. life' \in 0 .. MaxServers /\ named' \in 0 .. MaxServers
    BY <1>1 DEF Client!ServerUnlinks
  <2> QED
    BY <1>1, <2>1, <2>2 DEF Client!ServerUnlinks
<1>2. CASE Client!ServerListens \/ Client!ServerAccepts
  BY <1>2 DEF Client!ServerListens, Client!ServerAccepts
<1>3. CASE Client!ServerGreets
  <2>1. inbox' = Append(inbox, "HelloAck") \/ inbox' = Append(inbox, "Schema")
    BY <1>3 DEF Client!ServerGreets
  <2>2. inbox' \in Seq({"HelloAck", "Schema", "Shutdown"})
    <3>1. PICK i : i = inbox
      OBVIOUS
    <3>2. i \in Seq({"HelloAck", "Schema", "Shutdown"})
      BY <3>1
    <3>3. \A m \in {"HelloAck", "Schema", "Shutdown"} :
             Append(i, m) \in Seq({"HelloAck", "Schema", "Shutdown"})
      BY ONLY <3>2
    <3> QED
      BY <2>1, <3>1, <3>2, <3>3
  <2> QED
    BY <1>3, <2>2 DEF Client!ServerGreets
<1>4. CASE Client!ServerStops
  <2>1. inbox' = Append(inbox, "Shutdown") \/ inbox' = inbox
    BY <1>4 DEF Client!ServerStops
  <2>2. inbox' \in Seq({"HelloAck", "Schema", "Shutdown"})
    <3>1. PICK i : i = inbox
      OBVIOUS
    <3>2. i \in Seq({"HelloAck", "Schema", "Shutdown"})
      BY <3>1
    <3>3. \A m \in {"HelloAck", "Schema", "Shutdown"} :
             Append(i, m) \in Seq({"HelloAck", "Schema", "Shutdown"})
      BY ONLY <3>2
    <3> QED
      BY <2>1, <3>1, <3>2, <3>3
  <2> QED
    BY <1>4, <2>2 DEF Client!ServerStops
<1>5. CASE Client!ServerEnds \/ Client!ServerCrashes
  BY <1>5 DEF Client!ServerEnds, Client!ServerCrashes
<1> QED
  BY <1>1, <1>2, <1>3, <1>4, <1>5 DEF Client!Server

(* The pipe task keeps the ranges. *)
LEMMA PipeTyped == ASSUME Client!TypeOK, Client!Pipe PROVE Client!TypeOK'
<1> USE BoundsAssumption
    DEF Client!TypeOK, Client!pipeKeeps, Client!serverVars, Client!uiVars, Client!PipeAt
<1>1. << >> \in Seq({"HelloAck", "Schema", "Shutdown"}) /\ 0 \in 0 .. MaxServers
  BY EmptySeq
<1>2. CASE Client!LoopTest \/ Client!SendAck
  BY <1>2 DEF Client!LoopTest, Client!SendAck
<1>3. CASE Client!Connect
  BY <1>3 DEF Client!Connect, Client!Post
<1>4. CASE Client!ConnectFails \/ Client!HandshakeFails \/ Client!RejectSchema \/ Client!SendAckFails
  <2>1. Client!Drop /\ UNCHANGED <<Client!pipeKeeps, serverShutdown, mapped, posted, tick>>
    BY <1>4 DEF Client!ConnectFails, Client!HandshakeFails, Client!RejectSchema, Client!SendAckFails
  <2>2. greeted' \in BOOLEAN
    BY <2>1 DEF Client!Drop
  <2> QED
    BY <1>1, <2>1, <2>2 DEF Client!Drop
<1>5. CASE Client!SendHello
  <2>1. greeted' \in BOOLEAN
    BY <1>5 DEF Client!SendHello
  <2> QED
    BY <1>5, <2>1 DEF Client!SendHello
<1>6. CASE Client!ReceiveHandshake
  BY <1>6 DEF Client!ReceiveHandshake
<1>7. CASE Client!OpenMemory
  <2>1. greeted' \in BOOLEAN
    BY <1>7 DEF Client!OpenMemory, Client!Drop
  <2> QED
    BY <1>1, <1>7, <2>1 DEF Client!OpenMemory, Client!Remap, Client!Drop
<1>8. CASE Client!PostReady
  BY <1>8 DEF Client!PostReady, Client!Post
<1>9. CASE Client!LeaveKeepAlive
  BY <1>9 DEF Client!LeaveKeepAlive
<1>10. CASE Client!CloseMemory
  BY <1>1, <1>10 DEF Client!CloseMemory, Client!Closed, Client!Remap
<1>11. CASE Client!PostDisconnected
  <2>1. serverShutdown' \in BOOLEAN /\ greeted' \in BOOLEAN
    BY <1>11 DEF Client!PostDisconnected, Client!Drop
  <2> QED
    BY <1>1, <1>11, <2>1 DEF Client!PostDisconnected, Client!Post, Client!Drop
<1> QED
  BY <1>2, <1>3, <1>4, <1>5, <1>6, <1>7, <1>8, <1>9, <1>10, <1>11 DEF Client!Pipe

(* The UI thread keeps the ranges; the errors are counted up to the limit. *)
LEMMA UiTyped ==
  ASSUME Client!TypeOK,
         Client!HandlePosted \/ Client!TickBegins \/ Client!TickEnds \/ Client!Reconnect
  PROVE  Client!TypeOK'
<1> USE BoundsAssumption DEF Client!TypeOK, Client!uiKeeps, Client!serverVars, Client!uiVars
<1>1. 0 \in 0 .. MaxConsecutiveErrors /\ 0 \in 0 .. MaxServers
  OBVIOUS
<1>2. ASSUME Client!GotInfo
      PROVE  errors' \in 0 .. MaxConsecutiveErrors /\ isConnected' \in BOOLEAN /\ shown' \in BOOLEAN
  <2>1. isConnected' \in BOOLEAN /\ shown' \in BOOLEAN
    BY <1>2 DEF Client!GotInfo
  <2> QED
    BY <1>1, <1>2, <2>1 DEF Client!GotInfo
<1>3. ASSUME Client!GotNothing
      PROVE  errors' \in 0 .. MaxConsecutiveErrors /\ isConnected' \in BOOLEAN /\ shown' \in BOOLEAN
  <2>1. isConnected' \in BOOLEAN /\ shown' \in BOOLEAN
    BY <1>3 DEF Client!GotNothing
  <2>2. errors' \in 0 .. MaxConsecutiveErrors
    BY <1>3 DEF Client!GotNothing
  <2> QED
    BY <2>1, <2>2
<1>4. CASE Client!HandlePosted
  <2>1. isConnected' \in BOOLEAN /\ shown' \in BOOLEAN
    BY <1>4 DEF Client!HandlePosted
  <2>2. errors' \in 0 .. MaxConsecutiveErrors
    BY <1>1, <1>4 DEF Client!HandlePosted
  <2>3. posted' \in Seq({"connected", "ready", "disconnected"}) /\ Len(posted') <= MaxPosted
    BY <1>4 DEF Client!HandlePosted
  <2> QED
    BY <1>4, <2>1, <2>2, <2>3 DEF Client!HandlePosted
<1>5. CASE Client!TickBegins
  <2>1. errors' \in 0 .. MaxConsecutiveErrors /\ isConnected' \in BOOLEAN /\ shown' \in BOOLEAN
    BY <1>3, <1>5 DEF Client!TickBegins
  <2> QED
    BY <1>5, <2>1 DEF Client!TickBegins
<1>6. CASE Client!TickEnds
  <2>1. errors' \in 0 .. MaxConsecutiveErrors /\ isConnected' \in BOOLEAN /\ shown' \in BOOLEAN
    BY <1>2, <1>3, <1>6 DEF Client!TickEnds
  <2>2. alive' \in BOOLEAN
    BY <1>6 DEF Client!TickEnds
  <2> QED
    BY <1>6, <2>1, <2>2 DEF Client!TickEnds
<1>7. CASE Client!Reconnect
  <2>1. disposed' \in BOOLEAN
    BY <1>7 DEF Client!Reconnect
  <2> QED
    BY <1>1, <1>7, <2>1 DEF Client!Reconnect
<1> QED
  BY <1>4, <1>5, <1>6, <1>7

-----------------------------------------------------------------------------
(* The composition.                                                        *)

PartsInv == MonitorInv /\ EtwInv /\ ClientInv

(* The parts' invariants hold together at first. *)
LEMMA PartsInit == ASSUME Init PROVE PartsInv
  BY MonitorInit, EtwInit, ClientInit DEF Init, PartsInv

(* A step is one of one part; the others keep their variables, and so      *)
(* their invariants.                                                       *)
LEMMA PartsStep ==
  ASSUME PartsInv, [Next]_vars
  PROVE  PartsInv'
<1>1. ASSUME UNCHANGED monitorVars PROVE MonitorInv'
  BY <1>1 DEF monitorVars, MonitorInv, TimeOver, PartsInv
<1>2. ASSUME UNCHANGED etwVars PROVE EtwInv'
  BY <1>2 DEF etwVars, EtwInv, PartsInv
<1>3. ASSUME UNCHANGED clientVars PROVE ClientInv'
  BY <1>3 DEF clientVars, ClientInv, PartsInv
<1>4. CASE MonitorSteps
  BY <1>2, <1>3, <1>4, MonitorStep DEF MonitorSteps, PartsInv
<1>5. CASE EtwSteps
  BY <1>1, <1>3, <1>5, EtwStep DEF EtwSteps, PartsInv
<1>6. CASE ClientSteps
  BY <1>1, <1>2, <1>6, ClientStep DEF ClientSteps, PartsInv
<1>7. CASE HistorySteps \/ BlockSteps \/ UNCHANGED vars
  BY <1>1, <1>2, <1>3, <1>7 DEF HistorySteps, BlockSteps, vars, PartsInv
<1> QED
  BY <1>4, <1>5, <1>6, <1>7 DEF Next

(* The parts keep their invariants in every behaviour. *)
LEMMA PartsKept == Spec => []PartsInv
  BY PartsInit, PartsStep, PTL DEF Spec

-----------------------------------------------------------------------------
(* Once Stop() of either monitor has returned, no thread of its runs       *)
(* callbacks (SystemEventMonitor.cpp, EtwMonitor.cpp) - on macOS provided  *)
(* Start() saw the thread ready in time.                                   *)
THEOREM NoCallbacksLeft == Spec => []NoCallbackAfterStop
<1>1. PartsInv => NoCallbackAfterStop
  BY DEF PartsInv, MonitorInv, EtwInv, TimeOver, NoCallbackAfterStop,
         Monitor!ThreadEndsFirst, Etw!NoDispatchAfterStop
<1> QED
  BY <1>1, PartsKept, PTL

(* A trace session that this process has started or found goes on without  *)
(* its handle only where the system refused to stop or replace it; every    *)
(* other failure of Start() or Stop(), and a trace that ends by itself,     *)
(* leaves it in reach (EtwMonitor.cpp).                                     *)
THEOREM SessionsInReach == Spec => []SessionInReach
<1>1. PartsInv => SessionInReach
  BY DEF PartsInv, EtwInv, SessionInReach, Etw!SessionInReach
<1> QED
  BY <1>1, PartsKept, PTL

(* A client that has accepted a schema reads the block of the server that  *)
(* sent it or of a later one, however often the server stops, dies and     *)
(* comes back (IPCMemoryReader.Open).                                      *)
THEOREM NewestBlockMapped == Spec => []MappedNotOlder
<1>1. PartsInv => MappedNotOlder
  BY DEF PartsInv, ClientInv, MappedNotOlder, Client!MappedNotOlder
<1> QED
  BY <1>1, PartsKept, PTL

(* The ranges of all parts together. *)
Ranges == HistoryRanges /\ LockRanges /\ Client!TypeOK

(* A step of one part keeps its ranges; the others keep their variables.   *)
LEMMA RangesStep == ASSUME IInv, Ranges, [Next]_vars PROVE Ranges'
<1>1. ASSUME UNCHANGED historyVars PROVE HistoryRanges'
  BY <1>1 DEF historyVars, HistoryRanges, Ranges
<1>2. ASSUME UNCHANGED lockVars PROVE LockRanges'
  BY <1>2 DEF lockVars, LockRanges, Lock!TypeOK, Ranges
<1>3. ASSUME UNCHANGED clientVars PROVE Client!TypeOK'
  BY <1>3 DEF clientVars, Client!TypeOK, Ranges
<1>4. CASE HistorySteps
  BY <1>2, <1>3, <1>4, HistoryRangesStep DEF HistorySteps, Ranges
<1>5. CASE BlockSteps
  BY <1>1, <1>3, <1>5, LockStep DEF BlockSteps, Ranges
<1>6. CASE ClientSteps
  <2>1. Client!Next /\ UNCHANGED historyVars /\ UNCHANGED lockVars
    BY <1>6 DEF ClientSteps
  <2>2. Client!TypeOK'
    BY <2>1, ServerTyped, PipeTyped, UiTyped DEF Client!Next, Ranges
  <2> QED
    BY <1>1, <1>2, <2>1, <2>2 DEF Ranges
<1>7. CASE MonitorSteps \/ EtwSteps \/ UNCHANGED vars
  BY <1>1, <1>2, <1>3, <1>7 DEF MonitorSteps, EtwSteps, vars, Ranges
<1> QED
  BY <1>4, <1>5, <1>6, <1>7 DEF Next

(* Every variable of the three parts stays in its range, whatever fails:   *)
(* the reader's attempts and spins, the client's errors, the rows and      *)
(* where they are, for every limit and bound.                              *)
THEOREM RangesKept == Spec => []TypeOK
<1>1. Init => Ranges
  BY HistoryRangesInit, LockInit, ClientTypedInit DEF Init, Ranges
<1>2. IInv /\ Ranges /\ [Next]_vars => Ranges'
  BY RangesStep
<1>3. IInv /\ Ranges => TypeOK
  BY HistoryTyped DEF Ranges, LockRanges, TypeOK
<1> QED
  BY <1>1, <1>2, <1>3, Inductive, PTL DEF Spec
================================================================================
