-------------------------------- MODULE Logger --------------------------------
(***************************************************************************)
(* The asynchronous Logger: threads that call WriteLog, the worker that    *)
(* moves their entries to the file, Flush(), and Shutdown(), which the     *)
(* static LogTerminator calls at exit while detached threads may still log.*)
(*                                                                         *)
(* logMutex is held for one step, except by a worker that has found no     *)
(* reason to run and is about to sleep ("blocking"): Shutdown() sets its   *)
(* flag and notifies without the mutex, so it can fall into that gap.      *)
(* An entry is <<thread, number>>.                                         *)
(***************************************************************************)
EXTENDS Naturals, SequencesExt

CONSTANTS Writers,     \* threads that log
          Flushers,    \* threads that call Flush()
          MaxEntries,  \* BOUND: entries a thread logs
          MaxLines     \* LogBuffer::MAX_LINES

ASSUME LoggerAssumption ==
  /\ MaxEntries \in Nat /\ MaxLines \in Nat \ {0}
  /\ Flushers \cap {"file", "logQueue", "localQueue", "remaining"} = {}

VARIABLES
  logQueue, lines,         \* the async queue and the TUI's LogBuffer
  writerPc, logged,        \* where each thread is in WriteLog, entries so far
  workerPc, localQueue,    \* WorkerThreadFunc; entries leave localQueue as written
  flusherPc, entries,      \* Flush
  flushed,                 \* history: Flush() has been called
  shutdownPc, remaining,   \* Shutdown
  shutdownFlag, logFileOpen,
  file, closed,            \* what reached logFile; it has been closed
  accepted                 \* history: the entries in the order they were queued

writerVars   == <<lines, writerPc, logged>>
workerVars   == <<workerPc, localQueue>>
flusherVars  == <<flusherPc, entries, flushed>>
shutdownVars == <<shutdownPc, remaining, shutdownFlag, logFileOpen, closed>>
vars == <<logQueue, writerVars, workerVars, flusherVars, shutdownVars, file, accepted>>

Entry == Writers \X (1 .. MaxEntries)

(* Initialize() *)
Init ==
  /\ logQueue = <<>> /\ lines = <<>> /\ localQueue = <<>> /\ remaining = <<>>
  /\ writerPc = [w \in Writers |-> "idle"] /\ logged = [w \in Writers |-> 0]
  /\ workerPc = "check"
  /\ flusherPc = [f \in Flushers |-> "idle"] /\ entries = [f \in Flushers |-> <<>>]
  /\ flushed = FALSE
  /\ shutdownPc = "idle" /\ shutdownFlag = FALSE /\ logFileOpen = TRUE
  /\ file = <<>> /\ closed = FALSE /\ accepted = <<>>

LockFree == workerPc # "blocking"
Woken    == IF workerPc = "waiting" THEN "check" ELSE workerPc

(* a write to a closed stream leaves nothing behind *)
WriteFile(e) == file' = IF closed THEN file ELSE Append(file, e)

-----------------------------------------------------------------------------
(* WriteLog *)

PushTui(w) ==
  /\ writerPc[w] = "idle" /\ logged[w] < MaxEntries
  /\ logged' = [logged EXCEPT ![w] = @ + 1]
  /\ LET all == Append(lines, <<w, logged'[w]>>)
     IN lines' = IF Len(all) > MaxLines THEN Tail(all) ELSE all
  /\ writerPc' = [writerPc EXCEPT ![w] = "queue"]
  /\ UNCHANGED <<logQueue, workerVars, flusherVars, shutdownVars, file, accepted>>

PushQueue(w) ==
  /\ writerPc[w] = "queue" /\ LockFree
  /\ \/ /\ logFileOpen
        /\ logQueue' = Append(logQueue, <<w, logged[w]>>)
        /\ accepted' = Append(accepted, <<w, logged[w]>>)
        /\ writerPc' = [writerPc EXCEPT ![w] = "notify"]
     \/ /\ ~logFileOpen
        /\ writerPc' = [writerPc EXCEPT ![w] = "idle"]
        /\ UNCHANGED <<logQueue, accepted>>
  /\ UNCHANGED <<lines, logged, workerVars, flusherVars, shutdownVars, file>>

(* mutant: the worker is not notified *)
NotifyNobody(w) ==
  /\ writerPc[w] = "notify"
  /\ writerPc' = [writerPc EXCEPT ![w] = "idle"]
  /\ UNCHANGED <<logQueue, lines, logged, workerVars, flusherVars, shutdownVars, file, accepted>>

Notify(w) ==
  /\ writerPc[w] = "notify"
  /\ writerPc' = [writerPc EXCEPT ![w] = "idle"]
  /\ workerPc' = Woken
  /\ UNCHANGED <<logQueue, lines, logged, localQueue, flusherVars, shutdownVars, file, accepted>>

WriteLog(w) == PushTui(w) \/ PushQueue(w) \/ Notify(w)

-----------------------------------------------------------------------------
(* WorkerThreadFunc *)

Swap == localQueue' = logQueue /\ logQueue' = localQueue

(* mutant: the queue is copied, not swapped *)
WorkerCheckCopies ==
  /\ workerPc = "check"
  /\ \/ /\ shutdownFlag \/ logQueue # <<>>
        /\ workerPc' = "write"
        /\ localQueue' = logQueue /\ UNCHANGED logQueue
     \/ /\ ~shutdownFlag /\ logQueue = <<>>
        /\ workerPc' = "blocking"
        /\ UNCHANGED <<localQueue, logQueue>>
  /\ UNCHANGED <<writerVars, flusherVars, shutdownVars, file, accepted>>

(* queueCV.wait: the predicate holds, and the queues are swapped; or not *)
WorkerCheck ==
  /\ workerPc = "check"
  /\ \/ /\ shutdownFlag \/ logQueue # <<>>
        /\ workerPc' = "write"
        /\ Swap
     \/ /\ ~shutdownFlag /\ logQueue = <<>>
        /\ workerPc' = "blocking"
        /\ UNCHANGED <<localQueue, logQueue>>
  /\ UNCHANGED <<writerVars, flusherVars, shutdownVars, file, accepted>>

(* ... and the worker sleeps, releasing the mutex *)
WorkerBlock ==
  /\ workerPc = "blocking"
  /\ workerPc' = "waiting"
  /\ UNCHANGED <<logQueue, localQueue, writerVars, flusherVars, shutdownVars, file, accepted>>

(* mutant: the batch is written from its end *)
WorkerWriteBackwards ==
  /\ workerPc = "write" /\ localQueue # <<>>
  /\ WriteFile(Last(localQueue))
  /\ localQueue' = Front(localQueue)
  /\ UNCHANGED <<logQueue, workerPc, writerVars, flusherVars, shutdownVars, accepted>>

WorkerWrite ==
  /\ workerPc = "write" /\ localQueue # <<>>
  /\ WriteFile(Head(localQueue))
  /\ localQueue' = Tail(localQueue)
  /\ UNCHANGED <<logQueue, workerPc, writerVars, flusherVars, shutdownVars, accepted>>

(* the batch is written: another round, or the way out *)
WorkerFlag ==
  /\ workerPc = "write" /\ localQueue = <<>>
  /\ \/ ~shutdownFlag /\ workerPc' = "check" /\ UNCHANGED <<localQueue, logQueue>>
     \/ shutdownFlag /\ logQueue = <<>> /\ workerPc' = "exited"
        /\ UNCHANGED <<localQueue, logQueue>>
     \/ shutdownFlag /\ logQueue # <<>> /\ workerPc' = "check" /\ Swap
  /\ UNCHANGED <<writerVars, flusherVars, shutdownVars, file, accepted>>

WorkerThreadFunc == WorkerCheck \/ WorkerBlock \/ WorkerWrite \/ WorkerFlag

-----------------------------------------------------------------------------
(* Flush *)

FlushNotify(f) ==
  /\ flusherPc[f] = "idle"
  /\ workerPc' = Woken
  /\ flusherPc' = [flusherPc EXCEPT ![f] = "swap"]
  /\ flushed' = TRUE
  /\ UNCHANGED <<logQueue, localQueue, writerVars, entries, shutdownVars, file, accepted>>

FlushSwap(f) ==
  /\ flusherPc[f] = "swap" /\ LockFree
  /\ entries' = [entries EXCEPT ![f] = logQueue] /\ logQueue' = <<>>
  /\ flusherPc' = [flusherPc EXCEPT ![f] = "write"]
  /\ UNCHANGED <<flushed, writerVars, workerVars, shutdownVars, file, accepted>>

FlushWrite(f) ==
  /\ flusherPc[f] = "write"
  /\ \/ /\ entries[f] # <<>>
        /\ WriteFile(Head(entries[f]))
        /\ entries' = [entries EXCEPT ![f] = Tail(@)]
        /\ UNCHANGED flusherPc
     \/ /\ entries[f] = <<>>
        /\ flusherPc' = [flusherPc EXCEPT ![f] = "idle"]
        /\ UNCHANGED <<entries, file>>
  /\ UNCHANGED <<flushed, logQueue, writerVars, workerVars, shutdownVars, accepted>>

Flush(f) == FlushNotify(f) \/ FlushSwap(f) \/ FlushWrite(f)

-----------------------------------------------------------------------------
(* Shutdown *)

ShutdownFlag ==
  /\ shutdownPc = "idle"
  /\ shutdownFlag' = TRUE
  /\ shutdownPc' = "notify"
  /\ UNCHANGED <<logQueue, writerVars, workerVars, flusherVars, remaining,
                 logFileOpen, closed, file, accepted>>

ShutdownNotify ==
  /\ shutdownPc = "notify"
  /\ workerPc' = Woken
  /\ shutdownPc' = "join"
  /\ UNCHANGED <<logQueue, writerVars, localQueue, flusherVars, remaining,
                 shutdownFlag, logFileOpen, closed, file, accepted>>

(* the worker is joined and what it left is taken *)
ShutdownDrain ==
  /\ shutdownPc = "join" /\ workerPc = "exited"
  /\ remaining' = logQueue /\ logQueue' = <<>>
  /\ shutdownPc' = "write"
  /\ UNCHANGED <<writerVars, workerVars, flusherVars, shutdownFlag,
                 logFileOpen, closed, file, accepted>>

ShutdownWrite ==
  /\ shutdownPc = "write" /\ remaining # <<>>
  /\ WriteFile(Head(remaining))
  /\ remaining' = Tail(remaining)
  /\ UNCHANGED <<logQueue, writerVars, workerVars, flusherVars, shutdownPc,
                 shutdownFlag, logFileOpen, closed, accepted>>

ShutdownRefuse ==
  /\ shutdownPc = "write" /\ remaining = <<>>
  /\ logFileOpen' = FALSE
  /\ shutdownPc' = "close"
  /\ UNCHANGED <<logQueue, writerVars, workerVars, flusherVars, remaining,
                 shutdownFlag, closed, file, accepted>>

ShutdownClose ==
  /\ shutdownPc = "close"
  /\ closed' = TRUE
  /\ shutdownPc' = "done"
  /\ UNCHANGED <<logQueue, writerVars, workerVars, flusherVars, remaining,
                 shutdownFlag, logFileOpen, file, accepted>>

ShutdownGoesOn == \/ ShutdownNotify \/ ShutdownDrain \/ ShutdownWrite
                  \/ ShutdownRefuse \/ ShutdownClose
Shutdown == ShutdownFlag \/ ShutdownGoesOn

-----------------------------------------------------------------------------
Next ==
  \/ \E w \in Writers : WriteLog(w)
  \/ WorkerThreadFunc
  \/ \E f \in Flushers : Flush(f)
  \/ Shutdown

(* Threads inside the Logger keep running; none has to log or to exit. *)
Fairness ==
  /\ \A w \in Writers : WF_vars(PushQueue(w) \/ Notify(w))
  /\ \A f \in Flushers : WF_vars(FlushSwap(f) \/ FlushWrite(f))
  /\ WF_vars(WorkerThreadFunc) /\ WF_vars(ShutdownGoesOn)

Spec == Init /\ [][Next]_vars /\ Fairness

-----------------------------------------------------------------------------
(* where an entry can be: the file, the queue, and the vectors of those    *)
(* who write it out                                                        *)
Places == {"file", "logQueue", "localQueue", "remaining"} \cup Flushers
Contents ==
  [p \in Places |-> CASE p = "file" -> file
                      [] p = "logQueue" -> logQueue
                      [] p = "localQueue" -> localQueue
                      [] p = "remaining" -> remaining
                      [] OTHER -> entries[p]]

(* Worker, Flush() and Shutdown() hand entries round by swapping vectors:  *)
(* until the file is closed an entry that was queued is in exactly one of  *)
(* the places, at one position, never lost and never written twice.        *)
EveryEntryOnce ==
  ~closed =>
    /\ \A e \in Entry : Contains(accepted, e) <=> \E p \in Places : Contains(Contents[p], e)
    /\ \A p, q \in Places : \A i \in DOMAIN Contents[p], j \in DOMAIN Contents[q] :
         Contents[p][i] = Contents[q][j] => p = q /\ i = j

(* Before exit, and as long as no Flush() is under way or has been, the    *)
(* file has the entries in the order the threads queued them.              *)
FileInOrder ==
  ~shutdownFlag /\ ~flushed => file \o localQueue \o logQueue = accepted

(* Before exit an entry that was queued reaches the file: no notification  *)
(* between a writer and the worker is lost.                                *)
LoggedIsWritten ==
  \A e \in Entry : Contains(accepted, e) ~> (Contains(file, e) \/ shutdownFlag)

(* "ensures the worker thread is joined" (Logger.cpp, LogTerminator): a    *)
(* worker asleep while Shutdown() waits for it is woken.                   *)
ShutdownWakesWorker ==
  shutdownPc = "join" /\ workerPc = "waiting" ~> workerPc # "waiting"
=============================================================================
