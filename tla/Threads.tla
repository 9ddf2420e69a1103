-------------------------------- MODULE Threads --------------------------------
(***************************************************************************)
(* Five parts that have threads of their own and share no state: the       *)
(* history logger, the shared block with every fault of its publishers,    *)
(* the Avalonia client, the system event monitor of macOS and the ETW      *)
(* monitor of Windows.  A behaviour chooses one of them, which then runs   *)
(* as its module says while the others stay as they start: what holds of   *)
(* this specification holds of each of them.                               *)
(***************************************************************************)
EXTENDS Naturals, Sequences

CONSTANTS Parts,  \* the parts to consider
          Sizes, MaxPending, Retention, MaxCalls, MaxDay, MaxCrashes,  \* HistoryLogger
          Words, Fields, RawWords, Values, Modulus, MaxAttempts, MaxSpin, MaxLag,  \* Seqlock
          MaxConsecutiveErrors, MaxServers, MaxPosted,  \* AvaloniaClient
          MaxRetries, MaxSystemEvents,  \* SystemEventMonitor
          MaxEtwEvents, MaxStarts       \* EtwMonitor

ASSUME SizesAssumption == Sizes \subseteq Nat \ {0}
ASSUME RetentionAssumption == Retention \in Nat
ASSUME BlockAssumption == RawWords \subseteq Words /\ Fields \subseteq SUBSET Words /\ Values # {}
ASSUME ModulusAssumption ==
  Modulus \in Nat /\ MaxLag \in Nat /\ Modulus % 2 = 0 /\ MaxLag < Modulus
ASSUME AttemptsAssumption == MaxAttempts \in Nat \ {0} /\ MaxSpin \in Nat \ {0}
ASSUME BoundsAssumption == {MaxCalls, MaxDay, MaxCrashes, MaxConsecutiveErrors, MaxServers, MaxPosted} \subseteq Nat

VARIABLES part,  \* the part that runs
          running, pending, workerPc, notified, mainPc, flushPc, batch, inserted, txn, db, lastId, day,
          hourPassed, crashes, written, dropped,
          seq, data, writing, wtodo, wval, published, partial, rpc, field, attempt, spin, seq1,
          rtodo, buf, seen, lag,
          server, life, match, named, handler, inbox, greeted, at, conn, serverShutdown, mapped,
          disposed, posted, tick, errors, isConnected, shown, alive,
          pumping, held, pump, registered, inRunLoop, block, sent, retries, pumpOwner,
          session, refused, handle, trace, tracing, tracer, events, starts, traceOwner

History == INSTANCE HistoryLogger
Lock == INSTANCE Seqlock WITH MayThrow <- TRUE, CatchBumps <- FALSE, MayCrash <- TRUE
Client == INSTANCE AvaloniaClient
Monitor == INSTANCE SystemEventMonitor WITH
  MaxEvents <- MaxSystemEvents, running <- pumping, thread <- pump, posted <- inRunLoop,
  owner <- pumpOwner
Etw == INSTANCE EtwMonitor WITH
  MaxEvents <- MaxEtwEvents, running <- tracing, thread <- tracer, owner <- traceOwner

historyVars == <<running, pending, workerPc, notified, mainPc, flushPc, batch, inserted, txn,
                 db, lastId, day, hourPassed, crashes, written, dropped>>
lockVars == <<seq, data, writing, wtodo, wval, published, partial, rpc, field, attempt, spin,
              seq1, rtodo, buf, seen, lag>>
clientVars == <<server, life, match, named, handler, inbox, greeted, at, conn, serverShutdown,
                mapped, disposed, posted, tick, errors, isConnected, shown, alive>>
monitorVars == <<pumping, held, pump, registered, inRunLoop, block, sent, retries, pumpOwner>>
etwVars == <<session, refused, handle, trace, tracing, tracer, events, starts, traceOwner>>

\* Of the parts that do not run only one initial state.
Init ==
  /\ part \in Parts
  /\ History!Init
  /\ Lock!Init /\ (part = "block" \/ published = 0)
  /\ Client!Init
  /\ Monitor!Init
  /\ Etw!Init /\ (part = "etw" \/ ~session)

HistorySteps ==
  /\ part = "history" /\ History!Next
  /\ UNCHANGED <<part, lockVars, clientVars, monitorVars, etwVars>>

BlockSteps ==
  /\ part = "block" /\ Lock!Next
  /\ UNCHANGED <<part, historyVars, clientVars, monitorVars, etwVars>>

ClientSteps ==
  /\ part = "client" /\ Client!Next
  /\ UNCHANGED <<part, historyVars, lockVars, monitorVars, etwVars>>

MonitorSteps ==
  /\ part = "monitor" /\ Monitor!Next
  /\ UNCHANGED <<part, historyVars, lockVars, clientVars, etwVars>>

EtwSteps ==
  /\ part = "etw" /\ Etw!Next
  /\ UNCHANGED <<part, historyVars, lockVars, clientVars, monitorVars>>

Next == HistorySteps \/ BlockSteps \/ ClientSteps \/ MonitorSteps \/ EtwSteps

\* The fairness of each module, for the part that runs.
HistoryFairness ==
  /\ WF_historyVars(part = "history" /\ History!RunLoop)
  /\ WF_historyVars(part = "history" /\ History!ShutdownGoesOn)

BlockFairness == WF_lockVars(part = "block" /\ Lock!ReadWithSequence)

ClientFairness ==
  /\ WF_clientVars(part = "client" /\ Client!Pipe)
  /\ SF_clientVars(part = "client" /\ Client!HandlePosted)
  /\ WF_clientVars(part = "client" /\ Client!TickBegins)
  /\ WF_clientVars(part = "client" /\ Client!TickEnds)
  /\ WF_clientVars(part = "client" /\ Client!ServerListens)
  /\ WF_clientVars(part = "client" /\ Client!ServerAccepts)
  /\ WF_clientVars(part = "client" /\ Client!ServerGreets)
  /\ WF_clientVars(part = "client" /\ Client!ServerEnds)

MonitorFairness ==
  /\ WF_monitorVars(part = "monitor" /\ Monitor!RunLoopThread)
  /\ WF_monitorVars(part = "monitor" /\ Monitor!RunBlock)
  /\ WF_monitorVars(part = "monitor" /\ Monitor!Start)
  /\ WF_monitorVars(part = "monitor" /\ Monitor!StopMacOS)

EtwFairness ==
  /\ WF_etwVars(part = "etw" /\ (Etw!BeginTrace \/ Etw!DispatchReturns
                                 \/ (Etw!Closed /\ Etw!ProcessTraceReturns) \/ Etw!ClearRunning))
  /\ WF_etwVars(part = "etw" /\ (Etw!CloseSession \/ Etw!JoinTrace))

vars == <<part, historyVars, lockVars, clientVars, monitorVars, etwVars>>

Spec ==
  /\ Init /\ [][Next]_vars
  /\ HistoryFairness /\ BlockFairness /\ ClientFairness /\ MonitorFairness /\ EtwFairness

(***************************************************************************)
(* Properties: those of the modules.                                       *)
(***************************************************************************)
\* The variables of the parts keep their ranges: no counter of the reader or of the
\* client's errors passes its limit.
TypeOK == History!TypeOK /\ Lock!TypeOK /\ Client!TypeOK

\* HistoryLogger: while nothing fails and nothing has expired, the rows that were
\* queued are stored in order, without loss or doubling (FlushBatch, Shutdown).
NothingLost == History!NothingLost

\* HistoryLogger: the rows of one call are stored together or not at all, and no
\* failure leaves a transaction open for the next BEGIN to fail on.
BatchAtomic == History!BatchAtomic /\ History!NoTransactionLeft

\* HistoryLogger: only rows past the retention are deleted (RotateIfNeeded).
StoredUntilExpired == History!StoredUntilExpired

\* HistoryLogger: the rows are stored as BatchStore promises.
ImplementsStore == History!ImplementsStore

\* Seqlock: a read returns although publishes are left with an odd sequence by an
\* exception or a crash (ReadWithSequence).
ReadReturns == Lock!ReadReturns

\* AvaloniaClient: the block mapped is not that of an earlier life of the server.
MappedNotOlder == Client!MappedNotOlder

\* AvaloniaClient: a server that is back is found again and its block mapped.
ConnectsAgain == Client!ConnectsAgain

\* AvaloniaClient: it does not say that it is connected with nothing mapped for good.
ConnectedHasData == Client!ConnectedHasData

\* AvaloniaClient: after Shutdown the window comes to say disconnected, for good.
ShutdownIsFinal == Client!ShutdownIsFinal

\* SystemEventMonitor and EtwMonitor: once Stop() has returned no thread of theirs
\* calls back into a monitor that may be freed.
NoCallbackAfterStop == Monitor!ThreadEndsFirst /\ Etw!NoDispatchAfterStop

\* EtwMonitor: a session goes on without its handle only if the system refused to
\* stop it, and until the next Start (Start, Stop).
SessionInReach == Etw!SessionInReach

\* Whatever is to stop does: Shutdown() of the history logger although its
\* notification may be missed, Stop() of the ETW monitor, the client's task once
\* disposed; and until it stops the run loop of macOS handles what is posted.
StopsReturn ==
  /\ History!ShutdownReturns
  /\ Etw!StopReturns
  /\ Client!DisposeEnds
  /\ Monitor!PostedIsHandled
================================================================================
