----------------------------- MODULE HistoryLogger -----------------------------
(***************************************************************************)
(* HistoryLogger: the main thread queues batches of sensor rows, a worker  *)
(* moves them to SQLite once a second or when many wait, deletes old rows, *)
(* and Shutdown() stores what is left.  Any SQLite call may fail (a busy   *)
(* or full database) and the process may be killed; the committed rows     *)
(* survive it.                                                             *)
(***************************************************************************)
EXTENDS Naturals, SequencesExt

CONSTANTS Sizes,       \* how many rows one WriteBatch may bring
          MaxPending,  \* maxPending_
          Retention,   \* retentionDays_
          MaxCalls,    \* BOUND: calls of WriteBatch
          MaxDay,      \* BOUND: days that pass
          MaxCrashes   \* BOUND: times the process is killed

Threads == {"worker", "main"}    \* both run FlushBatch

VARIABLES
  running, pending,    \* running_, pending_
  workerPc, notified,  \* where RunLoop is; its wait has been notified
  mainPc,              \* where the main thread is in Shutdown()
  flushPc, batch,      \* where each thread is in FlushBatch, and its rows
  inserted,            \* how many of them are in the open transaction
  txn,                 \* who has a transaction open, or "none"
  db, lastId,          \* committed rows by id; the last id AUTOINCREMENT gave
  day, hourPassed,     \* the clock; an hour since lastRotationCheck_
  crashes,
  written, dropped     \* history: rows queued; some were lost to a failure

runVars   == <<running, workerPc, notified, mainPc>>
flushVars == <<flushPc, batch, inserted, txn, db, lastId, dropped>>
clockVars == <<day, hourPassed>>
vars == <<runVars, pending, flushVars, clockVars, crashes, written>>

(* row n of call c, stamped with the day *)
Rows(c, size) == [n \in 1 .. size |-> [call |-> c, row |-> n, size |-> size, day |-> day]]
Calls         == IF written = <<>> THEN 0 ELSE Last(written).call

Fresh ==
  /\ running' = TRUE /\ pending' = <<>>
  /\ workerPc' = "top" /\ notified' = FALSE /\ mainPc' = "serving"
  /\ flushPc' = [t \in Threads |-> "idle"] /\ batch' = [t \in Threads |-> <<>>]
  /\ inserted' = 0 /\ txn' = "none" /\ hourPassed' = FALSE

(* Initialize() *)
Init ==
  /\ running = TRUE /\ pending = <<>>
  /\ workerPc = "top" /\ notified = FALSE /\ mainPc = "serving"
  /\ flushPc = [t \in Threads |-> "idle"] /\ batch = [t \in Threads |-> <<>>]
  /\ inserted = 0 /\ txn = "none" /\ hourPassed = FALSE
  /\ db = <<>> /\ lastId = 0 /\ day = 0 /\ crashes = 0 /\ written = <<>> /\ dropped = FALSE

-----------------------------------------------------------------------------
WriteBatch ==
  /\ mainPc = "serving" /\ Calls < MaxCalls
  /\ \E size \in Sizes : LET new == Rows(Calls + 1, size) IN
       /\ pending' = pending \o new /\ written' = written \o new
       /\ notified' = (notified \/ (workerPc = "waiting" /\ Len(pending') >= MaxPending))
  /\ UNCHANGED <<running, workerPc, mainPc, flushVars, clockVars, crashes>>

-----------------------------------------------------------------------------
(* FlushBatch, in either thread *)

Done(t) == /\ flushPc' = [flushPc EXCEPT ![t] = "idle"]
           /\ batch' = [batch EXCEPT ![t] = <<>>]
           /\ inserted' = 0

(* BEGIN fails also while a transaction is open *)
Begin(t) ==
  /\ flushPc[t] = "begin"
  /\ \/ /\ txn = "none" /\ txn' = t
        /\ flushPc' = [flushPc EXCEPT ![t] = "insert"]
        /\ UNCHANGED <<batch, inserted, dropped>>
     \/ Done(t) /\ dropped' = TRUE /\ UNCHANGED txn
  /\ UNCHANGED <<runVars, pending, db, lastId, clockVars, crashes, written>>

Rollback(t) == Done(t) /\ txn' = "none" /\ dropped' = TRUE

Insert(t) ==
  /\ flushPc[t] = "insert"
  /\ \/ /\ inserted < Len(batch[t]) /\ inserted' = inserted + 1
        /\ UNCHANGED <<flushPc, batch, txn, dropped>>
     \/ /\ inserted = Len(batch[t])
        /\ flushPc' = [flushPc EXCEPT ![t] = "commit"]
        /\ UNCHANGED <<batch, inserted, txn, dropped>>
     \/ Rollback(t)
  /\ UNCHANGED <<runVars, pending, db, lastId, clockVars, crashes, written>>

(* the rows inserted in the transaction become part of the table *)
Store(t) ==
  /\ db' = [id \in DOMAIN db \cup (lastId + 1 .. lastId + inserted) |->
              IF id <= lastId THEN db[id] ELSE batch[t][id - lastId]]
  /\ lastId' = lastId + inserted

(* mutant: a failed COMMIT is not rolled back *)
CommitOnly(t) ==
  /\ flushPc[t] = "commit"
  /\ \/ /\ Store(t)
        /\ Done(t) /\ txn' = "none" /\ UNCHANGED dropped
     \/ Done(t) /\ dropped' = TRUE /\ UNCHANGED <<db, lastId, txn>>
  /\ UNCHANGED <<runVars, pending, clockVars, crashes, written>>

(* mutant: rows inserted before a failure are kept *)
CommitPart(t) ==
  /\ flushPc[t] \in {"insert", "commit"} /\ inserted > 0
  /\ Store(t)
  /\ Done(t) /\ txn' = "none"
  /\ UNCHANGED <<runVars, pending, dropped, clockVars, crashes, written>>

Commit(t) ==
  /\ flushPc[t] = "commit"
  /\ \/ /\ Store(t)
        /\ Done(t) /\ txn' = "none" /\ UNCHANGED dropped
     \/ Rollback(t) /\ UNCHANGED <<db, lastId>>
  /\ UNCHANGED <<runVars, pending, clockVars, crashes, written>>

FlushBatch(t) == Begin(t) \/ Insert(t) \/ Commit(t)

-----------------------------------------------------------------------------
(* RunLoop *)

LoopTop ==
  /\ workerPc = "top"
  /\ workerPc' = IF running THEN "lock" ELSE "exited"
  /\ UNCHANGED <<running, notified, mainPc, pending, flushVars, clockVars, crashes, written>>

Take(t) == /\ batch' = [batch EXCEPT ![t] = pending] /\ pending' = <<>>
           /\ flushPc' = [flushPc EXCEPT ![t] = "begin"]

(* with the lock: take what waits, or wait *)
Dequeue ==
  /\ workerPc = "lock"
  /\ \/ pending # <<>> /\ Take("worker") /\ workerPc' = "flush"
     \/ pending = <<>> /\ workerPc' = "waiting" /\ UNCHANGED <<pending, batch, flushPc>>
  /\ notified' = FALSE
  /\ UNCHANGED <<running, mainPc, inserted, txn, db, lastId, dropped, clockVars, crashes, written>>

(* mutant: waits without a timeout *)
WakeNotified ==
  /\ workerPc = "waiting" /\ notified
  /\ \/ pending # <<>> /\ Take("worker")
     \/ pending = <<>> /\ UNCHANGED <<pending, batch, flushPc>>
  /\ workerPc' = "flush" /\ notified' = FALSE
  /\ UNCHANGED <<running, mainPc, inserted, txn, db, lastId, dropped, clockVars, crashes, written>>

(* notified, or a second has passed *)
Wake ==
  /\ workerPc = "waiting"
  /\ \/ pending # <<>> /\ Take("worker")
     \/ pending = <<>> /\ UNCHANGED <<pending, batch, flushPc>>
  /\ workerPc' = "flush" /\ notified' = FALSE
  /\ UNCHANGED <<running, mainPc, inserted, txn, db, lastId, dropped, clockVars, crashes, written>>

(* mutant: keeps a day less than it should *)
RotateEarly ==
  /\ workerPc = "flush" /\ flushPc["worker"] = "idle"
  /\ \/ /\ hourPassed /\ hourPassed' = FALSE
        /\ db' = Restrict(db, {id \in DOMAIN db : db[id].day + Retention > day})
     \/ UNCHANGED <<hourPassed, db>>
  /\ workerPc' = "top"
  /\ UNCHANGED <<running, notified, mainPc, pending, flushPc, batch, inserted, txn,
                 lastId, dropped, day, crashes, written>>

(* the batch is flushed; RotateIfNeeded() once an hour, if its DELETE succeeds *)
Rotate ==
  /\ workerPc = "flush" /\ flushPc["worker"] = "idle"
  /\ \/ /\ hourPassed /\ hourPassed' = FALSE
        /\ db' = Restrict(db, {id \in DOMAIN db : db[id].day + Retention >= day})
     \/ hourPassed /\ hourPassed' = FALSE /\ UNCHANGED db
     \/ ~hourPassed /\ UNCHANGED <<hourPassed, db>>
  /\ workerPc' = "top"
  /\ UNCHANGED <<running, notified, mainPc, pending, flushPc, batch, inserted, txn,
                 lastId, dropped, day, crashes, written>>

RunLoop == LoopTop \/ Dequeue \/ Wake \/ FlushBatch("worker") \/ Rotate

-----------------------------------------------------------------------------
(* Shutdown *)

ShutdownBegin ==
  /\ mainPc = "serving" /\ running
  /\ running' = FALSE
  /\ notified' = (notified \/ workerPc = "waiting")
  /\ mainPc' = "join"
  /\ UNCHANGED <<workerPc, pending, flushVars, clockVars, crashes, written>>

(* mutant: flushes without waiting for the worker *)
ShutdownFlushUnjoined ==
  /\ mainPc = "join"
  /\ \/ pending # <<>> /\ Take("main")
     \/ pending = <<>> /\ UNCHANGED <<pending, batch, flushPc>>
  /\ mainPc' = "flush"
  /\ UNCHANGED <<running, workerPc, notified, inserted, txn, db, lastId, dropped,
                 clockVars, crashes, written>>

(* the worker is joined *)
ShutdownFlush ==
  /\ mainPc = "join" /\ workerPc = "exited"
  /\ \/ pending # <<>> /\ Take("main")
     \/ pending = <<>> /\ UNCHANGED <<pending, batch, flushPc>>
  /\ mainPc' = "flush"
  /\ UNCHANGED <<running, workerPc, notified, inserted, txn, db, lastId, dropped,
                 clockVars, crashes, written>>

ShutdownClose ==
  /\ mainPc = "flush" /\ flushPc["main"] = "idle"
  /\ mainPc' = "closed"
  /\ UNCHANGED <<running, workerPc, notified, pending, flushVars, clockVars, crashes, written>>

ShutdownGoesOn == ShutdownFlush \/ FlushBatch("main") \/ ShutdownClose

-----------------------------------------------------------------------------
DayPasses ==
  /\ day < MaxDay
  /\ day' = day + 1 /\ hourPassed' = TRUE
  /\ UNCHANGED <<runVars, pending, flushVars, crashes, written>>

(* killed, and started again on the same database *)
Crash ==
  /\ crashes < MaxCrashes /\ mainPc # "closed"
  /\ crashes' = crashes + 1
  /\ Fresh
  /\ dropped' = TRUE
  /\ UNCHANGED <<db, lastId, day, written>>

Next ==
  \/ WriteBatch \/ RunLoop
  \/ ShutdownBegin \/ ShutdownGoesOn
  \/ DayPasses \/ Crash

(* wait_for returns within a second, SQLite calls return, and the main     *)
(* thread does nothing else while it shuts down.                           *)
Spec == Init /\ [][Next]_vars /\ WF_vars(RunLoop) /\ WF_vars(ShutdownGoesOn)

-----------------------------------------------------------------------------
Row == [call : 1 .. MaxCalls, row : Nat, size : Sizes, day : 0 .. MaxDay]

(* Every variable ranges over what the code can store in it. *)
TypeOK ==
  /\ running \in BOOLEAN /\ notified \in BOOLEAN /\ dropped \in BOOLEAN
  /\ Range(db) \subseteq Row /\ DOMAIN db \subseteq 1 .. lastId
  /\ \A q \in {pending, written, batch["worker"], batch["main"]} : q \in Seq(Row)
  /\ workerPc \in {"top", "lock", "waiting", "flush", "exited"}
  /\ mainPc \in {"serving", "join", "flush", "closed"}
  /\ flushPc \in [Threads -> {"idle", "begin", "insert", "commit"}]
  /\ inserted \in 0 .. Len(batch["worker"]) + Len(batch["main"])
  /\ txn \in Threads \cup {"none"}
  /\ day \in 0 .. MaxDay /\ hourPassed \in BOOLEAN /\ crashes \in 0 .. MaxCrashes

(* As long as nothing fails and no row has expired, the rows are stored in *)
(* the order they were queued and none is lost or doubled, whether the     *)
(* worker or Shutdown() stores them.                                       *)
NothingLost ==
  ~dropped /\ day <= Retention =>
    db \o batch["worker"] \o batch["main"] \o pending = written

(* The rows of one WriteBatch are stored together or not at all, whatever  *)
(* fails, dies or expires in between.                                      *)
BatchAtomic ==
  \A r \in Range(db) : {x.row : x \in {y \in Range(db) : y.call = r.call}} = 1 .. r.size

(* A thread that is not in FlushBatch has no transaction open: a failure   *)
(* never leaves one behind for every later BEGIN to fail on.               *)
NoTransactionLeft == \A t \in Threads : txn = t => flushPc[t] \in {"insert", "commit"}

(* What is queued and what a thread is storing waits; no thread, transac-  *)
(* tion or place in the code shows in what the history promises.           *)
Batches == INSTANCE BatchStore WITH
  queue <- batch["worker"] \o batch["main"] \o pending, table <- db, calls <- Calls

ImplementsStore == Batches!Spec

(* A stored row is deleted only when it is older than the retention.       *)
StoredUntilExpired ==
  [][\A r \in Range(db) \ Range(db') : r.day + Retention < day]_vars

(* Shutdown() returns although its notification may fall between the       *)
(* worker's look at running_ and its wait.                                 *)
ShutdownReturns == mainPc = "join" ~> mainPc \in {"closed", "serving"}
=============================================================================
