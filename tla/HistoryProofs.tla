----------------------------- MODULE HistoryProofs -----------------------------
(***************************************************************************)
(* Proofs about the history logger as Threads runs it, for every size of   *)
(* batch, queue limit and retention, any number of calls, days and kills.  *)
(***************************************************************************)
EXTENDS Threads, SequenceTheorems, TLAPS

AnyRow == [call : Nat, row : Nat, size : Sizes, day : Nat]

(* What the variables hold. *)
Shape ==
  /\ pending \in Seq(AnyRow) /\ written \in Seq(AnyRow)
  /\ batch \in [History!Threads -> Seq(AnyRow)]
  /\ flushPc \in [History!Threads -> {"idle", "begin", "insert", "commit"}]
  /\ mainPc \in {"serving", "join", "flush", "closed"}
  /\ txn \in History!Threads \cup {"none"}
  /\ lastId \in Nat /\ inserted \in Nat /\ day \in Nat
  /\ db \in [DOMAIN db -> AnyRow] /\ DOMAIN db \subseteq 1 .. lastId

(* Who flushes: the worker in its loop, the main thread once the worker    *)
(* has been joined; so never both.                                         *)
Control ==
  /\ workerPc # "flush" => flushPc["worker"] = "idle"
  /\ mainPc # "flush" => flushPc["main"] = "idle"
  /\ mainPc \in {"flush", "closed"} => workerPc = "exited"
  /\ \A t \in History!Threads :
       /\ flushPc[t] = "idle" => batch[t] = << >>
       /\ txn = t <=> flushPc[t] \in {"insert", "commit"}
       /\ flushPc[t] = "commit" => inserted = Len(batch[t])

(* The rows of a call are sequences of rows. *)
LEMMA RowsTyped ==
  ASSUME Shape, NEW c \in Nat, NEW size \in Sizes
  PROVE  History!Rows(c, size) \in Seq(AnyRow) /\ Len(History!Rows(c, size)) = size
<1>1. size \in Nat
  BY SizesAssumption
<1>2. \A n \in 1 .. size : [call |-> c, row |-> n, size |-> size, day |-> day] \in AnyRow
  BY <1>1 DEF Shape, AnyRow
<1> QED
  BY <1>1, <1>2 DEF History!Rows

(* The number of the last call is a number. *)
LEMMA CallsTyped == ASSUME Shape PROVE History!Calls \in Nat
<1>1. CASE written = << >>
  BY <1>1 DEF History!Calls
<1>2. CASE written # << >>
  <2>1. written[Len(written)] \in AnyRow
    BY <1>2 DEF Shape
  <2> QED
    BY <1>2, <2>1 DEF History!Calls, History!Last, AnyRow
<1> QED
  BY <1>1, <1>2

(* Only the thread that flushes is in FlushBatch. *)
LEMMA OneFlushes ==
  ASSUME Shape, Control, NEW t \in History!Threads, flushPc[t] # "idle"
  PROVE  \A u \in History!Threads \ {t} : flushPc[u] = "idle" /\ batch[u] = << >>
  BY DEF Shape, Control, History!Threads

(* Done() ends one thread's flush, whatever the other does. *)
LEMMA DoneKeeps ==
  ASSUME Shape, NEW t \in History!Threads, History!Done(t)
  PROVE  /\ flushPc' \in [History!Threads -> {"idle", "begin", "insert", "commit"}]
         /\ batch' \in [History!Threads -> Seq(AnyRow)]
         /\ flushPc'[t] = "idle" /\ batch'[t] = << >> /\ inserted' = 0
         /\ \A u \in History!Threads \ {t} : flushPc'[u] = flushPc[u] /\ batch'[u] = batch[u]
  BY DEF Shape, History!Done

(* A flush step keeps types and control. *)
LEMMA FlushTyped ==
  ASSUME Shape, Control, NEW t \in History!Threads, History!FlushBatch(t)
  PROVE  Shape' /\ Control'
<1>0. /\ flushPc[t] # "idle"
      /\ UNCHANGED <<running, workerPc, notified, mainPc, pending, day, written>>
  BY DEF History!FlushBatch, History!Begin, History!Insert, History!Commit, History!runVars,
         History!clockVars
<1>1. \A u \in History!Threads \ {t} : flushPc[u] = "idle" /\ batch[u] = << >>
  BY <1>0, OneFlushes
<1>2. ASSUME History!Done(t)
      PROVE  /\ \A u \in History!Threads : flushPc'[u] = "idle" /\ batch'[u] = << >>
             /\ txn' = "none" => Control'
             /\ UNCHANGED txn /\ txn # t => Control'
  <2>1. \A u \in History!Threads : flushPc'[u] = "idle" /\ batch'[u] = << >>
    BY <1>1, <1>2, DoneKeeps
  <2>2. txn' = "none" \/ (UNCHANGED txn /\ txn # t) => \A u \in History!Threads : txn' # u
    BY <1>1 DEF Control, History!Threads
  <2> QED
    BY <1>0, <2>1, <2>2 DEF Control, History!Threads
<1>3. ASSUME History!Done(t), UNCHANGED <<db, lastId>>, txn' \in {"none", txn}
      PROVE  Shape'
  <2>1. /\ flushPc' \in [History!Threads -> {"idle", "begin", "insert", "commit"}]
        /\ batch' \in [History!Threads -> Seq(AnyRow)]
        /\ inserted' = 0
    BY <1>3, DoneKeeps
  <2> QED
    BY <1>0, <1>3, <2>1 DEF Shape
<1>4. CASE History!Begin(t)
  <2>1. CASE History!Done(t) /\ UNCHANGED txn
    BY <1>2, <1>3, <1>4, <2>1 DEF History!Begin, Control
  <2>2. CASE txn = "none" /\ txn' = t /\ flushPc' = [flushPc EXCEPT ![t] = "insert"]
             /\ UNCHANGED <<batch, inserted, dropped>>
    BY <1>0, <1>1, <1>4, <2>2 DEF History!Begin, Shape, Control, History!Threads
  <2> QED
    BY <1>4, <2>1, <2>2 DEF History!Begin
<1>5. CASE History!Insert(t)
  <2>1. CASE inserted < Len(batch[t]) /\ inserted' = inserted + 1
             /\ UNCHANGED <<flushPc, batch, txn, dropped>>
    BY <1>0, <1>1, <1>5, <2>1 DEF History!Insert, Shape, Control, History!Threads
  <2>2. CASE inserted = Len(batch[t]) /\ flushPc' = [flushPc EXCEPT ![t] = "commit"]
             /\ UNCHANGED <<batch, inserted, txn, dropped>>
    BY <1>0, <1>1, <1>5, <2>2 DEF History!Insert, Shape, Control, History!Threads
  <2>3. CASE History!Rollback(t)
    BY <1>2, <1>3, <1>5, <2>3 DEF History!Insert, History!Rollback
  <2> QED
    BY <1>5, <2>1, <2>2, <2>3 DEF History!Insert
<1>6. CASE History!Commit(t)
  <2>1. CASE History!Rollback(t) /\ UNCHANGED <<db, lastId>>
    BY <1>2, <1>3, <2>1 DEF History!Rollback
  <2>2. CASE History!Store(t) /\ History!Done(t) /\ txn' = "none"
    <3>1. inserted = Len(batch[t]) /\ batch[t] \in Seq(AnyRow)
      BY <1>6 DEF History!Commit, Control, Shape
    <3>2. lastId' \in Nat /\ DOMAIN db' \subseteq 1 .. lastId'
      BY <2>2 DEF History!Store, Shape
    <3>3. ASSUME NEW id \in DOMAIN db' PROVE db'[id] \in AnyRow
      <4>1. CASE id <= lastId
        BY <2>2, <4>1 DEF History!Store, Shape
      <4>2. CASE ~(id <= lastId)
        <5>1. id - lastId \in 1 .. Len(batch[t])
          BY <2>2, <3>1, <4>2 DEF History!Store, Shape
        <5>2. db'[id] = batch[t][id - lastId]
          BY <2>2, <4>2 DEF History!Store
        <5> QED
          BY <3>1, <5>1, <5>2
      <4> QED
        BY <4>1, <4>2
    <3>4. db' \in [DOMAIN db' -> AnyRow]
      BY <2>2, <3>3 DEF History!Store
    <3>5. Shape'
      <4>1. /\ flushPc' \in [History!Threads -> {"idle", "begin", "insert", "commit"}]
            /\ batch' \in [History!Threads -> Seq(AnyRow)]
            /\ inserted' = 0
        BY <2>2, DoneKeeps
      <4> QED
        BY <1>0, <2>2, <3>2, <3>4, <4>1 DEF Shape
    <3> QED
      BY <1>2, <2>2, <3>5
  <2> QED
    BY <1>6, <2>1, <2>2 DEF History!Commit
<1> QED
  BY <1>4, <1>5, <1>6 DEF History!FlushBatch

(* Every step of the history logger keeps types and control. *)
LEMMA StepTyped ==
  ASSUME Shape, Control, History!Next
  PROVE  Shape' /\ Control'
<1> USE DEF History!runVars, History!flushVars, History!clockVars
<1>1. CASE History!WriteBatch
  <2>1. PICK size \in Sizes :
           /\ pending' = pending \o History!Rows(History!Calls + 1, size)
           /\ written' = written \o History!Rows(History!Calls + 1, size)
    BY <1>1 DEF History!WriteBatch
  <2>2. pending' \in Seq(AnyRow) /\ written' \in Seq(AnyRow)
    <3>1. History!Calls + 1 \in Nat
      BY CallsTyped
    <3>2. History!Rows(History!Calls + 1, size) \in Seq(AnyRow)
      BY <3>1, RowsTyped
    <3> QED
      BY <2>1, <3>2 DEF Shape
  <2>3. UNCHANGED <<workerPc, mainPc, flushPc, batch, inserted, txn, db, lastId, day>>
    BY <1>1 DEF History!WriteBatch
  <2> QED
    BY <2>2, <2>3 DEF Shape, Control
<1>2. CASE \E t \in History!Threads : History!FlushBatch(t)
  BY <1>2, FlushTyped
<1>3. CASE History!LoopTop
  BY <1>3 DEF History!LoopTop, Shape, Control
<1>4. CASE History!Dequeue \/ History!Wake
  BY <1>4 DEF History!Dequeue, History!Wake, History!Take, Shape, Control, History!Threads
<1>5. CASE History!Rotate
  <2>1. DOMAIN db' \subseteq 1 .. lastId /\ db' \in [DOMAIN db' -> AnyRow]
    BY <1>5 DEF History!Rotate, History!Restrict, Shape
  <2>2. /\ UNCHANGED <<mainPc, pending, flushPc, batch, inserted, txn, lastId, day, written>>
        /\ flushPc["worker"] = "idle" /\ workerPc = "flush" /\ workerPc' = "top"
    BY <1>5 DEF History!Rotate
  <2> QED
    BY <2>1, <2>2 DEF Shape, Control
<1>6. CASE History!ShutdownBegin
  BY <1>6 DEF History!ShutdownBegin, Shape, Control
<1>7. CASE History!ShutdownFlush
  BY <1>7 DEF History!ShutdownFlush, History!Take, Shape, Control, History!Threads
<1>8. CASE History!ShutdownClose
  BY <1>8 DEF History!ShutdownClose, Shape, Control
<1>9. CASE History!DayPasses
  BY <1>9 DEF History!DayPasses, Shape, Control
<1>10. CASE History!Crash
  BY <1>10 DEF History!Crash, History!Fresh, Shape, Control, History!Threads
<1> QED
  BY <1>1, <1>2, <1>3, <1>4, <1>5, <1>6, <1>7, <1>8, <1>9, <1>10
  DEF History!Next, History!RunLoop, History!ShutdownGoesOn, History!Threads

-----------------------------------------------------------------------------
(* Nothing lost.  While no flush has failed and nothing could expire, what *)
(* is stored, what a thread holds and what waits make up what was queued.  *)

Stored ==
  day <= Retention =>
    /\ DOMAIN db = 1 .. lastId
    /\ ~dropped => db \o batch["worker"] \o batch["main"] \o pending = written

(* While nothing has been deleted the table is the sequence of its rows. *)
LEMMA TableIsSequence ==
  ASSUME Shape, DOMAIN db = 1 .. lastId
  PROVE  db \in Seq(AnyRow) /\ Len(db) = lastId
<1>1. lastId \in Nat /\ db \in [1 .. lastId -> AnyRow]
  BY DEF Shape
<1>2. db \in Seq(AnyRow)
  BY <1>1, SeqDef
<1>3. Len(db) \in Nat /\ DOMAIN db = 1 .. Len(db)
  BY <1>2, LenProperties
<1> QED
  BY <1>1, <1>2, <1>3

(* Storing a batch all of which is inserted appends it to the table. *)
LEMMA StoreAppends ==
  ASSUME Shape, Control, NEW t \in History!Threads, flushPc[t] = "commit",
         DOMAIN db = 1 .. lastId, History!Store(t)
  PROVE  DOMAIN db' = 1 .. lastId' /\ db' = db \o batch[t]
<1>1. inserted = Len(batch[t]) /\ batch[t] \in Seq(AnyRow) /\ lastId \in Nat
  BY DEF Control, Shape
<1>2. db \in Seq(AnyRow) /\ Len(db) = lastId
  BY TableIsSequence
<1>3. db' = [id \in 1 .. lastId + Len(batch[t]) |->
               IF id <= lastId THEN db[id] ELSE batch[t][id - lastId]]
  <2>1. DOMAIN db \cup (lastId + 1 .. lastId + inserted) = 1 .. lastId + Len(batch[t])
    BY <1>1
  <2> QED
    BY <2>1 DEF History!Store
<1>4. lastId' = lastId + Len(batch[t])
  BY <1>1 DEF History!Store
<1>5. /\ db \o batch[t] \in Seq(AnyRow) /\ Len(db \o batch[t]) = lastId + Len(batch[t])
      /\ \A id \in 1 .. lastId + Len(batch[t]) :
           (db \o batch[t])[id] = IF id <= lastId THEN db[id] ELSE batch[t][id - lastId]
  <2> DEFINE b == batch[t]
  <2>1. b \in Seq(AnyRow) /\ Len(db) = lastId
    BY <1>1, <1>2
  <2> HIDE DEF b
  <2>2. /\ db \o b \in Seq(AnyRow) /\ Len(db \o b) = Len(db) + Len(b)
        /\ \A i \in 1 .. Len(db) + Len(b) :
             (db \o b)[i] = IF i <= Len(db) THEN db[i] ELSE b[i - Len(db)]
    BY <1>2, <2>1, ConcatProperties
  <2> QED
    BY <2>1, <2>2 DEF b
<1>6. db \o batch[t] = [id \in 1 .. lastId + Len(batch[t]) |-> (db \o batch[t])[id]]
  <2>1. DOMAIN (db \o batch[t]) = 1 .. lastId + Len(batch[t])
    BY <1>5, LenProperties
  <2>2. db \o batch[t] \in [1 .. lastId + Len(batch[t]) -> AnyRow]
    BY <1>5, LenProperties
  <2> QED
    BY <2>2
<1>7. db' = db \o batch[t]
  <2>1. \A id \in 1 .. lastId + Len(batch[t]) : db'[id] = (db \o batch[t])[id]
    BY <1>3, <1>5
  <2> QED
    BY <1>3, <1>6, <2>1
<1> QED
  BY <1>3, <1>4, <1>7

(* A flush leaves the rows in their order, or says that some are dropped. *)
LEMMA FlushStores ==
  ASSUME Shape, Control, Stored, NEW t \in History!Threads, History!FlushBatch(t)
  PROVE  Stored'
<1>0. /\ flushPc[t] # "idle"
      /\ UNCHANGED <<pending, day, written>>
  BY DEF History!FlushBatch, History!Begin, History!Insert, History!Commit, History!runVars,
         History!clockVars
<1>1. CASE UNCHANGED <<batch, db, lastId, dropped>>
  BY <1>0, <1>1 DEF Stored
<1>2. CASE dropped' = TRUE /\ UNCHANGED <<db, lastId>>
  BY <1>0, <1>2 DEF Stored
<1>3. CASE flushPc[t] = "commit" /\ History!Store(t) /\ History!Done(t) /\ UNCHANGED dropped
  <2> SUFFICES ASSUME day <= Retention
               PROVE  /\ DOMAIN db' = 1 .. lastId'
                      /\ ~dropped => db' \o batch'["worker"] \o batch'["main"] \o pending = written
    BY <1>0, <1>3 DEF Stored
  <2>1. DOMAIN db' = 1 .. lastId' /\ db' = db \o batch[t] /\ db \in Seq(AnyRow)
    BY <1>3, StoreAppends, TableIsSequence DEF Stored
  <2>2. \A u \in History!Threads \ {t} : batch[u] = << >> /\ batch'[u] = << >>
    BY <1>0, <1>3, OneFlushes, DoneKeeps
  <2>3. batch'[t] = << >> /\ batch[t] \in Seq(AnyRow) /\ pending \in Seq(AnyRow)
    BY <1>3, DoneKeeps DEF Shape
  <2>4. db' \in Seq(AnyRow)
    BY <2>1, <2>3
  <2>5. db' \o batch'["worker"] \o batch'["main"] \o pending = (db \o batch[t]) \o pending
    <3>1. batch'["worker"] = << >> /\ batch'["main"] = << >>
      BY <2>2, <2>3 DEF History!Threads
    <3>2. db' \o << >> = db'
      BY <2>4, ConcatEmptySeq
    <3> QED
      BY <2>1, <3>1, <3>2
  <2>6. db \o batch["worker"] \o batch["main"] \o pending = (db \o batch[t]) \o pending
    <3>1. CASE t = "worker"
      <4>1. batch["main"] = << >>
        BY <2>2, <3>1 DEF History!Threads
      <4>2. (db \o batch[t]) \o << >> = db \o batch[t]
        BY <2>1, <2>4, ConcatEmptySeq
      <4> QED
        BY <3>1, <4>1, <4>2
    <3>2. CASE t = "main"
      <4>1. batch["worker"] = << >>
        BY <2>2, <3>2 DEF History!Threads
      <4>2. db \o << >> = db
        BY <2>1, ConcatEmptySeq
      <4> QED
        BY <3>2, <4>1, <4>2
    <3> QED
      BY <3>1, <3>2 DEF History!Threads
  <2> QED
    BY <2>1, <2>5, <2>6 DEF Stored
<1> QED
  BY <1>1, <1>2, <1>3 DEF History!FlushBatch, History!Begin, History!Insert, History!Commit,
                           History!Rollback

(* What is taken to be flushed is still in transit. *)
LEMMA TakeStores ==
  ASSUME Shape, Control, Stored, NEW t \in History!Threads, History!Take(t),
         \A u \in History!Threads : flushPc[u] = "idle",
         UNCHANGED <<db, lastId, day, dropped, written>>
  PROVE  Stored'
<1> SUFFICES ASSUME day <= Retention
             PROVE  db \o batch'["worker"] \o batch'["main"] \o pending'
                      = db \o batch["worker"] \o batch["main"] \o pending
  BY DEF Stored
<1>1. batch["worker"] = << >> /\ batch["main"] = << >> /\ pending \in Seq(AnyRow)
  BY DEF Shape, Control, History!Threads
<1>2. db \in Seq(AnyRow)
  BY TableIsSequence DEF Stored
<1>3. db \o pending \in Seq(AnyRow) /\ db \o << >> = db
  BY <1>1, <1>2, ConcatEmptySeq
<1>4. (db \o pending) \o << >> = db \o pending
  BY <1>3, ConcatEmptySeq
<1>5. pending' = << >> /\ batch'[t] = pending /\ \A u \in History!Threads \ {t} : batch'[u] = << >>
  BY <1>1 DEF Shape, History!Take, History!Threads
<1>6. CASE t = "worker"
  BY <1>1, <1>3, <1>4, <1>5, <1>6 DEF History!Threads
<1>7. CASE t = "main"
  BY <1>1, <1>3, <1>4, <1>5, <1>7 DEF History!Threads
<1> QED
  BY <1>6, <1>7 DEF History!Threads

(* No step loses or doubles a row unless it says so. *)
LEMMA StepStored ==
  ASSUME Shape, Control, Stored, History!Next
  PROVE  Stored'
<1> USE DEF History!runVars, History!flushVars, History!clockVars
<1>1. CASE History!WriteBatch
  <2>1. PICK size \in Sizes :
           /\ pending' = pending \o History!Rows(History!Calls + 1, size)
           /\ written' = written \o History!Rows(History!Calls + 1, size)
    BY <1>1 DEF History!WriteBatch
  <2>2. History!Rows(History!Calls + 1, size) \in Seq(AnyRow)
    BY CallsTyped, RowsTyped
  <2>3. UNCHANGED <<batch, db, lastId, day, dropped>>
    BY <1>1 DEF History!WriteBatch
  <2>4. ASSUME day <= Retention
        PROVE  db \o batch["worker"] \o batch["main"] \o pending'
                 = (db \o batch["worker"] \o batch["main"] \o pending)
                     \o History!Rows(History!Calls + 1, size)
    <3>1. db \in Seq(AnyRow) /\ batch["worker"] \in Seq(AnyRow) /\ batch["main"] \in Seq(AnyRow)
      BY <2>4, TableIsSequence DEF Stored, Shape, History!Threads
    <3>2. db \o batch["worker"] \o batch["main"] \in Seq(AnyRow)
      BY <3>1
    <3> DEFINE sofar == db \o batch["worker"] \o batch["main"]
               new == History!Rows(History!Calls + 1, size)
    <3>3. sofar \in Seq(AnyRow) /\ pending \in Seq(AnyRow) /\ new \in Seq(AnyRow)
      BY <2>2, <3>2 DEF Shape
    <3> HIDE DEF sofar, new
    <3>4. (sofar \o pending) \o new = sofar \o (pending \o new)
      BY ONLY <3>3, ConcatAssociative
    <3> QED
      BY <2>1, <3>4 DEF sofar, new
  <2> QED
    BY <2>1, <2>3, <2>4 DEF Stored
<1>2. CASE \E t \in History!Threads : History!FlushBatch(t)
  BY <1>2, FlushStores
<1>3. CASE History!Dequeue \/ History!Wake
  <2>1. UNCHANGED <<db, lastId, day, dropped, written>>
    BY <1>3 DEF History!Dequeue, History!Wake
  <2>2. CASE UNCHANGED <<pending, batch>>
    BY <2>1, <2>2 DEF Stored
  <2>3. CASE History!Take("worker")
    <3>1. \A u \in History!Threads : flushPc[u] = "idle"
      BY <1>3 DEF History!Dequeue, History!Wake, Control, Shape, History!Threads
    <3> QED
      BY <2>1, <2>3, <3>1, TakeStores DEF History!Threads
  <2> QED
    BY <1>3, <2>2, <2>3 DEF History!Dequeue, History!Wake
<1>4. CASE History!Rotate
  <2>1. UNCHANGED <<pending, batch, lastId, day, dropped, written>>
    BY <1>4 DEF History!Rotate
  <2>2. ASSUME day <= Retention, DOMAIN db = 1 .. lastId PROVE db' = db
    <3>1. \A id \in DOMAIN db : db[id].day + Retention >= day
      BY <2>2, RetentionAssumption DEF Shape, AnyRow
    <3>2. {id \in DOMAIN db : db[id].day + Retention >= day} = DOMAIN db
      BY <3>1
    <3>3. History!Restrict(db, DOMAIN db) = db
      BY DEF History!Restrict, Shape
    <3> QED
      BY <1>4, <3>2, <3>3 DEF History!Rotate
  <2> QED
    BY <2>1, <2>2 DEF Stored
<1>5. CASE History!ShutdownFlush
  <2>1. UNCHANGED <<db, lastId, day, dropped, written>>
    BY <1>5 DEF History!ShutdownFlush
  <2>2. CASE UNCHANGED <<pending, batch>>
    BY <2>1, <2>2 DEF Stored
  <2>3. CASE History!Take("main")
    <3>1. \A u \in History!Threads : flushPc[u] = "idle"
      BY <1>5 DEF History!ShutdownFlush, Control, Shape, History!Threads
    <3> QED
      BY <2>1, <2>3, <3>1, TakeStores DEF History!Threads
  <2> QED
    BY <1>5, <2>2, <2>3 DEF History!ShutdownFlush
<1>6. CASE History!DayPasses
  <2>1. UNCHANGED <<pending, batch, db, lastId, dropped, written>>
    BY <1>6 DEF History!DayPasses
  <2>2. day' <= Retention => day <= Retention
    BY <1>6, RetentionAssumption DEF History!DayPasses, Shape
  <2> QED
    BY <2>1, <2>2 DEF Stored
<1>7. CASE History!Crash
  BY <1>7 DEF History!Crash, Stored
<1>8. CASE History!LoopTop \/ History!ShutdownBegin \/ History!ShutdownClose
  BY <1>8 DEF History!LoopTop, History!ShutdownBegin, History!ShutdownClose, Stored
<1> QED
  BY <1>1, <1>2, <1>3, <1>4, <1>5, <1>6, <1>7, <1>8
  DEF History!Next, History!RunLoop, History!ShutdownGoesOn, History!Threads

-----------------------------------------------------------------------------
(* All or nothing.  Wherever rows are, all rows of their call are there    *)
(* too, because they are queued, taken, committed and expire together.     *)

Sibling(r, k) == [call |-> r.call, row |-> k, size |-> r.size, day |-> r.day]

Whole(S) ==
  \A r \in S : r.row \in 1 .. r.size /\ \A k \in 1 .. r.size : Sibling(r, k) \in S

Complete ==
  /\ Whole(History!Range(db)) /\ Whole(History!Range(pending))
  /\ \A t \in History!Threads : Whole(History!Range(batch[t]))

(* Rows are rows that were queued, each call's with a number of its own.   *)
Queued ==
  /\ History!Range(db) \subseteq History!Range(written)
  /\ History!Range(pending) \subseteq History!Range(written)
  /\ \A t \in History!Threads : History!Range(batch[t]) \subseteq History!Range(written)

Numbered ==
  /\ \A r \in History!Range(written) : r.call <= History!Calls
  /\ \A r, s \in History!Range(written) : r.call = s.call => r.size = s.size

(* The rows of two sequences together. *)
LEMMA RangeConcat ==
  ASSUME NEW s \in Seq(AnyRow), NEW t \in Seq(AnyRow)
  PROVE  History!Range(s \o t) = History!Range(s) \cup History!Range(t)
<1>1. /\ s \o t \in Seq(AnyRow) /\ Len(s \o t) = Len(s) + Len(t)
      /\ \A i \in 1 .. Len(s) + Len(t) :
           (s \o t)[i] = IF i <= Len(s) THEN s[i] ELSE t[i - Len(s)]
  BY ConcatProperties
<1>2. \A i \in 1 .. Len(s) : i \in 1 .. Len(s \o t) /\ (s \o t)[i] = s[i]
  BY <1>1
<1>3. \A i \in 1 .. Len(t) : Len(s) + i \in 1 .. Len(s \o t) /\ (s \o t)[Len(s) + i] = t[i]
  BY <1>1
<1>4. \A i \in 1 .. Len(s \o t) : i \in 1 .. Len(s) \/ i - Len(s) \in 1 .. Len(t)
  BY <1>1
<1>5. History!Range(s \o t) \subseteq History!Range(s) \cup History!Range(t)
  <2> SUFFICES ASSUME NEW i \in 1 .. Len(s \o t)
               PROVE  (s \o t)[i] \in History!Range(s) \cup History!Range(t)
    BY <1>1 DEF History!Range
  <2>1. CASE i <= Len(s)
    BY <1>1, <2>1 DEF History!Range
  <2>2. CASE ~(i <= Len(s))
    <3>1. i - Len(s) \in 1 .. Len(t) /\ (s \o t)[i] = t[i - Len(s)]
      BY <1>1, <2>2
    <3> QED
      BY <3>1 DEF History!Range
  <2> QED
    BY <2>1, <2>2
<1>6. History!Range(s) \subseteq History!Range(s \o t)
  BY <1>1, <1>2 DEF History!Range
<1>7. History!Range(t) \subseteq History!Range(s \o t)
  <2> SUFFICES ASSUME NEW i \in 1 .. Len(t) PROVE t[i] \in History!Range(s \o t)
    BY DEF History!Range
  <2>1. Len(s) + i \in DOMAIN (s \o t) /\ (s \o t)[Len(s) + i] = t[i]
    BY <1>1, <1>3
  <2> QED
    BY <2>1 DEF History!Range
<1> QED
  BY <1>5, <1>6, <1>7

(* Storing a batch adds its rows to the table. *)
LEMMA StoreAdds ==
  ASSUME Shape, Control, NEW t \in History!Threads, flushPc[t] = "commit", History!Store(t)
  PROVE  History!Range(db') = History!Range(db) \cup History!Range(batch[t])
<1>1. inserted = Len(batch[t]) /\ batch[t] \in Seq(AnyRow) /\ lastId \in Nat
      /\ DOMAIN db \subseteq 1 .. lastId
  BY DEF Control, Shape
<1>2. DOMAIN db' = DOMAIN db \cup (lastId + 1 .. lastId + inserted)
  BY DEF History!Store
<1>3. \A id \in DOMAIN db : db'[id] = db[id]
  BY <1>1 DEF History!Store
<1>4. \A id \in lastId + 1 .. lastId + inserted :
         id - lastId \in DOMAIN batch[t] /\ db'[id] = batch[t][id - lastId]
  BY <1>1 DEF History!Store
<1>5. \A i \in DOMAIN batch[t] :
         lastId + i \in lastId + 1 .. lastId + inserted /\ db'[lastId + i] = batch[t][i]
  <2> SUFFICES ASSUME NEW i \in DOMAIN batch[t]
               PROVE  lastId + i \in lastId + 1 .. lastId + inserted
                      /\ db'[lastId + i] = batch[t][i]
    OBVIOUS
  <2>1. i \in 1 .. Len(batch[t])
    BY <1>1
  <2>2. lastId + i \in lastId + 1 .. lastId + inserted /\ (lastId + i) - lastId = i
    BY <1>1, <2>1
  <2> QED
    BY <1>4, <2>2
<1>6. History!Range(db') \subseteq History!Range(db) \cup History!Range(batch[t])
  BY <1>2, <1>3, <1>4 DEF History!Range
<1>7. History!Range(db) \subseteq History!Range(db')
  BY <1>2, <1>3 DEF History!Range
<1>8. History!Range(batch[t]) \subseteq History!Range(db')
  BY <1>2, <1>5 DEF History!Range
<1> QED
  BY <1>6, <1>7, <1>8

(* Whole calls together are whole calls. *)
LEMMA WholeUnion ==
  ASSUME NEW A, NEW B, Whole(A), Whole(B)
  PROVE  Whole(A \cup B)
  BY DEF Whole

(* What WriteBatch brings is one whole call. *)
LEMMA RowsWhole ==
  ASSUME NEW c, NEW size \in Sizes
  PROVE  /\ Whole(History!Range(History!Rows(c, size)))
         /\ \A r \in History!Range(History!Rows(c, size)) : r.call = c /\ r.size = size
<1> DEFINE row(n) == [call |-> c, row |-> n, size |-> size, day |-> day]
<1>1. History!Range(History!Rows(c, size)) = {row(n) : n \in 1 .. size}
  BY DEF History!Rows, History!Range
<1>2. \A n \in 1 .. size : row(n).call = c /\ row(n).size = size /\ row(n).row = n
  OBVIOUS
<1>3. \A n, k \in 1 .. size : Sibling(row(n), k) = row(k)
  BY DEF Sibling
<1> HIDE DEF row
<1> QED
  BY <1>1, <1>2, <1>3 DEF Whole

(* Rotation deletes by the day, which is the same for all rows of a call.  *)
LEMMA RotateWhole ==
  ASSUME Shape, Whole(History!Range(db)), History!Rotate
  PROVE  /\ Whole(History!Range(db')) /\ History!Range(db') \subseteq History!Range(db)
         /\ \A r \in History!Range(db) \ History!Range(db') : r.day + Retention < day
<1>1. CASE db' = db
  BY <1>1
<1>2. CASE db' = History!Restrict(db, {id \in DOMAIN db : db[id].day + Retention >= day})
  <2>1. History!Range(db') = {r \in History!Range(db) : r.day + Retention >= day}
    BY <1>2 DEF History!Restrict, History!Range
  <2>2. \A r : \A k : Sibling(r, k).day = r.day
    BY DEF Sibling
  <2>3. \A r \in History!Range(db) : r.day + Retention \in Nat
    BY RetentionAssumption DEF History!Range, Shape, AnyRow
  <2>4. Whole(History!Range(db'))
    BY <2>1, <2>2 DEF Whole
  <2> QED
    BY <2>1, <2>3, <2>4 DEF Shape
<1> QED
  BY <1>1, <1>2 DEF History!Rotate

(* Each call counts once. *)
LEMMA CallsCounted ==
  ASSUME Shape, History!WriteBatch
  PROVE  History!Calls' = History!Calls + 1
<1> DEFINE c == History!Calls + 1
<1>1. PICK size \in Sizes : written' = written \o History!Rows(c, size)
  BY DEF History!WriteBatch
<1>2. c \in Nat /\ size \in Nat \ {0}
  BY CallsTyped, SizesAssumption
<1> HIDE DEF c
<1> DEFINE new == History!Rows(c, size)
<1>3. /\ new \in Seq(AnyRow) /\ Len(new) = size
      /\ \A r \in History!Range(new) : r.call = c
  BY <1>2, RowsTyped, RowsWhole
<1> HIDE DEF new
<1>4. /\ written' \in Seq(AnyRow) /\ Len(written') = Len(written) + size
      /\ written'[Len(written) + size] = new[size]
  <2>1. written \in Seq(AnyRow) /\ written' = written \o new /\ Len(written) \in Nat
    BY <1>1 DEF Shape, new
  <2> QED
    BY <1>2, <1>3, <2>1, ConcatProperties
<1>5. new[size] \in History!Range(new)
  BY <1>2, <1>3 DEF History!Range
<1>6. written' # << >>
  BY <1>2, <1>4 DEF Shape
<1> QED
  BY <1>3, <1>4, <1>5, <1>6 DEF History!Calls, History!Last, c

(* A new call has a number above all others and is whole. *)
LEMMA WriteComplete ==
  ASSUME Shape, Complete, Queued, Numbered, History!WriteBatch
  PROVE  Complete' /\ Queued' /\ Numbered'
<1> DEFINE c == History!Calls + 1
<1>1. PICK size \in Sizes : /\ pending' = pending \o History!Rows(c, size)
                            /\ written' = written \o History!Rows(c, size)
  BY DEF History!WriteBatch
<1>2. UNCHANGED <<batch, db>>
  BY DEF History!WriteBatch, History!flushVars
<1>3. c \in Nat /\ size \in Nat \ {0}
  BY CallsTyped, SizesAssumption
<1> HIDE DEF c
<1> DEFINE new == History!Rows(c, size)
<1>4. /\ new \in Seq(AnyRow) /\ Len(new) = size
      /\ Whole(History!Range(new))
      /\ \A r \in History!Range(new) : r.call = c /\ r.size = size
  BY <1>3, RowsTyped, RowsWhole
<1> HIDE DEF new
<1>5. /\ History!Range(pending') = History!Range(pending) \cup History!Range(new)
      /\ History!Range(written') = History!Range(written) \cup History!Range(new)
  BY <1>1, <1>4, RangeConcat DEF Shape, new
<1>6. Complete'
  BY <1>2, <1>4, <1>5, WholeUnion DEF Complete
<1>7. Queued'
  BY <1>2, <1>5 DEF Queued
<1>8. History!Calls' = c
  BY CallsCounted DEF c
<1>9. \A r \in History!Range(written) : r.call <= History!Calls /\ r.call \in Nat
  <2>1. \A i \in DOMAIN written : written[i] \in AnyRow
    BY DEF Shape
  <2>2. \A r \in History!Range(written) : r \in AnyRow
    BY <2>1 DEF History!Range
  <2> QED
    BY <2>2 DEF Numbered, AnyRow
<1>10. \A r \in History!Range(written) : r.call < c
  BY <1>9, CallsTyped DEF c
<1>11. Numbered'
  BY <1>3, <1>4, <1>5, <1>8, <1>9, <1>10 DEF Numbered
<1> QED
  BY <1>6, <1>7, <1>11

(* The empty sequence has no rows. *)
LEMMA RangeEmpty == History!Range(<< >>) = {} /\ Whole({})
  BY DEF History!Range, Whole

(* A flush moves a batch to the table whole, or drops it. *)
LEMMA FlushComplete ==
  ASSUME Shape, Control, Complete, Queued, Numbered,
         NEW t \in History!Threads, History!FlushBatch(t)
  PROVE  Complete' /\ Queued' /\ Numbered'
<1>0. UNCHANGED <<pending, written>>
  BY DEF History!FlushBatch, History!Begin, History!Insert, History!Commit
<1>1. Numbered'
  BY <1>0 DEF Numbered, History!Calls
<1>2. CASE UNCHANGED <<batch, db>>
  BY <1>0, <1>1, <1>2 DEF Complete, Queued
<1>3. CASE History!Done(t) /\ UNCHANGED db
  <2>1. \A u \in History!Threads : batch'[u] = batch[u] \/ batch'[u] = << >>
    BY <1>3, DoneKeeps
  <2> QED
    BY <1>0, <1>1, <1>3, <2>1, RangeEmpty DEF Complete, Queued
<1>4. CASE flushPc[t] = "commit" /\ History!Store(t) /\ History!Done(t)
  <2>1. \A u \in History!Threads : batch'[u] = batch[u] \/ batch'[u] = << >>
    BY <1>4, DoneKeeps
  <2>2. History!Range(db') = History!Range(db) \cup History!Range(batch[t])
    BY <1>4, StoreAdds
  <2>3. Whole(History!Range(db'))
    BY <2>2, WholeUnion DEF Complete
  <2> QED
    BY <1>0, <1>1, <2>1, <2>2, <2>3, RangeEmpty DEF Complete, Queued
<1> QED
  BY <1>2, <1>3, <1>4 DEF History!FlushBatch, History!Begin, History!Insert, History!Commit,
                           History!Rollback

(* Rows that are taken, or lost with the process, are taken or lost whole. *)
LEMMA TakeComplete ==
  ASSUME Shape, Complete, Queued, Numbered, UNCHANGED <<db, written>>,
         pending' = pending \/ pending' = << >>,
         \A t \in History!Threads : batch'[t] \in {batch[t], pending, << >>}
  PROVE  Complete' /\ Queued' /\ Numbered'
<1>1. Numbered'
  BY DEF Numbered, History!Calls
<1>2. Complete' /\ Queued'
  BY RangeEmpty DEF Complete, Queued
<1> QED
  BY <1>1, <1>2

(* No step splits a call. *)
LEMMA StepComplete ==
  ASSUME Shape, Control, Complete, Queued, Numbered, History!Next
  PROVE  Complete' /\ Queued' /\ Numbered'
<1> USE DEF History!runVars, History!flushVars, History!clockVars
<1>1. CASE History!WriteBatch
  BY <1>1, WriteComplete
<1>2. CASE \E t \in History!Threads : History!FlushBatch(t)
  BY <1>2, FlushComplete
<1>3. CASE History!Rotate
  <2>1. UNCHANGED <<pending, batch, written>>
    BY <1>3 DEF History!Rotate
  <2>2. Numbered'
    BY <2>1 DEF Numbered, History!Calls
  <2> QED
    BY <1>3, <2>1, <2>2, RotateWhole DEF Complete, Queued
<1>4. CASE History!Dequeue \/ History!Wake \/ History!ShutdownFlush
  <2>1. UNCHANGED <<db, written>>
    BY <1>4 DEF History!Dequeue, History!Wake, History!ShutdownFlush
  <2>2. /\ pending' = pending \/ pending' = << >>
        /\ \A t \in History!Threads : batch'[t] \in {batch[t], pending, << >>}
    BY <1>4 DEF History!Dequeue, History!Wake, History!ShutdownFlush, History!Take, Shape
  <2> QED
    BY <2>1, <2>2, TakeComplete
<1>5. CASE History!Crash
  <2>1. UNCHANGED <<db, written>> /\ pending' = << >>
    BY <1>5 DEF History!Crash, History!Fresh
  <2>2. \A t \in History!Threads : batch'[t] = << >>
    BY <1>5 DEF History!Crash, History!Fresh
  <2> QED
    BY <2>1, <2>2, TakeComplete
<1>6. CASE History!LoopTop \/ History!ShutdownBegin \/ History!ShutdownClose \/ History!DayPasses
  <2>1. UNCHANGED <<db, written, pending, batch>>
    BY <1>6 DEF History!LoopTop, History!ShutdownBegin, History!ShutdownClose, History!DayPasses
  <2> QED
    BY <2>1, TakeComplete
<1> QED
  BY <1>1, <1>2, <1>3, <1>4, <1>5, <1>6
  DEF History!Next, History!RunLoop, History!ShutdownGoesOn, History!Threads

-----------------------------------------------------------------------------
(* The promise of BatchStore.  The queue it speaks of is a thread's batch  *)
(* followed by what is pending, and no call has rows in both.              *)

Apart ==
  \A t \in History!Threads :
    \A r \in History!Range(batch[t]), s \in History!Range(pending) : r.call # s.call

Queue == batch["worker"] \o batch["main"] \o pending

(* No step brings rows of one call to both. *)
LEMMA StepApart ==
  ASSUME Shape, Control, Queued, Numbered, Apart, History!Next
  PROVE  Apart'
<1> USE DEF History!runVars, History!flushVars, History!clockVars
<1>1. CASE History!WriteBatch
  <2> DEFINE c == History!Calls + 1
  <2>1. PICK size \in Sizes : pending' = pending \o History!Rows(c, size)
    BY <1>1 DEF History!WriteBatch
  <2>2. c \in Nat /\ size \in Sizes /\ \A r \in History!Range(written) : r.call < c
    <3>1. \A i \in DOMAIN written : written[i] \in AnyRow
      BY DEF Shape
    <3>2. \A r \in History!Range(written) : r.call \in Nat
      BY <3>1 DEF AnyRow, History!Range
    <3> QED
      BY <3>2, CallsTyped DEF Numbered
  <2>3. History!Range(pending') = History!Range(pending) \cup History!Range(History!Rows(c, size))
    BY <2>1, <2>2, RowsTyped, RangeConcat DEF Shape
  <2>4. \A s \in History!Range(History!Rows(c, size)) : s.call = c
    BY RowsWhole
  <2>5. UNCHANGED batch
    BY <1>1 DEF History!WriteBatch
  <2>6. \A t \in History!Threads : \A r \in History!Range(batch[t]) : r.call # c
    BY <2>2 DEF Queued
  <2> HIDE DEF c
  <2> QED
    BY <2>3, <2>4, <2>5, <2>6 DEF Apart
<1>2. CASE \E t \in History!Threads : History!FlushBatch(t)
  <2>1. PICK t \in History!Threads : History!FlushBatch(t)
    BY <1>2
  <2>2. UNCHANGED pending
    BY <2>1 DEF History!FlushBatch, History!Begin, History!Insert, History!Commit
  <2>3. UNCHANGED batch \/ History!Done(t)
    BY <2>1 DEF History!FlushBatch, History!Begin, History!Insert, History!Commit,
                History!Rollback
  <2>4. \A u \in History!Threads : batch'[u] = batch[u] \/ batch'[u] = << >>
    BY <2>3, DoneKeeps
  <2> QED
    BY <2>2, <2>4, RangeEmpty DEF Apart
<1>3. CASE pending' = << >>
  BY <1>3, RangeEmpty DEF Apart
<1>4. CASE UNCHANGED <<pending, batch>>
  BY <1>4 DEF Apart
<1> QED
  BY <1>1, <1>2, <1>3, <1>4
  DEF History!Next, History!RunLoop, History!ShutdownGoesOn, History!Threads, History!LoopTop,
      History!Dequeue, History!Wake, History!Take, History!Rotate, History!ShutdownBegin,
      History!ShutdownFlush, History!ShutdownClose, History!DayPasses, History!Crash,
      History!Fresh

(* The queue is the batch of the thread that flushes and what is pending. *)
LEMMA QueueOfFlush ==
  ASSUME Shape, NEW t \in History!Threads,
         \A u \in History!Threads \ {t} : batch[u] = << >>
  PROVE  Queue = batch[t] \o pending
<1>1. batch[t] \in Seq(AnyRow)
  BY DEF Shape
<1>2. batch[t] \o << >> = batch[t] /\ << >> \o batch[t] = batch[t]
  BY <1>1, ConcatEmptySeq
<1>3. CASE t = "worker"
  BY <1>2, <1>3 DEF Queue, History!Threads
<1>4. CASE t = "main"
  BY <1>2, <1>4 DEF Queue, History!Threads
<1> QED
  BY <1>3, <1>4 DEF History!Threads

(* With no batch it is what is pending. *)
LEMMA QueueOfIdle ==
  ASSUME Shape, \A u \in History!Threads : batch[u] = << >>
  PROVE  Queue = pending
<1>1. Queue = batch["main"] \o pending /\ batch["main"] = << >>
  BY QueueOfFlush DEF History!Threads
<1>2. << >> \o pending = pending
  BY ConcatEmptySeq DEF Shape
<1> QED
  BY <1>1, <1>2

(* A batch of whole calls can leave the front of a queue. *)
LEMMA FrontLeaves ==
  ASSUME NEW b \in Seq(AnyRow), NEW p \in Seq(AnyRow), b # << >>,
         \A r \in History!Range(b), s \in History!Range(p) : r.call # s.call
  PROVE  /\ Len(b) \in 1 .. Len(b \o p)
         /\ Len(b) = Len(b \o p) \/ (b \o p)[Len(b)].call # (b \o p)[Len(b) + 1].call
         /\ p = [i \in 1 .. Len(b \o p) - Len(b) |-> (b \o p)[Len(b) + i]]
         /\ \A i \in 1 .. Len(b) : (b \o p)[i] = b[i]
<1> DEFINE q == b \o p
<1>1. /\ q \in Seq(AnyRow) /\ Len(q) = Len(b) + Len(p)
      /\ \A i \in 1 .. Len(b) + Len(p) : q[i] = IF i <= Len(b) THEN b[i] ELSE p[i - Len(b)]
  BY ConcatProperties
<1> HIDE DEF q
<1>2. Len(b) \in Nat \ {0} /\ Len(p) \in Nat
  BY EmptySeq
<1>3. \A i \in 1 .. Len(b) : q[i] = b[i]
  BY <1>1, <1>2
<1>4. ASSUME NEW i \in 1 .. Len(p) PROVE q[Len(b) + i] = p[i]
  <2>1. Len(b) + i \in 1 .. Len(b) + Len(p) /\ ~(Len(b) + i <= Len(b)) /\ (Len(b) + i) - Len(b) = i
    BY <1>2
  <2> QED
    BY <1>1, <2>1
<1>5. p = [i \in 1 .. Len(q) - Len(b) |-> q[Len(b) + i]]
  <2>1. Len(q) - Len(b) = Len(p)
    BY <1>1, <1>2
  <2>2. p = [i \in 1 .. Len(p) |-> p[i]]
    OBVIOUS
  <2> QED
    BY <1>4, <2>1, <2>2
<1>6. ASSUME Len(b) # Len(q) PROVE q[Len(b)].call # q[Len(b) + 1].call
  <2>1. 1 \in 1 .. Len(p) /\ Len(b) \in 1 .. Len(b)
    BY <1>1, <1>2, <1>6
  <2>2. q[Len(b) + 1] = p[1] /\ q[Len(b)] = b[Len(b)]
    BY <1>3, <1>4, <2>1
  <2>3. p[1] \in History!Range(p) /\ b[Len(b)] \in History!Range(b)
    BY <2>1 DEF History!Range
  <2> QED
    BY <2>2, <2>3
<1>7. Len(b) \in 1 .. Len(q)
  BY <1>1, <1>2
<1> QED
  BY <1>3, <1>5, <1>6, <1>7 DEF q

-----------------------------------------------------------------------------
IInv == Shape /\ Control /\ Stored /\ Complete /\ Queued /\ Numbered /\ Apart

(* The logger starts with empty queues on an empty database. *)
LEMMA InitHolds == ASSUME Init PROVE IInv
<1>1. /\ db = << >> /\ pending = << >> /\ written = << >> /\ day = 0 /\ lastId = 0
      /\ inserted = 0 /\ txn = "none" /\ mainPc = "serving" /\ workerPc = "top"
      /\ batch = [t \in History!Threads |-> << >>]
      /\ flushPc = [t \in History!Threads |-> "idle"]
  BY DEF Init, History!Init
<1>2. << >> \in Seq(AnyRow) /\ Len(<< >>) = 0 /\ DOMAIN << >> = 1 .. 0
  BY EmptySeq
<1>3. Shape
  BY <1>1, <1>2 DEF Shape, History!Threads
<1>4. Control
  BY <1>1 DEF Control, History!Threads
<1>5. Stored
  BY <1>1, <1>2, ConcatEmptySeq DEF Stored, History!Threads
<1>6. Complete /\ Queued
  BY <1>1, RangeEmpty DEF Complete, Queued
<1>7. Numbered
  BY <1>1, RangeEmpty DEF Numbered
<1>8. Apart
  BY <1>1, RangeEmpty DEF Apart
<1> QED
  BY <1>3, <1>4, <1>5, <1>6, <1>7, <1>8 DEF IInv

(* The invariant is kept by the logger's steps and by those of the other   *)
(* parts, which share nothing with it.                                     *)
LEMMA StepHolds == ASSUME IInv, [Next]_vars PROVE IInv'
<1>1. CASE HistorySteps
  BY <1>1, StepTyped, StepStored, StepComplete, StepApart DEF HistorySteps, IInv
<1>2. CASE UNCHANGED historyVars
  BY <1>2 DEF historyVars, IInv, Shape, Control, Stored, Complete, Queued, Numbered,
              Apart, History!Calls
<1> QED
  BY <1>1, <1>2 DEF Next, BlockSteps, ClientSteps, MonitorSteps, EtwSteps, vars

(* The invariant holds in every behaviour. *)
LEMMA Inductive == Spec => []IInv
  BY InitHolds, StepHolds, PTL DEF Spec

-----------------------------------------------------------------------------
(* HistoryLogger: while nothing fails and nothing has expired, the rows    *)
(* that were queued are stored in order, none lost, none doubled, whoever  *)
(* of the worker and Shutdown() flushes them (FlushBatch, Shutdown).       *)
THEOREM StoredInOrder == Spec => []NothingLost
<1>1. IInv => NothingLost
  BY DEF IInv, Stored, NothingLost, History!NothingLost
<1> QED
  BY <1>1, Inductive, PTL

(* HistoryLogger: whatever fails, dies or expires, the rows of one call    *)
(* are stored together or not at all, and a thread outside FlushBatch has  *)
(* no transaction open (FlushBatch, RotateIfNeeded).                       *)
THEOREM BatchesAreAtomic == Spec => []BatchAtomic
<1>1. ASSUME IInv, NEW r \in History!Range(db)
      PROVE  {x.row : x \in {y \in History!Range(db) : y.call = r.call}} = 1 .. r.size
  <2>1. \A y \in History!Range(db) : y.call = r.call => y.size = r.size
    BY <1>1 DEF IInv, Queued, Numbered
  <2>2. \A y \in History!Range(db) : y.call = r.call => y.row \in 1 .. r.size
    BY <1>1, <2>1 DEF IInv, Complete, Whole
  <2>3. \A k \in 1 .. r.size : Sibling(r, k) \in History!Range(db)
    BY <1>1 DEF IInv, Complete, Whole
  <2>4. \A k : Sibling(r, k).call = r.call /\ Sibling(r, k).row = k
    BY DEF Sibling
  <2> QED
    BY <2>2, <2>3, <2>4
<1>2. IInv => BatchAtomic
  BY <1>1 DEF IInv, Control, BatchAtomic, History!BatchAtomic, History!NoTransactionLeft
<1> QED
  BY <1>2, Inductive, PTL

(* HistoryLogger: a row is stored until it is older than the retention;    *)
(* no flush, failure, kill or shutdown deletes one (RotateIfNeeded).       *)
THEOREM RowsKept == Spec => StoredUntilExpired
<1>1. ASSUME IInv, [Next]_vars
      PROVE  [\A r \in History!Range(db) \ History!Range(db') : r.day + Retention < day]_(History!vars)
  <2>1. CASE UNCHANGED historyVars
    BY <2>1 DEF historyVars, History!vars, History!runVars, History!flushVars, History!clockVars
  <2>2. CASE History!Rotate
    BY <1>1, <2>2, RotateWhole DEF IInv, Complete
  <2>3. ASSUME NEW t \in History!Threads, History!FlushBatch(t)
        PROVE  History!Range(db) \subseteq History!Range(db')
    <3>1. CASE db' = db
      BY <3>1
    <3>2. CASE flushPc[t] = "commit" /\ History!Store(t)
      BY <1>1, <3>2, StoreAdds DEF IInv
    <3> QED
      BY <2>3, <3>1, <3>2 DEF History!FlushBatch, History!Begin, History!Insert, History!Commit
  <2>4. CASE History!Next /\ ~History!Rotate /\ ~\E t \in History!Threads : History!FlushBatch(t)
    BY <2>4 DEF History!Next, History!RunLoop, History!ShutdownGoesOn, History!Threads,
      History!WriteBatch, History!LoopTop, History!Dequeue, History!Wake, History!ShutdownBegin,
      History!ShutdownFlush, History!ShutdownClose, History!DayPasses, History!Crash,
      History!flushVars
  <2>5. CASE HistorySteps
    BY <2>2, <2>3, <2>4, <2>5 DEF HistorySteps
  <2> QED
    BY <1>1, <2>1, <2>5 DEF Next, BlockSteps, ClientSteps, MonitorSteps, EtwSteps, vars
<1> QED
  BY <1>1, Inductive, PTL DEF Spec, StoredUntilExpired, History!StoredUntilExpired

-----------------------------------------------------------------------------
(* What a step of the logger is to BatchStore. *)

Unseen == UNCHANGED <<Queue, db, lastId, day, History!Calls>>

(* A flush stores its batch, loses it, or does not show. *)
LEMMA FlushImplements ==
  ASSUME IInv, NEW t \in History!Threads, History!FlushBatch(t)
  PROVE  History!Batches!StoreFront \/ History!Batches!LoseFront \/ Unseen
<1>0. /\ Shape /\ Control /\ Shape' /\ Control' /\ flushPc[t] # "idle"
      /\ UNCHANGED <<pending, day, written>>
  BY FlushTyped DEF IInv, History!FlushBatch, History!Begin, History!Insert, History!Commit,
     History!runVars, History!clockVars
<1>1. UNCHANGED History!Calls
  BY <1>0 DEF History!Calls
<1>2. \A u \in History!Threads \ {t} : batch[u] = << >>
  BY <1>0, OneFlushes
<1>3. Queue = batch[t] \o pending
  BY <1>0, <1>2, QueueOfFlush
<1>4. CASE UNCHANGED <<batch, db, lastId>>
  BY <1>0, <1>1, <1>4 DEF Unseen, Queue
<1>5. ASSUME History!Done(t) PROVE Queue' = pending
  <2>1. \A u \in History!Threads : batch'[u] = << >>
    BY <1>0, <1>2, <1>5, DoneKeeps
  <2>2. << >> \o << >> = << >> /\ << >> \o pending = pending
    BY <1>0, EmptySeq, ConcatEmptySeq DEF Shape
  <2> QED
    BY <1>0, <2>1, <2>2 DEF Queue, History!Threads
<1>6. CASE batch[t] = << >> /\ History!Done(t)
           /\ (UNCHANGED <<db, lastId>> \/ (History!Store(t) /\ flushPc[t] = "commit"))
  <2>1. << >> \o pending = pending
    BY <1>0, ConcatEmptySeq DEF Shape
  <2>2. CASE UNCHANGED <<db, lastId>>
    BY <1>0, <1>1, <1>3, <1>5, <1>6, <2>1, <2>2 DEF Unseen
  <2>3. CASE History!Store(t) /\ flushPc[t] = "commit"
    <3>1. inserted = 0 /\ lastId \in Nat
      BY <1>0, <1>6, <2>3, EmptySeq DEF Control, Shape
    <3>2. DOMAIN db \cup (lastId + 1 .. lastId + inserted) = DOMAIN db /\ lastId' = lastId
      BY <2>3, <3>1 DEF History!Store
    <3>3. \A id \in DOMAIN db : id <= lastId
      BY <1>0 DEF Shape
    <3>4. db' = [id \in DOMAIN db |-> db[id]]
      BY <2>3, <3>2, <3>3 DEF History!Store
    <3>5. db' = db
      BY <1>0, <3>4 DEF Shape
    <3> QED
      BY <1>0, <1>1, <1>3, <1>5, <1>6, <2>1, <3>2, <3>5 DEF Unseen
  <2> QED
    BY <1>6, <2>2, <2>3
<1>7. CASE batch[t] # << >> /\ History!Done(t)
           /\ (UNCHANGED <<db, lastId>> \/ (History!Store(t) /\ flushPc[t] = "commit"))
  <2> DEFINE b == batch[t]
             n == Len(batch[t])
  <2>1. PICK q : q = Queue
    OBVIOUS
  <2>2. b \in Seq(AnyRow) /\ pending \in Seq(AnyRow) /\ q = b \o pending /\ b # << >>
    BY <1>0, <1>3, <1>7, <2>1 DEF Shape
  <2>3. \A r \in History!Range(b), s \in History!Range(pending) : r.call # s.call
    BY DEF IInv, Apart
  <2>4. /\ n \in 1 .. Len(q)
        /\ n = Len(q) \/ q[n].call # q[n + 1].call
        /\ pending = [i \in 1 .. Len(q) - n |-> q[n + i]]
        /\ \A i \in 1 .. n : q[i] = b[i]
    <3>1. PICK front : front = b
      OBVIOUS
    <3>2. /\ front \in Seq(AnyRow) /\ q = front \o pending /\ front # << >>
          /\ \A r \in History!Range(front), s \in History!Range(pending) : r.call # s.call
      BY <2>2, <2>3, <3>1
    <3>3. /\ Len(front) \in 1 .. Len(q)
          /\ Len(front) = Len(q) \/ q[Len(front)].call # q[Len(front) + 1].call
          /\ pending = [i \in 1 .. Len(q) - Len(front) |-> q[Len(front) + i]]
          /\ \A i \in 1 .. Len(front) : q[i] = front[i]
      BY <2>2, <3>2, FrontLeaves
    <3> QED
      BY <3>1, <3>3
  <2>5. Queue' = [i \in 1 .. Len(q) - n |-> q[n + i]]
    BY <1>5, <1>7, <2>4
  <2>6. n \in 1 .. Len(Queue) /\ History!Batches!Leave(n)
    BY <1>0, <1>1, <2>1, <2>4, <2>5 DEF History!Batches!Leave, History!Batches!EndsCall, Queue
  <2>7. CASE UNCHANGED <<db, lastId>>
    BY <2>6, <2>7 DEF History!Batches!LoseFront, Queue
  <2>8. CASE History!Store(t) /\ flushPc[t] = "commit"
    <3>1. inserted = n
      BY <1>0, <2>8 DEF Control
    <3>2. \A id \in DOMAIN db \cup (lastId + 1 .. lastId + n) :
            ~(id <= lastId) => batch[t][id - lastId] = Queue[id - lastId]
      <4>0. \A id \in DOMAIN db : id <= lastId
        BY <1>0 DEF Shape
      <4> PICK last, length : last = lastId /\ length = n
        OBVIOUS
      <4>2. last \in Nat /\ length \in Nat
        BY <1>0, <2>4 DEF Shape
      <4>1. ASSUME NEW id \in lastId + 1 .. lastId + n
            PROVE  batch[t][id - lastId] = Queue[id - lastId]
        <5>0. id \in last + 1 .. last + length
          OBVIOUS
        <5>1. id - last \in 1 .. length
          BY ONLY <4>2, <5>0
        <5> QED
          BY <2>1, <2>4, <5>1
      <4> QED
        BY ONLY <4>0, <4>1
    <3>3. /\ db' = [id \in DOMAIN db \cup (lastId + 1 .. lastId + n) |->
                      IF id <= lastId THEN db[id] ELSE Queue[id - lastId]]
          /\ lastId' = lastId + n
      BY <2>8, <3>1, <3>2 DEF History!Store
    <3> QED
      BY <2>6, <3>3 DEF History!Batches!StoreFront, Queue
  <2> QED
    BY <1>7, <2>7, <2>8
<1> QED
  BY <1>4, <1>6, <1>7 DEF History!FlushBatch, History!Begin, History!Insert, History!Commit,
                           History!Rollback

(* A kill loses the whole queue. *)
LEMMA CrashImplements ==
  ASSUME IInv, History!Crash
  PROVE  History!Batches!LoseFront \/ Unseen
<1>1. /\ Shape /\ UNCHANGED <<db, lastId, day, written>>
      /\ pending' = << >> /\ batch' = [t \in History!Threads |-> << >>]
  BY DEF IInv, History!Crash, History!Fresh
<1>2. UNCHANGED History!Calls
  BY <1>1 DEF History!Calls
<1>3. Queue' = << >>
  <2>1. << >> \o << >> = << >>
    BY EmptySeq, ConcatEmptySeq
  <2> QED
    BY <1>1, <2>1 DEF Queue, History!Threads
<1>4. Queue \in Seq(AnyRow)
  BY <1>1 DEF Queue, Shape, History!Threads
<1>5. CASE Queue = << >>
  BY <1>1, <1>2, <1>3, <1>5 DEF Unseen
<1>6. CASE Queue # << >>
  <2>1. PICK q : q = Queue
    OBVIOUS
  <2>2. Len(q) \in 1 .. Len(q)
    BY <1>4, <1>6, <2>1, EmptySeq
  <2>3. Queue' = [i \in 1 .. Len(q) - Len(q) |-> q[Len(q) + i]]
    BY <1>3, <2>2
  <2> QED
    BY <1>1, <1>2, <2>1, <2>2, <2>3
    DEF History!Batches!LoseFront, History!Batches!Leave, History!Batches!EndsCall, Queue
<1> QED
  BY <1>5, <1>6

(* Taking moves the rows from one end of the queue's expression to the     *)
(* other.                                                                  *)
LEMMA TakeUnseen ==
  ASSUME IInv, NEW t \in History!Threads, History!Take(t),
         \A u \in History!Threads : flushPc[u] = "idle",
         UNCHANGED <<db, lastId, day, written>>
  PROVE  Unseen
<1>1. Shape /\ \A u \in History!Threads : batch[u] = << >>
  BY DEF IInv, Control
<1>2. Queue = pending /\ pending \in Seq(AnyRow)
  BY <1>1, QueueOfIdle DEF Shape
<1>3. pending' = << >> /\ batch'[t] = pending
      /\ \A u \in History!Threads \ {t} : batch'[u] = << >>
  BY <1>1 DEF Shape, History!Take
<1>4. pending \o << >> = pending /\ << >> \o pending = pending
  BY <1>2, ConcatEmptySeq
<1>5. Queue' = pending
  BY <1>3, <1>4 DEF Queue, History!Threads
<1>6. UNCHANGED History!Calls
  BY DEF History!Calls
<1> QED
  BY <1>2, <1>5, <1>6 DEF Unseen

(* A call joins the queue at its end. *)
LEMMA WriteImplements ==
  ASSUME IInv, History!WriteBatch
  PROVE  History!Batches!Accept
<1> DEFINE c == History!Calls + 1
<1>1. PICK size \in Sizes : pending' = pending \o History!Rows(c, size)
  BY DEF History!WriteBatch
<1>2. UNCHANGED <<batch, db, lastId, day>>
  BY DEF History!WriteBatch, History!flushVars, History!clockVars
<1>3. History!Calls' = c
  BY CallsCounted DEF IInv
<1>4. History!Rows(c, size) \in Seq(AnyRow)
  BY CallsTyped, RowsTyped DEF IInv
<1>5. Queue' = Queue \o History!Rows(c, size)
  <2> DEFINE sofar == batch["worker"] \o batch["main"]
             new == History!Rows(c, size)
  <2>1. sofar \in Seq(AnyRow) /\ pending \in Seq(AnyRow) /\ new \in Seq(AnyRow)
    BY <1>4 DEF IInv, Shape, History!Threads
  <2> HIDE DEF sofar, new
  <2>2. (sofar \o pending) \o new = sofar \o (pending \o new)
    BY ONLY <2>1, ConcatAssociative
  <2> QED
    BY <1>1, <1>2, <2>2 DEF Queue, sofar, new
<1> QED
  BY <1>2, <1>3, <1>5 DEF History!Batches!Accept, History!Rows, Queue

(* Every step is one of BatchStore or does not show. *)
LEMMA StepImplements ==
  ASSUME IInv, History!Next
  PROVE  History!Batches!Next \/ Unseen
<1> USE DEF History!runVars, History!flushVars, History!clockVars
<1>1. CASE History!WriteBatch
  BY <1>1, WriteImplements DEF History!Batches!Next
<1>2. CASE \E t \in History!Threads : History!FlushBatch(t)
  BY <1>2, FlushImplements DEF History!Batches!Next
<1>3. CASE History!Crash
  BY <1>3, CrashImplements DEF History!Batches!Next
<1>4. CASE History!Rotate
  <2>1. UNCHANGED <<batch, pending, lastId, day, written>>
    BY <1>4 DEF History!Rotate
  <2>2. UNCHANGED <<Queue, History!Calls>>
    BY <2>1 DEF Queue, History!Calls
  <2>3. CASE UNCHANGED db
    BY <2>1, <2>2, <2>3 DEF Unseen
  <2>4. CASE db' = History!Restrict(db, {id \in DOMAIN db : db[id].day + Retention >= day})
    BY <2>1, <2>2, <2>4
    DEF History!Restrict, History!Batches!Next, History!Batches!Expire, Queue
  <2> QED
    BY <1>4, <2>3, <2>4 DEF History!Rotate
<1>5. CASE History!DayPasses
  <2>1. UNCHANGED <<batch, pending, db, lastId, written>> /\ day' = day + 1
    BY <1>5 DEF History!DayPasses
  <2>2. UNCHANGED <<Queue, History!Calls>>
    BY <2>1 DEF Queue, History!Calls
  <2> QED
    BY <2>1, <2>2 DEF History!Batches!Next, History!Batches!DayPasses, Queue
<1>6. CASE UNCHANGED <<batch, pending, db, lastId, day, written>>
  BY <1>6 DEF Unseen, Queue, History!Calls
<1>7. CASE History!Dequeue \/ History!Wake
  <2>1. UNCHANGED <<db, lastId, day, written>>
    BY <1>7 DEF History!Dequeue, History!Wake
  <2>2. \A u \in History!Threads : flushPc[u] = "idle"
    BY <1>7 DEF History!Dequeue, History!Wake, IInv, Control, Shape, History!Threads
  <2>3. History!Take("worker") \/ UNCHANGED <<pending, batch>>
    BY <1>7 DEF History!Dequeue, History!Wake
  <2> QED
    BY <1>6, <2>1, <2>2, <2>3, TakeUnseen DEF History!Threads
<1>8. CASE History!ShutdownFlush
  <2>1. UNCHANGED <<db, lastId, day, written>>
    BY <1>8 DEF History!ShutdownFlush
  <2>2. \A u \in History!Threads : flushPc[u] = "idle"
    BY <1>8 DEF History!ShutdownFlush, IInv, Control, Shape, History!Threads
  <2>3. History!Take("main") \/ UNCHANGED <<pending, batch>>
    BY <1>8 DEF History!ShutdownFlush
  <2> QED
    BY <1>6, <2>1, <2>2, <2>3, TakeUnseen DEF History!Threads
<1>9. CASE History!LoopTop \/ History!ShutdownBegin \/ History!ShutdownClose
  BY <1>6, <1>9 DEF History!LoopTop, History!ShutdownBegin, History!ShutdownClose
<1> QED
  BY <1>1, <1>2, <1>3, <1>4, <1>5, <1>7, <1>8, <1>9
  DEF History!Next, History!RunLoop, History!ShutdownGoesOn, History!Threads

(* HistoryLogger: whoever flushes, whatever SQLite refuses and whenever    *)
(* the process dies, the rows are stored as BatchStore promises: from the  *)
(* front of the queue, a call's rows together, under ids in the order of   *)
(* the queue, until they expire (HistoryLogger.cpp).                       *)
THEOREM HistoryIsStore == Spec => ImplementsStore
<1>1. ASSUME Init PROVE History!Batches!Init
  <2>1. /\ pending = << >> /\ batch = [t \in History!Threads |-> << >>]
        /\ db = << >> /\ lastId = 0 /\ day = 0 /\ written = << >>
    BY <1>1 DEF Init, History!Init
  <2>2. << >> \o << >> = << >>
    BY EmptySeq, ConcatEmptySeq
  <2> QED
    BY <2>1, <2>2 DEF History!Batches!Init, History!Threads, History!Calls
<1>2. ASSUME IInv, [Next]_vars PROVE [History!Batches!Next]_(History!Batches!vars)
  <2>1. Unseen => UNCHANGED History!Batches!vars
    BY DEF Unseen, Queue, History!Batches!vars
  <2>2. CASE UNCHANGED historyVars
    <3>1. Unseen
      BY <2>2 DEF historyVars, Unseen, Queue, History!Calls
    <3> QED
      BY <2>1, <3>1
  <2>3. CASE HistorySteps
    BY <1>2, <2>1, <2>3, StepImplements DEF HistorySteps
  <2> QED
    BY <1>2, <2>2, <2>3 DEF Next, BlockSteps, ClientSteps, MonitorSteps, EtwSteps, vars
<1> QED
  BY <1>1, <1>2, Inductive, PTL
  DEF Spec, ImplementsStore, History!ImplementsStore, History!Batches!Spec
================================================================================
