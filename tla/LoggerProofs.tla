----------------------------- MODULE LoggerProofs -----------------------------
(***************************************************************************)
(* Proofs about Logger, for every set of threads that log or flush and     *)
(* every number of entries.                                                *)
(***************************************************************************)
EXTENDS Logger, SequenceTheorems, TLAPS

USE LoggerAssumption

(* The entries of S are the ones in the vectors C, each at one position of *)
(* one of them.                                                            *)
Exactly(C, S) ==
  /\ \A p \in Places : \A i \in 1 .. Len(C[p]) : C[p][i] \in S
  /\ \A e \in S : \E p \in Places : \E i \in 1 .. Len(C[p]) : C[p][i] = e
  /\ \A p, q \in Places : \A i \in 1 .. Len(C[p]), j \in 1 .. Len(C[q]) :
       C[p][i] = C[q][j] => p = q /\ i = j

(* std::swap of two vectors. *)
LEMMA SwapKeeps ==
  ASSUME NEW C, NEW D, NEW S, Exactly(C, S),
         NEW a \in Places, NEW b \in Places,
         D[a] = C[b], D[b] = C[a], \A p \in Places \ {a, b} : D[p] = C[p]
  PROVE  Exactly(D, S)
<1> DEFINE To(p) == IF p = a THEN b ELSE IF p = b THEN a ELSE p
<1>1. \A p \in Places : To(p) \in Places /\ D[p] = C[To(p)] /\ To(To(p)) = p
  OBVIOUS
<1> HIDE DEF To
<1>2. \A p \in Places : \A i \in 1 .. Len(D[p]) : D[p][i] \in S
  BY <1>1 DEF Exactly
<1>3. \A e \in S : \E p \in Places : \E i \in 1 .. Len(D[p]) : D[p][i] = e
  <2> SUFFICES ASSUME NEW e \in S
               PROVE  \E p \in Places : \E i \in 1 .. Len(D[p]) : D[p][i] = e
    OBVIOUS
  <2>1a. PICK q \in Places : \E i \in 1 .. Len(C[q]) : C[q][i] = e
    BY DEF Exactly
  <2>1. PICK i \in 1 .. Len(C[q]) : C[q][i] = e
    BY <2>1a
  <2>2. D[To(q)] = C[q]
    BY <1>1
  <2> QED
    BY <1>1, <2>1, <2>2
<1>4. ASSUME NEW p \in Places, NEW q \in Places,
             NEW i \in 1 .. Len(D[p]), NEW j \in 1 .. Len(D[q]), D[p][i] = D[q][j]
      PROVE  p = q /\ i = j
  <2>1. To(p) = To(q) /\ i = j
    BY <1>1, <1>4 DEF Exactly
  <2> QED
    BY <1>1, <2>1
<1> QED
  BY <1>2, <1>3, <1>4 DEF Exactly

(* The first entry of one vector is appended to another. *)
LEMMA WriteKeeps ==
  ASSUME NEW C, NEW D, NEW S, Exactly(C, S),
         NEW a \in Places, NEW b \in Places, a # b,
         C[a] \in Seq(Entry), C[b] \in Seq(Entry), C[a] # << >>,
         D[a] = Tail(C[a]), D[b] = Append(C[b], Head(C[a])),
         \A p \in Places \ {a, b} : D[p] = C[p]
  PROVE  Exactly(D, S)
<1>1. /\ Len(D[a]) = Len(C[a]) - 1 /\ Len(C[a]) \in Nat \ {0}
      /\ \A i \in 1 .. Len(D[a]) : D[a][i] = C[a][i + 1] /\ i + 1 \in 1 .. Len(C[a])
      /\ 1 \in 1 .. Len(C[a])
  OBVIOUS
<1>2. /\ Len(D[b]) = Len(C[b]) + 1 /\ Len(C[b]) \in Nat
      /\ \A i \in 1 .. Len(C[b]) : D[b][i] = C[b][i]
      /\ D[b][Len(C[b]) + 1] = C[a][1]
  OBVIOUS
<1> DEFINE P(p, i) == IF p = a \/ (p = b /\ i = Len(C[b]) + 1) THEN a ELSE p
           I(p, i) == IF p = a THEN i + 1
                      ELSE IF p = b /\ i = Len(C[b]) + 1 THEN 1 ELSE i
<1>3. \A p \in Places : \A i \in 1 .. Len(D[p]) :
        P(p, i) \in Places /\ I(p, i) \in 1 .. Len(C[P(p, i)]) /\ D[p][i] = C[P(p, i)][I(p, i)]
  <2> SUFFICES ASSUME NEW p \in Places, NEW i \in 1 .. Len(D[p])
               PROVE  /\ P(p, i) \in Places /\ I(p, i) \in 1 .. Len(C[P(p, i)])
                      /\ D[p][i] = C[P(p, i)][I(p, i)]
    OBVIOUS
  <2>1. CASE p = a
    BY <2>1, <1>1
  <2>2. CASE p = b /\ i = Len(C[b]) + 1
    BY <2>2, <1>1, <1>2
  <2>3. CASE p = b /\ i # Len(C[b]) + 1
    <3>1. i \in 1 .. Len(C[b]) /\ D[b][i] = C[b][i]
      BY <2>3, <1>2
    <3> QED
      BY <2>3, <3>1
  <2>4. CASE p \notin {a, b}
    BY <2>4
  <2> QED
    BY <2>1, <2>2, <2>3, <2>4
<1>4. ASSUME NEW p \in Places, NEW q \in Places,
             NEW i \in 1 .. Len(D[p]), NEW j \in 1 .. Len(D[q]),
             P(p, i) = P(q, j), I(p, i) = I(q, j)
      PROVE  p = q /\ i = j
  <2>1. i \in Nat /\ j \in Nat /\ i # 0 /\ j # 0
    OBVIOUS
  <2>2. CASE p = a
    BY <1>4, <2>1, <2>2
  <2>3. CASE p = b /\ i = Len(C[b]) + 1
    BY <1>4, <2>1, <2>3
  <2>4. CASE p # a /\ ~(p = b /\ i = Len(C[b]) + 1)
    BY <1>4, <2>1, <2>4
  <2> QED
    BY <2>2, <2>3, <2>4
<1>5. \A p \in Places : \A i \in 1 .. Len(D[p]) : D[p][i] \in S
  <2> SUFFICES ASSUME NEW p \in Places, NEW i \in 1 .. Len(D[p]) PROVE D[p][i] \in S
    OBVIOUS
  <2> HIDE DEF P, I
  <2>1. PICK q, j : q = P(p, i) /\ j = I(p, i)
    OBVIOUS
  <2>2. q \in Places /\ j \in 1 .. Len(C[q]) /\ D[p][i] = C[q][j]
    BY ONLY <1>3, <2>1, p \in Places, i \in 1 .. Len(D[p])
  <2> QED
    BY ONLY <2>2, Exactly(C, S) DEF Exactly
<1>6. \A e \in S : \E p \in Places : \E i \in 1 .. Len(D[p]) : D[p][i] = e
  <2> SUFFICES ASSUME NEW e \in S
               PROVE  \E p \in Places : \E i \in 1 .. Len(D[p]) : D[p][i] = e
    OBVIOUS
  <2>1a. PICK q \in Places : \E j \in 1 .. Len(C[q]) : C[q][j] = e
    BY DEF Exactly
  <2>1. PICK j \in 1 .. Len(C[q]) : C[q][j] = e
    BY <2>1a
  <2>2. CASE q = a /\ j = 1
    <3>1. Len(C[b]) + 1 \in 1 .. Len(D[b])
      BY <1>2
    <3> QED
      BY <2>1, <2>2, <3>1, <1>2
  <2>3. CASE q = a /\ j # 1
    <3>1. j - 1 \in 1 .. Len(D[a]) /\ D[a][j - 1] = C[a][j]
      BY <2>1, <2>3, <1>1
    <3> QED
      BY <2>1, <2>3, <3>1
  <2>4. CASE q = b
    <3>1. j \in 1 .. Len(D[b]) /\ D[b][j] = C[b][j]
      BY <2>1, <2>4, <1>2
    <3> QED
      BY <2>1, <2>4, <3>1
  <2>5. CASE q \notin {a, b}
    BY <2>1, <2>5
  <2> QED
    BY <2>2, <2>3, <2>4, <2>5
<1>7. ASSUME NEW p \in Places, NEW q \in Places,
             NEW i \in 1 .. Len(D[p]), NEW j \in 1 .. Len(D[q]), D[p][i] = D[q][j]
      PROVE  p = q /\ i = j
  <2>1. P(p, i) = P(q, j) /\ I(p, i) = I(q, j)
    <3> DEFINE x == P(p, i)  k == I(p, i)  y == P(q, j)  l == I(q, j)
    <3>1. /\ x \in Places /\ k \in 1 .. Len(C[x]) /\ D[p][i] = C[x][k]
          /\ y \in Places /\ l \in 1 .. Len(C[y]) /\ D[q][j] = C[y][l]
      BY <1>3
    <3> HIDE DEF x, k, y, l
    <3>2. C[x][k] = C[y][l]
      BY <3>1, <1>7
    <3>3. x = y /\ k = l
      BY <3>1, <3>2 DEF Exactly
    <3> QED
      BY <3>3 DEF x, k, y, l
  <2> QED
    BY <1>4, <2>1
<1> QED
  BY <1>5, <1>6, <1>7 DEF Exactly

(* An entry that is nowhere is appended to one vector. *)
LEMMA PushAdds ==
  ASSUME NEW C, NEW D, NEW S, Exactly(C, S),
         NEW a \in Places, C[a] \in Seq(Entry), NEW e \in Entry, e \notin S,
         D[a] = Append(C[a], e), \A p \in Places \ {a} : D[p] = C[p]
  PROVE  Exactly(D, S \cup {e})
<1>1. /\ Len(D[a]) = Len(C[a]) + 1 /\ Len(C[a]) \in Nat
      /\ \A i \in 1 .. Len(C[a]) : D[a][i] = C[a][i]
      /\ D[a][Len(C[a]) + 1] = e
  OBVIOUS
<1>2. ASSUME NEW p \in Places, NEW i \in 1 .. Len(D[p])
      PROVE  \/ p = a /\ i = Len(C[a]) + 1 /\ D[p][i] = e
             \/ i \in 1 .. Len(C[p]) /\ D[p][i] = C[p][i] /\ C[p][i] \in S
  <2>1. CASE p = a
    BY <2>1, <1>1 DEF Exactly
  <2>2. CASE p # a
    BY <2>2 DEF Exactly
  <2> QED
    BY <2>1, <2>2
<1>3. \A f \in S \cup {e} : \E p \in Places : \E i \in 1 .. Len(D[p]) : D[p][i] = f
  <2> SUFFICES ASSUME NEW f \in S \cup {e}
               PROVE  \E p \in Places : \E i \in 1 .. Len(D[p]) : D[p][i] = f
    OBVIOUS
  <2>1. CASE f = e
    <3>1. Len(C[a]) + 1 \in 1 .. Len(D[a])
      BY <1>1
    <3> QED
      BY <3>1, <2>1, <1>1
  <2>2. CASE f \in S
    <3>1a. PICK q \in Places : \E j \in 1 .. Len(C[q]) : C[q][j] = f
      BY <2>2 DEF Exactly
    <3>1. PICK j \in 1 .. Len(C[q]) : C[q][j] = f
      BY <3>1a
    <3>2. j \in 1 .. Len(D[q]) /\ D[q][j] = C[q][j]
      <4>1. CASE q = a
        BY <1>1, <4>1
      <4>2. CASE q # a
        BY <4>2
      <4> QED
        BY <4>1, <4>2
    <3> QED
      BY <3>1, <3>2
  <2> QED
    BY <2>1, <2>2
<1>4. ASSUME NEW p \in Places, NEW q \in Places,
             NEW i \in 1 .. Len(D[p]), NEW j \in 1 .. Len(D[q]), D[p][i] = D[q][j]
      PROVE  p = q /\ i = j
  <2>1. \/ p = a /\ i = Len(C[a]) + 1 /\ D[p][i] = e
        \/ i \in 1 .. Len(C[p]) /\ D[p][i] = C[p][i] /\ C[p][i] \in S
    BY <1>2
  <2>2. \/ q = a /\ j = Len(C[a]) + 1 /\ D[q][j] = e
        \/ j \in 1 .. Len(C[q]) /\ D[q][j] = C[q][j] /\ C[q][j] \in S
    BY <1>2
  <2>3. CASE D[p][i] = e
    BY <1>4, <2>1, <2>2, <2>3
  <2>4. CASE D[p][i] # e
    <3>1. i \in 1 .. Len(C[p]) /\ j \in 1 .. Len(C[q]) /\ C[p][i] = C[q][j]
      BY <1>4, <2>1, <2>2, <2>4
    <3> QED
      BY <3>1 DEF Exactly
  <2> QED
    BY <2>3, <2>4
<1> QED
  BY <1>2, <1>3, <1>4 DEF Exactly

-----------------------------------------------------------------------------
(* The ranges of the variables, and who has empty hands.                   *)
Typed ==
  /\ logQueue \in Seq(Entry) /\ localQueue \in Seq(Entry) /\ remaining \in Seq(Entry)
  /\ file \in Seq(Entry) /\ accepted \in Seq(Entry)
  /\ entries \in [Flushers -> Seq(Entry)]
  /\ writerPc \in [Writers -> {"idle", "queue", "notify"}]
  /\ logged \in [Writers -> 0 .. MaxEntries]
  /\ \A w \in Writers : writerPc[w] = "queue" => logged[w] # 0
  /\ workerPc \in {"check", "blocking", "waiting", "write", "exited"}
  /\ flusherPc \in [Flushers -> {"idle", "swap", "write"}]
  /\ shutdownPc \in {"idle", "notify", "join", "write", "close", "done"}
  /\ closed \in BOOLEAN /\ flushed \in BOOLEAN /\ shutdownFlag \in BOOLEAN

EmptyHands ==
  /\ \A f \in Flushers : flusherPc[f] \in {"idle", "swap"} => entries[f] = << >>
  /\ shutdownPc \in {"idle", "notify", "join"} => remaining = << >>

Shape == Typed /\ EmptyHands

(* A write to the file appends an entry. *)
LEMMA WriteTyped ==
  ASSUME Typed, NEW e \in Entry, WriteFile(e)
  PROVE  file' \in Seq(Entry)
  BY DEF Typed, WriteFile

(* A step keeps the ranges, and hands empty where nothing has been taken. *)
LEMMA StepShape ==
  ASSUME Shape, [Next]_vars
  PROVE  Shape'
<1> USE DEF Shape, Typed, EmptyHands, writerVars, workerVars, flusherVars, shutdownVars
<1>1. ASSUME NEW w \in Writers, PushTui(w) PROVE Shape'
  <2>1. /\ logged' \in [Writers -> 0 .. MaxEntries]
        /\ \A v \in Writers : writerPc'[v] = "queue" => logged'[v] # 0
    BY <1>1 DEF PushTui
  <2> QED
    BY <1>1, <2>1 DEF PushTui
<1>2. ASSUME NEW w \in Writers, PushQueue(w) PROVE Shape'
  <2>1. <<w, logged[w]>> \in Entry
    BY <1>2 DEF PushQueue, Entry
  <2>2. logQueue' \in Seq(Entry) /\ accepted' \in Seq(Entry)
    <3>1. /\ Append(logQueue, <<w, logged[w]>>) \in Seq(Entry)
          /\ Append(accepted, <<w, logged[w]>>) \in Seq(Entry)
      BY <2>1, AppendProperties
    <3> QED
      BY <1>2, <3>1 DEF PushQueue
  <2>3. /\ writerPc' \in [Writers -> {"idle", "queue", "notify"}]
        /\ \A v \in Writers : writerPc'[v] = "queue" => writerPc[v] = "queue"
    BY <1>2 DEF PushQueue
  <2> QED
    BY <1>2, <2>2, <2>3 DEF PushQueue
<1>3. ASSUME NEW w \in Writers, Notify(w) PROVE Shape'
  BY <1>3 DEF Notify, Woken
<1>4. CASE WorkerCheck
  BY <1>4 DEF WorkerCheck, Swap
<1>5. CASE WorkerBlock
  BY <1>5 DEF WorkerBlock
<1>6. CASE WorkerWrite
  <2>1. Head(localQueue) \in Entry /\ Tail(localQueue) \in Seq(Entry)
    BY <1>6 DEF WorkerWrite
  <2>2. file' \in Seq(Entry)
    BY <1>6, <2>1, WriteTyped DEF WorkerWrite
  <2> QED
    BY <1>6, <2>1, <2>2 DEF WorkerWrite
<1>7. CASE WorkerFlag
  BY <1>7 DEF WorkerFlag, Swap
<1>8. ASSUME NEW f \in Flushers, FlushNotify(f) PROVE Shape'
  BY <1>8 DEF FlushNotify, Woken
<1>9. ASSUME NEW f \in Flushers, FlushSwap(f) PROVE Shape'
  BY <1>9 DEF FlushSwap
<1>10. ASSUME NEW f \in Flushers, FlushWrite(f) PROVE Shape'
  <2>1. CASE entries[f] = << >>
    BY <1>10, <2>1 DEF FlushWrite
  <2>2. CASE entries[f] # << >>
    <3>1. Head(entries[f]) \in Entry /\ Tail(entries[f]) \in Seq(Entry)
      BY <2>2
    <3>2. file' \in Seq(Entry)
      BY <1>10, <2>2, <3>1, WriteTyped DEF FlushWrite
    <3> QED
      BY <1>10, <2>2, <3>1, <3>2 DEF FlushWrite
  <2> QED
    BY <2>1, <2>2
<1>11. CASE ShutdownFlag \/ ShutdownNotify \/ ShutdownRefuse \/ ShutdownClose
  BY <1>11 DEF ShutdownFlag, ShutdownNotify, ShutdownRefuse, ShutdownClose, Woken
<1>12. CASE ShutdownDrain
  BY <1>12 DEF ShutdownDrain
<1>13. CASE ShutdownWrite
  <2>1. Head(remaining) \in Entry /\ Tail(remaining) \in Seq(Entry)
    BY <1>13 DEF ShutdownWrite
  <2>2. file' \in Seq(Entry)
    BY <1>13, <2>1, WriteTyped DEF ShutdownWrite
  <2> QED
    BY <1>13, <2>1, <2>2 DEF ShutdownWrite
<1>14. CASE UNCHANGED vars
  BY <1>14 DEF vars
<1> QED
  BY <1>1, <1>2, <1>3, <1>4, <1>5, <1>6, <1>7, <1>8, <1>9, <1>10, <1>11, <1>12, <1>13, <1>14
  DEF Next, WriteLog, WorkerThreadFunc, Flush, Shutdown, ShutdownGoesOn

-----------------------------------------------------------------------------
(* A thread numbers its entries; what it is about to queue is new.         *)
Numbered ==
  \A i \in 1 .. Len(accepted) : \A w \in Writers :
    accepted[i][1] = w =>
      /\ accepted[i][2] <= logged[w]
      /\ writerPc[w] = "queue" => accepted[i][2] < logged[w]

(* A step accepts no number a thread has not reached, or is about to queue. *)
LEMMA StepNumbered ==
  ASSUME Shape, Numbered, [Next]_vars
  PROVE  Numbered'
<1>a. /\ accepted \in Seq(Entry) /\ logged \in [Writers -> 0 .. MaxEntries]
      /\ writerPc \in [Writers -> {"idle", "queue", "notify"}]
  BY DEF Shape, Typed
<1>b. \A i \in 1 .. Len(accepted) : accepted[i][2] \in Nat
  <2>1. \A i \in 1 .. Len(accepted) : accepted[i] \in Entry
    BY <1>a
  <2> QED
    BY <2>1 DEF Entry
<1>1. ASSUME NEW w \in Writers, PushTui(w) PROVE Numbered'
  <2>1. /\ logged' = [logged EXCEPT ![w] = logged[w] + 1] /\ accepted' = accepted
        /\ writerPc' = [writerPc EXCEPT ![w] = "queue"]
    BY <1>1 DEF PushTui
  <2> SUFFICES ASSUME NEW i \in 1 .. Len(accepted), NEW v \in Writers, accepted[i][1] = v
               PROVE  /\ accepted[i][2] <= logged'[v]
                      /\ writerPc'[v] = "queue" => accepted[i][2] < logged'[v]
    BY <2>1 DEF Numbered
  <2>2. CASE v = w
    <3>1. logged'[v] = logged[v] + 1 /\ logged[v] \in Nat /\ accepted[i][2] <= logged[v]
      BY <1>a, <2>1, <2>2 DEF Numbered
    <3> QED
      BY <3>1, <1>b
  <2>3. CASE v # w
    BY <1>a, <2>1, <2>3 DEF Numbered
  <2> QED
    BY <2>2, <2>3
<1>2. ASSUME NEW w \in Writers, PushQueue(w) PROVE Numbered'
  <2>1. logged' = logged /\ writerPc[w] = "queue" /\ writerPc'[w] # "queue"
        /\ \A v \in Writers : v # w => writerPc'[v] = writerPc[v]
    BY <1>2, <1>a DEF PushQueue
  <2>2. CASE accepted' = accepted
    BY <2>1, <2>2 DEF Numbered
  <2>3. CASE accepted' = Append(accepted, <<w, logged[w]>>)
    <3> SUFFICES ASSUME NEW i \in 1 .. Len(accepted'), NEW v \in Writers, accepted'[i][1] = v
                 PROVE  /\ accepted'[i][2] <= logged[v]
                        /\ writerPc'[v] = "queue" => accepted'[i][2] < logged[v]
      BY <2>1 DEF Numbered
    <3>1. <<w, logged[w]>> \in Entry
      BY <1>2, <1>a DEF PushQueue, Entry, Shape, Typed
    <3>2. CASE i = Len(accepted) + 1
      <4>1. accepted'[i] = <<w, logged[w]>>
        BY <1>a, <2>3, <3>1, <3>2
      <4> QED
        BY <4>1, <2>1, <1>a
    <3>3. CASE i # Len(accepted) + 1
      <4>1. i \in 1 .. Len(accepted) /\ accepted'[i] = accepted[i]
        BY <1>a, <2>3, <3>1, <3>3
      <4> QED
        BY <4>1, <2>1 DEF Numbered
    <3> QED
      BY <3>2, <3>3
  <2> QED
    BY <1>2, <2>2, <2>3 DEF PushQueue
<1>3. ASSUME NEW w \in Writers, Notify(w) PROVE Numbered'
  <2>1. UNCHANGED <<accepted, logged>> /\ \A v \in Writers : writerPc'[v] = "queue" => writerPc[v] = "queue"
    BY <1>3, <1>a DEF Notify
  <2> QED
    BY <2>1 DEF Numbered
<1>4. CASE UNCHANGED <<accepted, logged, writerPc>>
  BY <1>4 DEF Numbered
<1>5. CASE WorkerThreadFunc
  BY <1>4, <1>5 DEF WorkerThreadFunc, WorkerCheck, WorkerBlock, WorkerWrite, WorkerFlag, writerVars
<1>6. ASSUME NEW f \in Flushers, Flush(f) PROVE Numbered'
  BY <1>4, <1>6 DEF Flush, FlushNotify, FlushSwap, FlushWrite, writerVars
<1>7. CASE Shutdown
  BY <1>4, <1>7
  DEF Shutdown, ShutdownGoesOn, ShutdownFlag, ShutdownNotify, ShutdownDrain, ShutdownWrite,
      ShutdownRefuse, ShutdownClose, writerVars
<1>8. CASE UNCHANGED vars
  BY <1>4, <1>8 DEF vars, writerVars
<1> QED
  BY <1>1, <1>2, <1>3, <1>5, <1>6, <1>7, <1>8 DEF Next, WriteLog

-----------------------------------------------------------------------------
(* Every step hands the entries on whole: EveryEntryOnce's inductive form. *)
Accepted == {accepted[i] : i \in 1 .. Len(accepted)}
Whole == ~closed => Exactly(Contents, Accepted)

(* What the places hold, one by one. *)
LEMMA ContentsAre ==
  /\ Contents["file"] = file /\ Contents["logQueue"] = logQueue
  /\ Contents["localQueue"] = localQueue /\ Contents["remaining"] = remaining
  /\ \A f \in Flushers : Contents[f] = entries[f]
<1>1. {"file", "logQueue", "localQueue", "remaining"} \subseteq Places /\ Flushers \subseteq Places
  BY DEF Places
<1>2. \A f \in Flushers : f \notin {"file", "logQueue", "localQueue", "remaining"}
  OBVIOUS
<1> QED
  BY <1>1, <1>2 DEF Contents

(* And after a step. *)
LEMMA ContentsNext ==
  /\ Contents'["file"] = file' /\ Contents'["logQueue"] = logQueue'
  /\ Contents'["localQueue"] = localQueue' /\ Contents'["remaining"] = remaining'
  /\ \A f \in Flushers : Contents'[f] = entries'[f]
<1>1. {"file", "logQueue", "localQueue", "remaining"} \subseteq Places /\ Flushers \subseteq Places
  BY DEF Places
<1>2. \A f \in Flushers : f \notin {"file", "logQueue", "localQueue", "remaining"}
  OBVIOUS
<1> QED
  BY <1>1, <1>2 DEF Contents

(* A step moves entries between places, or accepts one into the queue: none *)
(* is lost or doubled.                                                     *)
LEMMA StepWhole ==
  ASSUME Shape, Numbered, Whole, [Next]_vars
  PROVE  Whole'
<1>a. /\ logQueue \in Seq(Entry) /\ localQueue \in Seq(Entry) /\ remaining \in Seq(Entry)
      /\ file \in Seq(Entry) /\ accepted \in Seq(Entry)
      /\ entries \in [Flushers -> Seq(Entry)] /\ EmptyHands
  BY DEF Shape, Typed
<1>b. Places = {"file", "logQueue", "localQueue", "remaining"} \cup Flushers
  BY DEF Places
<1> SUFFICES ASSUME ~closed' PROVE Exactly(Contents', Accepted')
  BY DEF Whole
<1>c. ~closed => Exactly(Contents, Accepted)
  BY DEF Whole
<1>d. ASSUME accepted' = accepted PROVE Accepted' = Accepted
  BY <1>d DEF Accepted
<1>e. ASSUME UNCHANGED <<file, logQueue, localQueue, remaining, entries>> PROVE Contents' = Contents
  BY <1>e DEF Contents, Places
<1>1. ASSUME NEW w \in Writers, PushTui(w) \/ Notify(w) PROVE Exactly(Contents', Accepted')
  <2>1. UNCHANGED <<file, logQueue, localQueue, remaining, entries, accepted, closed>>
    BY <1>1 DEF PushTui, Notify, workerVars, flusherVars, shutdownVars
  <2> QED
    BY <2>1, <1>c, <1>d, <1>e
<1>2. ASSUME NEW w \in Writers, PushQueue(w) PROVE Exactly(Contents', Accepted')
  <2> DEFINE e == <<w, logged[w]>>
  <2>1. UNCHANGED <<file, localQueue, remaining, entries, closed>> /\ writerPc[w] = "queue"
    BY <1>2 DEF PushQueue, workerVars, flusherVars, shutdownVars
  <2>2. CASE UNCHANGED <<logQueue, accepted>>
    BY <2>1, <2>2, <1>c, <1>d, <1>e
  <2>3. CASE logQueue' = Append(logQueue, e) /\ accepted' = Append(accepted, e)
    <3>1. e \in Entry
      BY <2>1 DEF Entry, Shape, Typed
    <3>2. e \notin Accepted
      <4> SUFFICES ASSUME NEW i \in 1 .. Len(accepted), accepted[i] = e PROVE FALSE
        BY DEF Accepted
      <4>1. accepted[i][1] = w /\ accepted[i][2] = logged[w] /\ logged[w] \in Nat
        BY DEF Shape, Typed
      <4> QED
        BY <4>1, <2>1 DEF Numbered
    <3>3. Accepted' = Accepted \cup {e}
      <4>1. /\ Len(accepted') = Len(accepted) + 1 /\ accepted'[Len(accepted) + 1] = e
            /\ \A i \in 1 .. Len(accepted) : accepted'[i] = accepted[i]
            /\ Len(accepted) \in Nat
        BY <2>3, <3>1, <1>a
      <4>2. ASSUME NEW i \in 1 .. Len(accepted')
            PROVE  accepted'[i] \in Accepted \cup {e}
        <5>1. CASE i = Len(accepted) + 1
          BY <4>1, <5>1
        <5>2. CASE i # Len(accepted) + 1
          <6>1. i \in 1 .. Len(accepted) /\ accepted'[i] = accepted[i]
            BY <4>1, <5>2
          <6> QED
            BY <6>1 DEF Accepted
        <5> QED
          BY <5>1, <5>2
      <4>3. ASSUME NEW i \in 1 .. Len(accepted)
            PROVE  i \in 1 .. Len(accepted') /\ accepted'[i] = accepted[i]
        BY <4>1
      <4>4. Len(accepted) + 1 \in 1 .. Len(accepted')
        BY <4>1
      <4> QED
        BY <4>1, <4>2, <4>3, <4>4 DEF Accepted
    <3>4. /\ Contents'["logQueue"] = Append(Contents["logQueue"], e)
          /\ \A p \in Places \ {"logQueue"} : Contents'[p] = Contents[p]
          /\ Contents["logQueue"] \in Seq(Entry)
      BY <2>1, <2>3, <1>a, <1>b, ContentsAre, ContentsNext
    <3> QED
      BY <2>1, <3>1, <3>2, <3>3, <3>4, <1>b, <1>c, PushAdds
  <2> QED
    BY <1>2, <2>2, <2>3 DEF PushQueue
<1>3. ASSUME Swap, UNCHANGED <<file, remaining, entries, accepted, closed>>
      PROVE  Exactly(Contents', Accepted')
  <2>1. /\ Contents'["logQueue"] = Contents["localQueue"]
        /\ Contents'["localQueue"] = Contents["logQueue"]
        /\ \A p \in Places \ {"logQueue", "localQueue"} : Contents'[p] = Contents[p]
    BY <1>3, <1>b, ContentsAre, ContentsNext DEF Swap
  <2> QED
    BY <2>1, <1>3, <1>b, <1>c, <1>d, SwapKeeps
<1>4. CASE WorkerCheck \/ WorkerFlag
  <2>1. /\ UNCHANGED <<file, remaining, entries, accepted, closed>>
        /\ Swap \/ UNCHANGED <<localQueue, logQueue>>
    BY <1>4 DEF WorkerCheck, WorkerFlag, flusherVars, shutdownVars
  <2> QED
    BY <2>1, <1>3, <1>c, <1>d, <1>e
<1>5. CASE WorkerBlock
  <2>1. UNCHANGED <<file, logQueue, localQueue, remaining, entries, accepted, closed>>
    BY <1>5 DEF WorkerBlock, flusherVars, shutdownVars
  <2> QED
    BY <2>1, <1>c, <1>d, <1>e
<1>6. ASSUME WorkerWrite PROVE Exactly(Contents', Accepted')
  <2>1. /\ localQueue # << >> /\ localQueue' = Tail(localQueue)
        /\ UNCHANGED <<logQueue, remaining, entries, accepted, closed>>
    BY <1>6 DEF WorkerWrite, flusherVars, shutdownVars
  <2>2. file' = Append(file, Head(localQueue))
    BY <1>6, <2>1 DEF WorkerWrite, WriteFile
  <2>3. /\ Contents'["localQueue"] = Tail(Contents["localQueue"])
        /\ Contents'["file"] = Append(Contents["file"], Head(Contents["localQueue"]))
        /\ \A p \in Places \ {"file", "localQueue"} : Contents'[p] = Contents[p]
        /\ Contents["localQueue"] \in Seq(Entry) /\ Contents["localQueue"] # << >>
        /\ Contents["file"] \in Seq(Entry)
    BY <2>1, <2>2, <1>a, <1>b, ContentsAre, ContentsNext
  <2> QED
    BY <2>1, <2>3, <1>b, <1>c, <1>d, WriteKeeps
<1>7. ASSUME NEW f \in Flushers, FlushNotify(f) PROVE Exactly(Contents', Accepted')
  <2>1. UNCHANGED <<file, logQueue, localQueue, remaining, entries, accepted, closed>>
    BY <1>7 DEF FlushNotify, shutdownVars
  <2> QED
    BY <2>1, <1>c, <1>d, <1>e
<1>8. ASSUME NEW f \in Flushers, FlushSwap(f) PROVE Exactly(Contents', Accepted')
  <2>1. /\ entries[f] = << >> /\ logQueue' = << >> /\ entries'[f] = logQueue
        /\ \A g \in Flushers : g # f => entries'[g] = entries[g]
        /\ UNCHANGED <<file, localQueue, remaining, accepted, closed>>
    BY <1>8, <1>a DEF FlushSwap, EmptyHands, workerVars, shutdownVars
  <2>2. /\ Contents'["logQueue"] = Contents[f] /\ Contents'[f] = Contents["logQueue"]
        /\ \A p \in Places \ {"logQueue", f} : Contents'[p] = Contents[p]
    BY <2>1, <1>b, ContentsAre, ContentsNext
  <2>3. f \in Places /\ "logQueue" \in Places
    BY <1>b
  <2> QED
    BY <2>1, <2>2, <2>3, <1>c, <1>d, SwapKeeps
<1>9. ASSUME NEW f \in Flushers, FlushWrite(f) PROVE Exactly(Contents', Accepted')
  <2>1. UNCHANGED <<logQueue, localQueue, remaining, accepted, closed>>
    BY <1>9 DEF FlushWrite, workerVars, shutdownVars
  <2>2. CASE UNCHANGED <<entries, file>>
    BY <2>1, <2>2, <1>c, <1>d, <1>e
  <2>3. CASE entries[f] # << >> /\ WriteFile(Head(entries[f])) /\ entries' = [entries EXCEPT ![f] = Tail(@)]
    <3>1. /\ entries'[f] = Tail(entries[f]) /\ file' = Append(file, Head(entries[f]))
          /\ \A g \in Flushers : g # f => entries'[g] = entries[g]
      BY <2>1, <2>3, <1>a DEF WriteFile
    <3>2. /\ Contents'[f] = Tail(Contents[f])
          /\ Contents'["file"] = Append(Contents["file"], Head(Contents[f]))
          /\ \A p \in Places \ {"file", f} : Contents'[p] = Contents[p]
          /\ Contents[f] \in Seq(Entry) /\ Contents[f] # << >> /\ Contents["file"] \in Seq(Entry)
      BY <2>1, <2>3, <3>1, <1>a, <1>b, ContentsAre, ContentsNext
    <3>3. f # "file" /\ f \in Places /\ "file" \in Places
      BY <1>b
    <3> QED
      BY <2>1, <3>2, <3>3, <1>b, <1>c, <1>d, WriteKeeps
  <2> QED
    BY <1>9, <2>2, <2>3 DEF FlushWrite
<1>10. CASE ShutdownFlag \/ ShutdownNotify \/ ShutdownRefuse
  <2>1. UNCHANGED <<file, logQueue, localQueue, remaining, entries, accepted, closed>>
    BY <1>10 DEF ShutdownFlag, ShutdownNotify, ShutdownRefuse, workerVars, flusherVars
  <2> QED
    BY <2>1, <1>c, <1>d, <1>e
<1>11. CASE ShutdownDrain
  <2>1. /\ remaining = << >> /\ remaining' = logQueue /\ logQueue' = << >>
        /\ UNCHANGED <<file, localQueue, entries, accepted, closed>>
    BY <1>11, <1>a DEF ShutdownDrain, EmptyHands, workerVars, flusherVars
  <2>2. /\ Contents'["logQueue"] = Contents["remaining"]
        /\ Contents'["remaining"] = Contents["logQueue"]
        /\ \A p \in Places \ {"logQueue", "remaining"} : Contents'[p] = Contents[p]
    BY <2>1, <1>b, ContentsAre, ContentsNext
  <2> QED
    BY <2>1, <2>2, <1>b, <1>c, <1>d, SwapKeeps
<1>12. CASE ShutdownWrite
  <2>1. /\ remaining # << >> /\ remaining' = Tail(remaining)
        /\ UNCHANGED <<logQueue, localQueue, entries, accepted, closed>>
    BY <1>12 DEF ShutdownWrite, workerVars, flusherVars
  <2>2. file' = Append(file, Head(remaining))
    BY <1>12, <2>1 DEF ShutdownWrite, WriteFile
  <2>3. /\ Contents'["remaining"] = Tail(Contents["remaining"])
        /\ Contents'["file"] = Append(Contents["file"], Head(Contents["remaining"]))
        /\ \A p \in Places \ {"file", "remaining"} : Contents'[p] = Contents[p]
        /\ Contents["remaining"] \in Seq(Entry) /\ Contents["remaining"] # << >>
        /\ Contents["file"] \in Seq(Entry)
    BY <2>1, <2>2, <1>a, <1>b, ContentsAre, ContentsNext
  <2> QED
    BY <2>1, <2>3, <1>b, <1>c, <1>d, WriteKeeps
<1>13. CASE ShutdownClose
  BY <1>13 DEF ShutdownClose
<1>14. CASE UNCHANGED vars
  <2>1. UNCHANGED <<file, logQueue, localQueue, remaining, entries, accepted, closed>>
    BY <1>14 DEF vars, workerVars, flusherVars, shutdownVars
  <2> QED
    BY <2>1, <1>c, <1>d, <1>e
<1> QED
  BY <1>1, <1>2, <1>4, <1>5, <1>6, <1>7, <1>8, <1>9, <1>10, <1>11, <1>12, <1>13, <1>14
  DEF Next, WriteLog, WorkerThreadFunc, Flush, Shutdown, ShutdownGoesOn

-----------------------------------------------------------------------------
(* Before exit and Flush() the worker is the only one that takes entries,  *)
(* and it takes the next batch when the last one is written.               *)
Alone ==
  /\ shutdownPc = "idle" <=> ~shutdownFlag
  /\ closed => shutdownPc = "done"
  /\ ~flushed => \A f \in Flushers : flusherPc[f] = "idle"
  /\ ~shutdownFlag /\ workerPc \in {"check", "blocking", "waiting"} => localQueue = << >>

(* A step keeps the flags with who has set them: shutdown, the end of the  *)
(* file, Flush(); and a worker that waits has nothing in its hands.        *)
LEMMA StepAlone ==
  ASSUME Shape, Alone, [Next]_vars
  PROVE  Alone'
<1> USE DEF Shape, Typed, Alone, writerVars, workerVars, flusherVars, shutdownVars
<1>1. ASSUME NEW w \in Writers, PushTui(w) \/ PushQueue(w) PROVE Alone'
  BY <1>1 DEF PushTui, PushQueue
<1>2. ASSUME NEW w \in Writers, Notify(w) PROVE Alone'
  BY <1>2 DEF Notify, Woken
<1>3. CASE WorkerThreadFunc
  BY <1>3 DEF WorkerThreadFunc, WorkerCheck, WorkerBlock, WorkerWrite, WorkerFlag, Swap
<1>4. ASSUME NEW f \in Flushers, Flush(f) PROVE Alone'
  BY <1>4 DEF Flush, FlushNotify, FlushSwap, FlushWrite, Woken
<1>5. CASE Shutdown
  BY <1>5
  DEF Shutdown, ShutdownGoesOn, ShutdownFlag, ShutdownNotify, ShutdownDrain, ShutdownWrite,
      ShutdownRefuse, ShutdownClose
<1>6. CASE UNCHANGED vars
  BY <1>6 DEF vars
<1> QED
  BY <1>1, <1>2, <1>3, <1>4, <1>5, <1>6 DEF Next, WriteLog

(* The first entry of one sequence moves to the end of the one before it.  *)
LEMMA HeadMoves ==
  ASSUME NEW S, NEW s \in Seq(S), NEW t \in Seq(S), t # << >>
  PROVE  Append(s, Head(t)) \o Tail(t) = s \o t
<1> DEFINE u == Append(s, Head(t)) \o Tail(t)
<1>1. /\ Head(t) = t[1] /\ Head(t) \in S /\ Tail(t) \in Seq(S) /\ Len(t) \in Nat \ {0}
      /\ Len(Tail(t)) = Len(t) - 1 /\ \A i \in 1 .. Len(t) - 1 : Tail(t)[i] = t[i + 1]
  BY HeadTailProperties, LenProperties, EmptySeq
<1>2. /\ Append(s, Head(t)) \in Seq(S) /\ Len(Append(s, Head(t))) = Len(s) + 1
      /\ \A i \in 1 .. Len(s) : Append(s, Head(t))[i] = s[i]
      /\ Append(s, Head(t))[Len(s) + 1] = t[1]
      /\ Len(s) \in Nat
  BY <1>1, AppendProperties, LenProperties
<1>3. /\ u \in Seq(S) /\ s \o t \in Seq(S)
      /\ Len(u) = Len(s) + Len(t) /\ Len(s \o t) = Len(s) + Len(t)
  BY <1>1, <1>2, ConcatProperties
<1>4. ASSUME NEW i \in 1 .. Len(s) + Len(t) PROVE u[i] = (s \o t)[i]
  <2>1. u[i] = IF i <= Len(s) + 1 THEN Append(s, Head(t))[i] ELSE Tail(t)[i - (Len(s) + 1)]
    BY <1>1, <1>2, ConcatProperties
  <2>2. (s \o t)[i] = IF i <= Len(s) THEN s[i] ELSE t[i - Len(s)]
    BY ConcatProperties
  <2>3. CASE i <= Len(s)
    BY <2>1, <2>2, <2>3, <1>2
  <2>4. CASE i = Len(s) + 1
    BY <2>1, <2>2, <2>4, <1>2
  <2>5. CASE i > Len(s) + 1
    <3>1. i - (Len(s) + 1) \in 1 .. Len(t) - 1 /\ (i - (Len(s) + 1)) + 1 = i - Len(s)
      BY <2>5, <1>1, <1>2
    <3>2. Tail(t)[i - (Len(s) + 1)] = t[i - Len(s)]
      BY <3>1, <1>1
    <3> QED
      BY <2>1, <2>2, <2>5, <3>2, <1>2
  <2> QED
    BY <2>3, <2>4, <2>5, <1>2
<1> HIDE DEF u
<1>5. u = s \o t
  BY <1>3, <1>4, SeqEqual
<1> QED
  BY <1>5 DEF u

(* A step keeps what is written in the order of each thread's calls. *)
LEMMA StepInOrder ==
  ASSUME Shape, Alone, FileInOrder, [Next]_vars
  PROVE  FileInOrder'
<1>a. /\ logQueue \in Seq(Entry) /\ localQueue \in Seq(Entry)
      /\ file \in Seq(Entry) /\ accepted \in Seq(Entry)
  BY DEF Shape, Typed
<1> SUFFICES ASSUME ~shutdownFlag', ~flushed'
             PROVE  file' \o localQueue' \o logQueue' = accepted'
  BY DEF FileInOrder
<1>b. ASSUME UNCHANGED <<flushed, shutdownFlag>>
      PROVE  /\ file \o localQueue \o logQueue = accepted /\ ~closed
             /\ \A f \in Flushers : flusherPc[f] = "idle"
             /\ shutdownPc = "idle"
             /\ workerPc \in {"check", "blocking", "waiting"} => localQueue = << >>
  BY <1>b DEF FileInOrder, Alone
<1>c. CASE UNCHANGED <<file, localQueue, logQueue, accepted, flushed, shutdownFlag>>
  BY <1>b, <1>c
<1>1. ASSUME NEW w \in Writers, PushTui(w) \/ Notify(w)
      PROVE  UNCHANGED <<file, localQueue, logQueue, accepted, flushed, shutdownFlag>>
  BY <1>1 DEF PushTui, Notify, workerVars, flusherVars, shutdownVars
<1>2. ASSUME NEW w \in Writers, PushQueue(w)
      PROVE  file' \o localQueue' \o logQueue' = accepted'
  <2> DEFINE e == <<w, logged[w]>>
  <2>1. UNCHANGED <<file, localQueue, flushed, shutdownFlag>>
    BY <1>2 DEF PushQueue, workerVars, flusherVars, shutdownVars
  <2>2. CASE UNCHANGED <<logQueue, accepted>>
    BY <1>c, <2>1, <2>2
  <2>3. CASE logQueue' = Append(logQueue, e) /\ accepted' = Append(accepted, e)
    <3>1. e \in Entry
      BY <1>2 DEF PushQueue, Entry, Shape, Typed
    <3> HIDE DEF e
    <3>2. file \o localQueue \in Seq(Entry) /\ <<e>> \in Seq(Entry)
      BY <1>a, <3>1, ConcatProperties
    <3>3. /\ Append(logQueue, e) = logQueue \o <<e>>
          /\ Append(accepted, e) = accepted \o <<e>>
      BY <1>a, <3>1, AppendIsConcat
    <3>4. (file \o localQueue) \o (logQueue \o <<e>>) = ((file \o localQueue) \o logQueue) \o <<e>>
      BY <1>a, <3>2, ConcatAssociative
    <3> QED
      BY <2>1, <2>3, <3>3, <3>4, <1>b
  <2> QED
    BY <1>2, <2>2, <2>3 DEF PushQueue
<1>3. CASE WorkerCheck
  <2>1. /\ UNCHANGED <<file, accepted, flushed, shutdownFlag>> /\ workerPc = "check"
        /\ Swap \/ UNCHANGED <<localQueue, logQueue>>
    BY <1>3 DEF WorkerCheck, flusherVars, shutdownVars
  <2>2. CASE Swap
    <3>1. localQueue' = logQueue /\ logQueue' = << >> /\ localQueue = << >>
      BY <2>1, <2>2, <1>b DEF Swap
    <3>2. /\ file \o << >> = file /\ file \o logQueue \in Seq(Entry)
          /\ (file \o logQueue) \o << >> = file \o logQueue
      BY <1>a, ConcatEmptySeq, ConcatProperties
    <3> QED
      BY <2>1, <3>1, <3>2, <1>b
  <2> QED
    BY <1>c, <2>1, <2>2
<1>4. CASE WorkerBlock
  BY <1>4, <1>c DEF WorkerBlock, flusherVars, shutdownVars
<1>5. CASE WorkerWrite
  <2>1. /\ UNCHANGED <<logQueue, accepted, flushed, shutdownFlag>> /\ localQueue # << >>
        /\ localQueue' = Tail(localQueue)
    BY <1>5 DEF WorkerWrite, flusherVars, shutdownVars
  <2>2. file' = Append(file, Head(localQueue))
    BY <1>5, <2>1, <1>b DEF WorkerWrite, WriteFile
  <2>3. Append(file, Head(localQueue)) \o Tail(localQueue) = file \o localQueue
    BY <2>1, <1>a, HeadMoves
  <2> QED
    BY <2>1, <2>2, <2>3, <1>b
<1>6. CASE WorkerFlag
  <2>1. UNCHANGED <<file, accepted, flushed, shutdownFlag>>
    BY <1>6 DEF WorkerFlag, flusherVars, shutdownVars
  <2>2. UNCHANGED <<localQueue, logQueue>>
    BY <1>6, <2>1 DEF WorkerFlag
  <2> QED
    BY <1>c, <2>1, <2>2
<1>7. ASSUME NEW f \in Flushers, Flush(f) PROVE FALSE
  <2>1. flushed' = TRUE \/ (flushed' = flushed /\ flusherPc[f] # "idle" /\ shutdownFlag' = shutdownFlag)
    BY <1>7 DEF Flush, FlushNotify, FlushSwap, FlushWrite, shutdownVars
  <2> QED
    BY <2>1, <1>b
<1>8. CASE Shutdown
  <2>1. /\ flushed' = flushed
        /\ shutdownFlag' = TRUE \/ (shutdownFlag' = shutdownFlag /\ shutdownPc # "idle")
    BY <1>8
    DEF Shutdown, ShutdownGoesOn, ShutdownFlag, ShutdownNotify, ShutdownDrain, ShutdownWrite,
        ShutdownRefuse, ShutdownClose, flusherVars
  <2> QED
    BY <2>1, <1>b
<1>9. CASE UNCHANGED vars
  BY <1>9, <1>c DEF vars, workerVars, flusherVars, shutdownVars
<1> QED
  BY <1>c, <1>1, <1>2, <1>3, <1>4, <1>5, <1>6, <1>7, <1>8, <1>9
  DEF Next, WriteLog, WorkerThreadFunc

-----------------------------------------------------------------------------
(* The inductive invariant.                                                *)
IInv == Shape /\ Numbered /\ Whole /\ Alone /\ FileInOrder

(* The initial state satisfies the inductive invariant. *)
LEMMA InitHolds == Init => IInv
<1> SUFFICES ASSUME Init PROVE IInv
  OBVIOUS
<1>0. << >> \in Seq(Entry) /\ Len(<< >>) = 0 /\ 0 \in 0 .. MaxEntries
  BY EmptySeq
<1>1. Shape
  BY <1>0 DEF Init, Shape, Typed, EmptyHands
<1>2. Numbered /\ Alone
  BY <1>0 DEF Init, Numbered, Alone
<1>3. Whole
  <2>1. \A p \in Places : Contents[p] = << >>
    BY ContentsAre DEF Init, Places
  <2>2. Accepted = {}
    BY <1>0 DEF Init, Accepted
  <2> QED
    BY <2>1, <2>2, <1>0 DEF Whole, Exactly
<1>4. FileInOrder
  BY <1>0, ConcatEmptySeq DEF Init, FileInOrder
<1> QED
  BY <1>1, <1>2, <1>3, <1>4 DEF IInv

(* Every step keeps it. *)
LEMMA StepHolds == IInv /\ [Next]_vars => IInv'
  BY StepShape, StepNumbered, StepWhole, StepAlone, StepInOrder DEF IInv

(* So it holds in every state of every behaviour. *)
LEMMA Inductive == Spec => []IInv
  BY InitHolds, StepHolds, PTL DEF Spec

(* Until the file is closed an entry that was queued is at one position of *)
(* one of the vectors or of the file, whoever swaps and writes when.       *)
THEOREM NothingLostOrDoubled == Spec => []EveryEntryOnce
<1>1. IInv => EveryEntryOnce
  <2> SUFFICES ASSUME IInv, ~closed PROVE EveryEntryOnce
    BY DEF EveryEntryOnce
  <2>1. Exactly(Contents, Accepted)
    BY DEF IInv, Whole
  <2>2. \A p \in Places : Contents[p] \in Seq(Entry)
    BY ContentsAre DEF IInv, Shape, Typed, Places
  <2>3. \A p \in Places : DOMAIN Contents[p] = 1 .. Len(Contents[p])
    BY <2>2, LenProperties
  <2>4. \A e \in Entry : Contains(accepted, e) <=> \E p \in Places : Contains(Contents[p], e)
    <3> SUFFICES ASSUME NEW e \in Entry
                 PROVE  Contains(accepted, e) <=> \E p \in Places : Contains(Contents[p], e)
      OBVIOUS
    <3>1. Contains(accepted, e) <=> e \in Accepted
      BY DEF Contains, Accepted
    <3>2. e \in Accepted <=> \E p \in Places : \E i \in 1 .. Len(Contents[p]) : Contents[p][i] = e
      BY <2>1 DEF Exactly
    <3>3. \A p \in Places :
            Contains(Contents[p], e) <=> \E i \in 1 .. Len(Contents[p]) : Contents[p][i] = e
      BY Zenon DEF Contains
    <3> QED
      BY <3>1, <3>2, <3>3, Zenon
  <2>5. \A p, q \in Places : \A i \in DOMAIN Contents[p], j \in DOMAIN Contents[q] :
          Contents[p][i] = Contents[q][j] => p = q /\ i = j
    <3> SUFFICES ASSUME NEW p \in Places, NEW q \in Places,
                        NEW i \in DOMAIN Contents[p], NEW j \in DOMAIN Contents[q],
                        Contents[p][i] = Contents[q][j]
                 PROVE  p = q /\ i = j
      OBVIOUS
    <3>1. i \in 1 .. Len(Contents[p]) /\ j \in 1 .. Len(Contents[q])
      BY <2>3
    <3> QED
      BY <2>1, <3>1 DEF Exactly
  <2> QED
    BY <2>4, <2>5 DEF EveryEntryOnce
<1> QED
  BY <1>1, Inductive, PTL

(* Before exit, and before the first Flush(), the file, what the worker    *)
(* holds and the queue are together the entries in the order of queueing.  *)
THEOREM WrittenInOrder == Spec => []FileInOrder
<1>1. IInv => FileInOrder
  BY DEF IInv
<1> QED
  BY <1>1, Inductive, PTL
=============================================================================
