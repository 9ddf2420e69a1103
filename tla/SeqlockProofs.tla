---------------------------- MODULE SeqlockProofs ----------------------------
(***************************************************************************)
(* Proofs about Seqlock, for every block, schema, modulus and retry limit. *)
(* Everything but type correctness needs SequenceKept: the publisher       *)
(* always makes its second increment.                                      *)
(***************************************************************************)
EXTENDS Seqlock, TLAPS

USE BlockAssumption, ModulusAssumption, AttemptsAssumption, PlatformAssumption

(* One increment moves the sequence one step round the circle, flips its   *)
(* parity (the modulus is even) and is counted while a copy is under way.  *)
LEMMA IncrementStep ==
  ASSUME TypeOK, Increment
  PROVE  /\ seq' \in 0 .. Modulus - 1
         /\ seq' % 2 = 1 <=> seq % 2 = 0
         /\ seq' = seq + 1 \/ seq' = seq + 1 - Modulus
         /\ lag' = IF rpc = "copy" THEN lag + 1 ELSE lag
  BY DEF TypeOK, Increment

(* A publish under way has room for its second increment within MaxLag. *)
RoomToEnd == writing => lag + 1 <= MaxLag /\ MaxLag >= 2

(* The initial state has its ranges. *)
LEMMA InitTyped == Init => TypeOK /\ RoomToEnd
<1> SUFFICES ASSUME Init PROVE TypeOK /\ RoomToEnd
  OBVIOUS
<1>1. 0 \in 0 .. Modulus - 1 /\ 0 \in 0 .. MaxLag
  OBVIOUS
<1>2. 1 \in 1 .. MaxAttempts /\ 1 \in 1 .. MaxSpin
  OBVIOUS
<1>3. data \in [Words -> Values]
  BY DEF Init
<1> QED
  BY <1>1, <1>2, <1>3 DEF Init, TypeOK, RoomToEnd

(* The variables keep their ranges, on every platform. *)
LEMMA StepTyped ==
  ASSUME TypeOK, RoomToEnd, [Next]_vars
  PROVE  TypeOK' /\ RoomToEnd'
<1> USE DEF TypeOK, RoomToEnd
<1>1. CASE BeginWrite
  <2>1. /\ seq' \in 0 .. Modulus - 1
        /\ lag' = IF rpc = "copy" THEN lag + 1 ELSE lag
    BY <1>1, IncrementStep DEF BeginWrite
  <2>2. lag' \in 0 .. MaxLag /\ RoomToEnd'
    BY <1>1, <2>1 DEF BeginWrite
  <2> QED
    BY <1>1, <2>1, <2>2 DEF BeginWrite, readerVars
<1>2. CASE EndWrite
  <2>1. seq' \in 0 .. Modulus - 1 /\ lag' \in 0 .. MaxLag
    BY <1>2, IncrementStep DEF EndWrite
  <2> QED
    BY <1>2, <2>1 DEF EndWrite, readerVars
<1>3. CASE Throw
  <2>1. seq' \in 0 .. Modulus - 1 /\ lag' \in 0 .. MaxLag
    BY <1>3, IncrementStep DEF Throw
  <2> QED
    BY <1>3, <2>1 DEF Throw, readerVars
<1>4. CASE CrashAndRestart
  BY <1>4 DEF CrashAndRestart, readerVars
<1>5. ASSUME NEW w \in Words, WriteWord(w) PROVE TypeOK' /\ RoomToEnd'
  BY <1>5 DEF WriteWord, readerVars
<1>6. ASSUME NEW w \in RawWords, WriteRaw(w) PROVE TypeOK' /\ RoomToEnd'
  BY <1>6 DEF WriteRaw, readerVars, writerVars
<1>7. CASE Call
  BY <1>7 DEF Call, writerVars
<1>8. CASE ReadSeq1
  BY <1>8 DEF ReadSeq1, StartCopy, writerVars
<1>9. CASE Spin
  BY <1>9 DEF Spin, StartCopy, Retry, writerVars
<1>10. CASE ReadSeq2
  BY <1>10 DEF ReadSeq2, Retry, writerVars
<1>11. ASSUME NEW w \in Words, CopyWord(w) PROVE TypeOK' /\ RoomToEnd'
  BY <1>11 DEF CopyWord, writerVars
<1>12. CASE UNCHANGED vars
  BY <1>12 DEF vars, writerVars, readerVars
<1> QED
  BY <1>1, <1>2, <1>3, <1>4, <1>5, <1>6, <1>7, <1>8, <1>9, <1>10, <1>11, <1>12
  DEF Next, Publisher, ReadWithSequence

(* The variables keep their ranges, on every platform. *)
THEOREM TypeCorrect == Spec => []TypeOK
<1>1. Init => TypeOK /\ RoomToEnd
  BY InitTyped
<1>2. TypeOK /\ RoomToEnd /\ [Next]_vars => (TypeOK /\ RoomToEnd)'
  BY StepTyped
<1> QED
  BY <1>1, <1>2, PTL DEF Spec

-----------------------------------------------------------------------------
(* The words a reader has copied are those of the block as long as the     *)
(* sequence has not moved; then it has moved by lag, perhaps round the     *)
(* circle, and lag is too small for it to be back where it was.            *)
CopyFollows ==
  rpc = "copy" =>
    /\ seq1 % 2 = 0
    /\ seq = seq1 + lag \/ seq = seq1 + lag - Modulus
    /\ lag = 0 => \A w \in (field \ rtodo) \ RawWords : buf[w] = data[w]

(* What is in the block, between publishes and during one. *)
BlockHolds ==
  /\ ~writing /\ ~partial => \A w \in Words \ RawWords : data[w] = published
  /\ writing => \A w \in Words \ wtodo : data[w] = wval

IInv == /\ TypeOK /\ RoomToEnd
        /\ ParityMarksWriting /\ CopyFollows /\ BlockHolds

(* The inductive invariant tells what the final check is worth. *)
LEMMA CheckIsSound == IInv => NoTornRead
<1> SUFFICES ASSUME IInv, CheckPasses, field \cap RawWords = {}
             PROVE  /\ ~writing
                    /\ \A w \in field :
                         buf[w] = data[w] /\ (~partial => buf[w] = published)
  BY DEF NoTornRead
<1>1. lag = 0
  BY DEF IInv, CheckPasses, CopyFollows, TypeOK
<1>2. ~writing
  BY <1>1 DEF IInv, CheckPasses, CopyFollows, ParityMarksWriting
<1>3. \A w \in field : buf[w] = data[w]
  BY <1>1 DEF IInv, CheckPasses, CopyFollows
<1>4. ASSUME NEW w \in field, ~partial PROVE data[w] = published
  BY <1>2, <1>4 DEF IInv, BlockHolds, TypeOK
<1> QED
  BY <1>2, <1>3, <1>4

(* The initial state satisfies the inductive invariant. *)
LEMMA InitHolds == Init => IInv
<1> SUFFICES ASSUME Init PROVE IInv
  OBVIOUS
<1>1. TypeOK /\ RoomToEnd
  BY InitTyped
<1>2. ParityMarksWriting /\ CopyFollows /\ BlockHolds
  BY DEF Init, ParityMarksWriting, CopyFollows, BlockHolds
<1> QED
  BY <1>1, <1>2 DEF IInv

(* A publisher's increment ends whatever a copy under way could rely on. *)
LEMMA IncrementEndsCopy ==
  ASSUME TypeOK, CopyFollows, Increment, RoomToEnd \/ lag + 1 <= MaxLag,
         UNCHANGED <<rpc, seq1, field, rtodo, buf>>
  PROVE  CopyFollows'
<1> SUFFICES ASSUME rpc = "copy" PROVE CopyFollows'
  BY DEF CopyFollows
<1>1. /\ seq' = seq + 1 \/ seq' = seq + 1 - Modulus
      /\ lag' = lag + 1
  BY IncrementStep
<1>2. seq' \in 0 .. Modulus - 1
  BY IncrementStep
<1>3. /\ seq = seq1 + lag \/ seq = seq1 + lag - Modulus
      /\ seq1 \in 0 .. Modulus - 1 /\ lag \in 0 .. MaxLag
  BY DEF CopyFollows, TypeOK
<1>4. seq' = seq1 + lag' \/ seq' = seq1 + lag' - Modulus
  BY <1>1, <1>2, <1>3
<1> QED
  BY <1>1, <1>3, <1>4 DEF CopyFollows

(* The publisher increments exactly when it begins and when it is done. *)
LEMMA IncrementKeepsParity ==
  ASSUME TypeOK, ParityMarksWriting, Increment, writing' = ~writing
  PROVE  ParityMarksWriting'
<1>1. seq' % 2 = 1 <=> seq % 2 = 0
  BY IncrementStep
<1>2. seq % 2 = 0 <=> ~(seq % 2 = 1)
  BY DEF TypeOK
<1> QED
  BY <1>1, <1>2 DEF ParityMarksWriting

(* Every step keeps it, if publishes complete their sequence. *)
LEMMA StepHolds ==
  ASSUME SequenceKept, IInv, [Next]_vars
  PROVE  IInv'
<1>1. TypeOK' /\ RoomToEnd'
  BY StepTyped DEF IInv
<1>2. ParityMarksWriting' /\ CopyFollows' /\ BlockHolds'
  <2> USE DEF IInv, ParityMarksWriting
  <2>1. CASE BeginWrite
    <3>1. ParityMarksWriting'
      BY <2>1, IncrementKeepsParity DEF BeginWrite
    <3>2. CopyFollows'
      BY <2>1, IncrementEndsCopy DEF BeginWrite, readerVars, TypeOK
    <3>3. BlockHolds'
      BY <2>1 DEF BeginWrite, BlockHolds
    <3> QED
      BY <3>1, <3>2, <3>3
  <2>2. CASE EndWrite
    <3>1. ParityMarksWriting'
      BY <2>2, IncrementKeepsParity DEF EndWrite
    <3>2. CopyFollows'
      BY <2>2, IncrementEndsCopy DEF EndWrite, readerVars
    <3>3. BlockHolds'
      BY <2>2 DEF EndWrite, BlockHolds
    <3> QED
      BY <3>1, <3>2, <3>3
  <2>3. CASE Throw
    <3>1. Increment
      BY <2>3 DEF Throw, SequenceKept
    <3>2. ParityMarksWriting'
      BY <2>3, <3>1, IncrementKeepsParity DEF Throw
    <3>3. CopyFollows'
      BY <2>3, <3>1, IncrementEndsCopy DEF Throw, readerVars
    <3>4. BlockHolds'
      BY <2>3 DEF Throw, BlockHolds
    <3> QED
      BY <3>2, <3>3, <3>4
  <2>4. CASE CrashAndRestart
    BY <2>4 DEF CrashAndRestart, SequenceKept
  <2>5. ASSUME NEW w \in Words, WriteWord(w)
        PROVE  ParityMarksWriting' /\ CopyFollows' /\ BlockHolds'
    <3>1. ParityMarksWriting'
      BY <2>5 DEF WriteWord
    <3>2. CopyFollows'
      <4>1. rpc = "copy" => lag # 0
        BY <2>5 DEF WriteWord, CopyFollows, TypeOK
      <4> QED
        BY <2>5, <4>1 DEF WriteWord, CopyFollows, readerVars
    <3>3. BlockHolds'
      BY <2>5 DEF WriteWord, BlockHolds, TypeOK
    <3> QED
      BY <3>1, <3>2, <3>3
  <2>6. ASSUME NEW w \in RawWords, WriteRaw(w)
        PROVE  ParityMarksWriting' /\ CopyFollows' /\ BlockHolds'
    <3>1. ParityMarksWriting'
      BY <2>6 DEF WriteRaw, writerVars
    <3>2. \A x \in Words \ RawWords : data'[x] = data[x]
      BY <2>6 DEF WriteRaw, TypeOK
    <3>3. CopyFollows'
      BY <2>6, <3>2 DEF WriteRaw, CopyFollows, readerVars, TypeOK
    <3>4. BlockHolds'
      BY <2>6, <3>2 DEF WriteRaw, BlockHolds, writerVars
    <3> QED
      BY <3>1, <3>3, <3>4
  <2>7. CASE Call
    BY <2>7 DEF Call, CopyFollows, BlockHolds, writerVars
  <2>8. CASE ReadSeq1
    BY <2>8 DEF ReadSeq1, StartCopy, CopyFollows, BlockHolds, writerVars, TypeOK
  <2>9. CASE Spin
    BY <2>9 DEF Spin, StartCopy, Retry, CopyFollows, BlockHolds, writerVars, TypeOK
  <2>10. CASE ReadSeq2
    BY <2>10 DEF ReadSeq2, Retry, CopyFollows, BlockHolds, writerVars
  <2>11. ASSUME NEW w \in Words, CopyWord(w)
         PROVE  ParityMarksWriting' /\ CopyFollows' /\ BlockHolds'
    <3>1. ParityMarksWriting' /\ BlockHolds'
      BY <2>11 DEF CopyWord, BlockHolds, writerVars
    <3>2. CopyFollows'
      BY <2>11 DEF CopyWord, CopyFollows, TypeOK
    <3> QED
      BY <3>1, <3>2
  <2>12. CASE UNCHANGED vars
    BY <2>12 DEF vars, writerVars, readerVars, CopyFollows, BlockHolds
  <2> QED
    BY <2>1, <2>2, <2>3, <2>4, <2>5, <2>6, <2>7, <2>8, <2>9, <2>10, <2>11, <2>12
    DEF Next, Publisher, ReadWithSequence
<1> QED
  BY <1>1, <1>2 DEF IInv

(* So it holds in every state of every behaviour. *)
LEMMA IInvHolds == ASSUME SequenceKept PROVE Spec => []IInv
<1>1. Init => IInv
  BY InitHolds
<1>2. IInv /\ [Next]_vars => IInv'
  BY StepHolds
<1> QED
  BY <1>1, <1>2, PTL DEF Spec

(* The parity of the sequence tells whether a publish is under way. *)
THEOREM ParityCorrect == ASSUME SequenceKept PROVE Spec => []ParityMarksWriting
<1>1. IInv => ParityMarksWriting
  BY DEF IInv
<1> QED
  BY <1>1, IInvHolds, PTL

(* A read that passes its final check is not torn, whatever the number of  *)
(* words, the fields, the retry limits and the width of the counter.       *)
THEOREM NoTornReads == ASSUME SequenceKept PROVE Spec => []NoTornRead
BY IInvHolds, CheckIsSound, PTL

-----------------------------------------------------------------------------
(* No publish has ended early: there is no exception and no crash. *)
BlockIsWhole == ~partial

(* Every step of the publisher and the reader is a step of the atomic      *)
(* block, or one that it does not notice.                                  *)
LEMMA StepImplements ==
  ASSUME IInv, ~MayThrow, ~MayCrash, RawWords = {}, BlockIsWhole, [Next]_vars
  PROVE  [Block!Next]_<<published, seen>>
<1> USE DEF Block!Next, Block!Publish, Block!Load, Block!GiveUp
<1>1. CASE EndWrite
  BY <1>1 DEF EndWrite, readerVars, IInv, TypeOK
<1>2. CASE ReadSeq2
  <2>1. CASE seq = seq1
    <3>1. \A w \in field : buf[w] = published
      <4>1. NoTornRead /\ CheckPasses
        BY <1>2, <2>1, CheckIsSound DEF ReadSeq2, CheckPasses
      <4> QED
        BY <4>1 DEF NoTornRead, BlockIsWhole
    <3>2. seen' = {} \/ seen' = {published}
      BY <1>2, <2>1, <3>1 DEF ReadSeq2
    <3> QED
      BY <1>2, <3>2 DEF ReadSeq2, writerVars
  <2>2. CASE seq # seq1
    BY <1>2, <2>2 DEF ReadSeq2, Retry, writerVars
  <2> QED
    BY <2>1, <2>2
<1>3. CASE Spin
  BY <1>3 DEF Spin, StartCopy, Retry, writerVars
<1> QED
  BY <1>1, <1>2, <1>3 DEF Next, Publisher, ReadWithSequence, BeginWrite, Throw,
     CrashAndRestart, WriteWord, WriteRaw, Call, ReadSeq1, StartCopy, CopyWord,
     vars, readerVars, writerVars

(* Where nothing throws or crashes and every word is under the lock, the   *)
(* publisher and the retry loop implement the atomic block.                *)
THEOREM SeqlockImplementsBlock ==
  ASSUME ~MayThrow, ~MayCrash, RawWords = {} PROVE Spec => ImplementsBlock
<1>1. Spec => []IInv
  BY IInvHolds DEF SequenceKept
<1>2. Spec => []BlockIsWhole
  <2>1. Init => BlockIsWhole
    BY DEF Init, BlockIsWhole
  <2>2. BlockIsWhole /\ [Next]_vars => BlockIsWhole'
    BY DEF BlockIsWhole, Next, Publisher, ReadWithSequence, BeginWrite, EndWrite,
       Throw, CrashAndRestart, WriteWord, WriteRaw, Call, ReadSeq1, Spin,
       ReadSeq2, CopyWord, vars, writerVars, readerVars
  <2> QED
    BY <2>1, <2>2, PTL DEF Spec
<1>3. Init => Block!Init
  BY DEF Init, Block!Init
<1>4. IInv /\ BlockIsWhole /\ [Next]_vars => [Block!Next]_<<published, seen>>
  BY StepImplements
<1> QED
  BY <1>1, <1>2, <1>3, <1>4, PTL DEF Spec, ImplementsBlock, Block!Spec
=============================================================================
