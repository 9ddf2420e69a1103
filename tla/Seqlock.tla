------------------------------- MODULE Seqlock -------------------------------
(***************************************************************************)
(* The sequence lock on the shared-memory block: the publisher (main_mac's *)
(* loop on macOS, SharedMemoryManager::WriteToSharedMemory on Windows) and *)
(* one ReadWithSequence of the Avalonia client's IPCMemoryReader.          *)
(*                                                                         *)
(* The block is a set of words written one at a time; a field is the set   *)
(* of words one read copies.  A publish writes one value to every word, so *)
(* a value names the publish a word comes from.                            *)
(***************************************************************************)
EXTENDS Integers

CONSTANTS
  Words,         \* words of the block
  Fields,        \* fields of the schema: sets of words
  RawWords,      \* words main.cpp also writes outside the sequence lock
  Values,        \* what a publish may write
  Modulus,       \* 2^32: writeSequence is a uint32_t
  MaxAttempts,   \* maxAttempts of ReadWithSequence
  MaxSpin,       \* maxSpin of ReadWithSequence
  MayThrow,      \* a publish may end in an exception
  CatchBumps,    \* the catch handlers complete the sequence (Windows)
  MayCrash,      \* the process may die and its successor reuse the mapping
  MaxLag         \* BOUND: increments during one attempt to read.  At two
                 \* publishes a second 2^32 of them take over 34 years.

ASSUME BlockAssumption ==
  RawWords \subseteq Words /\ Fields \subseteq SUBSET Words /\ Values # {}
ASSUME ModulusAssumption ==
  /\ Modulus \in Nat /\ MaxLag \in Nat
  /\ Modulus % 2 = 0
  /\ MaxLag < Modulus
ASSUME AttemptsAssumption ==
  MaxAttempts \in Nat \ {0} /\ MaxSpin \in Nat \ {0}
ASSUME PlatformAssumption ==
  MayThrow \in BOOLEAN /\ CatchBumps \in BOOLEAN /\ MayCrash \in BOOLEAN

VARIABLES
  seq,        \* writeSequence
  data,       \* the block
  writing,    \* the publisher is between its two increments
  wtodo,      \* words it has still to write
  wval,       \* the value it writes
  published,  \* the last value published completely
  partial,    \* a publish ended early and none has completed since
  rpc,        \* where ReadWithSequence is
  field,      \* the words it reads
  attempt,    \* its loop counters
  spin,
  seq1,       \* its first look at writeSequence
  rtodo,      \* words readAction has still to copy
  buf,        \* the words it copied
  seen,       \* the values in the result it returned, {} for null
  lag         \* increments since seq1 was taken

writerVars == <<writing, wtodo, wval, published, partial>>
readerVars == <<rpc, field, attempt, spin, seq1, rtodo, buf, seen>>
vars == <<seq, data, writerVars, readerVars, lag>>

Init ==
  /\ seq = 0
  /\ published \in Values
  /\ data = [w \in Words |-> published]
  /\ writing = FALSE
  /\ wtodo = {}
  /\ wval = published
  /\ partial = FALSE
  /\ rpc = "idle"
  /\ field = {}
  /\ attempt = 1
  /\ spin = 1
  /\ seq1 = 0
  /\ rtodo = {}
  /\ buf = data
  /\ seen = {}
  /\ lag = 0

-----------------------------------------------------------------------------
(* The publisher *)

(* writeSequence++, with the width of a uint32_t *)
Increment ==
  /\ seq' = IF seq = Modulus - 1 THEN 0 ELSE seq + 1
  /\ lag' = IF rpc = "copy" THEN lag + 1 ELSE lag

BeginWrite ==
  /\ ~writing /\ lag + 2 <= MaxLag
  /\ Increment
  /\ writing' = TRUE
  /\ wtodo' = Words
  /\ wval' \in Values
  /\ UNCHANGED <<data, published, partial, readerVars>>

WriteWord(w) ==
  /\ writing /\ w \in wtodo
  /\ data' = [data EXCEPT ![w] = wval]
  /\ wtodo' = wtodo \ {w}
  /\ UNCHANGED <<seq, writing, wval, published, partial, readerVars, lag>>

(* mutant: the closing increment is missing *)
EndWriteOdd ==
  /\ writing /\ wtodo = {}
  /\ writing' = FALSE
  /\ published' = wval
  /\ partial' = FALSE
  /\ UNCHANGED <<seq, data, wtodo, wval, readerVars, lag>>

EndWrite ==
  /\ writing /\ wtodo = {}
  /\ Increment
  /\ writing' = FALSE
  /\ published' = wval
  /\ partial' = FALSE
  /\ UNCHANGED <<data, wtodo, wval, readerVars>>

(* an exception leaves the write; only Windows' catch handlers increment *)
Throw ==
  /\ MayThrow /\ writing
  /\ IF CatchBumps THEN Increment ELSE UNCHANGED <<seq, lag>>
  /\ writing' = FALSE
  /\ wtodo' = {}
  /\ partial' = TRUE
  /\ UNCHANGED <<data, wval, published, readerVars>>

(* The process dies mid-write; the next one finds the mapping the client   *)
(* keeps alive, does not clear it, and takes the abandoned mutex.          *)
CrashAndRestart ==
  /\ MayCrash /\ writing
  /\ writing' = FALSE
  /\ wtodo' = {}
  /\ partial' = TRUE
  /\ UNCHANGED <<seq, data, wval, published, readerVars, lag>>

(* main.cpp clears and fills the WiFi and Bluetooth fields between publishes *)
WriteRaw(w) ==
  /\ ~writing
  /\ \E v \in Values : data' = [data EXCEPT ![w] = v]
  /\ UNCHANGED <<seq, writerVars, readerVars, lag>>

Publisher ==
  \/ BeginWrite \/ EndWrite \/ Throw \/ CrashAndRestart
  \/ \E w \in Words : WriteWord(w)
  \/ \E w \in RawWords : WriteRaw(w)

-----------------------------------------------------------------------------
(* ReadWithSequence *)

Call ==
  /\ rpc = "idle"
  /\ field' \in Fields
  /\ attempt' = 1
  /\ rpc' = "seq1"
  /\ UNCHANGED <<seq, data, writerVars, spin, seq1, rtodo, buf, seen, lag>>

(* mutant: copies whatever the parity *)
StartCopyAnyParity ==
  /\ seq1' = seq
  /\ lag' = 0
  /\ rtodo' = field
  /\ rpc' = "copy"

(* an even sequence starts the copy *)
StartCopy ==
  /\ seq % 2 = 0
  /\ seq1' = seq
  /\ lag' = 0
  /\ rtodo' = field
  /\ rpc' = "copy"

(* the next attempt, or null after the last *)
Retry ==
  IF attempt < MaxAttempts
  THEN rpc' = "seq1" /\ attempt' = attempt + 1 /\ UNCHANGED seen
  ELSE rpc' = "idle" /\ seen' = {} /\ UNCHANGED attempt

ReadSeq1 ==
  /\ rpc = "seq1"
  /\ \/ StartCopy /\ UNCHANGED spin
     \/ /\ seq % 2 = 1
        /\ rpc' = "spin" /\ spin' = 1
        /\ UNCHANGED <<seq1, rtodo, lag>>
  /\ UNCHANGED <<seq, data, writerVars, field, attempt, buf, seen>>

(* mutant: spins until the sequence is even *)
SpinUntilEven ==
  /\ rpc = "spin"
  /\ StartCopy /\ spin' = 1
  /\ UNCHANGED <<attempt, seen, seq, data, writerVars, field, buf>>

Spin ==
  /\ rpc = "spin"
  /\ \/ StartCopy /\ spin' = 1 /\ UNCHANGED <<attempt, seen>>
     \/ /\ seq % 2 = 1 /\ spin < MaxSpin
        /\ spin' = spin + 1
        /\ UNCHANGED <<rpc, attempt, seq1, rtodo, seen, lag>>
     \/ /\ seq % 2 = 1 /\ spin = MaxSpin
        /\ Retry /\ spin' = 1
        /\ UNCHANGED <<seq1, rtodo, lag>>
  /\ UNCHANGED <<seq, data, writerVars, field, buf>>

CopyWord(w) ==
  /\ rpc = "copy" /\ w \in rtodo
  /\ buf' = [buf EXCEPT ![w] = data[w]]
  /\ rtodo' = rtodo \ {w}
  /\ UNCHANGED <<seq, data, writerVars, rpc, field, attempt, spin, seq1, seen, lag>>

(* mutant: the second look at the sequence is missing *)
ReadSeq2Unchecked ==
  /\ rpc = "copy" /\ rtodo = {}
  /\ seen' = {buf[w] : w \in field} /\ rpc' = "idle"
  /\ lag' = 0
  /\ UNCHANGED <<attempt, seq, data, writerVars, field, spin, seq1, rtodo, buf>>

ReadSeq2 ==
  /\ rpc = "copy" /\ rtodo = {}
  /\ \/ seq = seq1 /\ seen' = {buf[w] : w \in field} /\ rpc' = "idle" /\ UNCHANGED attempt
     \/ seq # seq1 /\ Retry
  /\ lag' = 0
  /\ UNCHANGED <<seq, data, writerVars, field, spin, seq1, rtodo, buf>>

(* one call of ReadWithSequence, once made *)
ReadWithSequence ==
  \/ ReadSeq1 \/ Spin \/ ReadSeq2
  \/ \E w \in Words : CopyWord(w)

-----------------------------------------------------------------------------
Next == Publisher \/ Call \/ ReadWithSequence

(* The read runs on the client's own thread and never blocks; nobody owes  *)
(* it a publish.                                                           *)
Spec == Init /\ [][Next]_vars /\ WF_vars(ReadWithSequence)

-----------------------------------------------------------------------------
(* Every variable ranges over what the code can store in it. *)
TypeOK ==
  /\ seq \in 0 .. Modulus - 1 /\ seq1 \in 0 .. Modulus - 1
  /\ data \in [Words -> Values] /\ buf \in [Words -> Values]
  /\ writing \in BOOLEAN /\ partial \in BOOLEAN
  /\ wtodo \subseteq Words /\ rtodo \subseteq Words /\ field \subseteq Words
  /\ wval \in Values /\ published \in Values
  /\ rpc \in {"idle", "seq1", "spin", "copy"}
  /\ attempt \in 1 .. MaxAttempts /\ spin \in 1 .. MaxSpin
  /\ seen \subseteq Values
  /\ lag \in 0 .. MaxLag

(* The platform always completes the sequence it began. *)
SequenceKept == (MayThrow => CatchBumps) /\ ~MayCrash

(* "seqlock: odd=write in progress, even=complete" (IPCData.h,             *)
(* DataStruct.h): the parity tells whether a publish is under way.         *)
ParityMarksWriting == writing <=> seq % 2 = 1

CheckPasses == rpc = "copy" /\ rtodo = {} /\ seq = seq1

(* A read whose second look at the sequence agrees with the first returns  *)
(* the block as it is, every word from the last complete publish (unless   *)
(* that publish threw half-way), whatever the publisher did meanwhile.     *)
(* Words written outside the lock are not covered.                         *)
NoTornRead ==
  CheckPasses /\ field \cap RawWords = {} =>
    /\ ~writing
    /\ \A w \in field : buf[w] = data[w] /\ (~partial => buf[w] = published)

(* ReadWithSequence returns, with a value or null, even if the sequence is *)
(* stuck odd or the publisher never rests: its attempts are bounded.       *)
ReadReturns == rpc # "idle" ~> rpc = "idle"

(* With the whole block under the lock the client sees an atomic block: a  *)
(* read returns the last publish whole, or null.                           *)
Block == INSTANCE BlockSnapshot WITH snapshot <- published
ImplementsBlock == Block!Spec
=============================================================================
