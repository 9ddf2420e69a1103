--------------------------- MODULE IpcServerProofs ---------------------------
(***************************************************************************)
(* Proofs about IpcServer, for every set of connections and descriptors:   *)
(* types, the descriptors handlers use, the registry's accounting and what *)
(* Stop() leaves open.  Connections need not be finite in number.          *)
(***************************************************************************)
EXTENDS IpcServer, FiniteSetTheorems, SequenceTheorems, WellFoundedInduction, TLAPS

USE ConnsAssumption, KeepersAssumption, FdsAssumption, MaxPingsAssumption

(* The positions of the entries with number f, the one find_if finds and   *)
(* what is left when it is erased.                                         *)
Positions(s, f) == {i \in 1..Len(s) : s[i].fd = f}
Found(s, f)     == SelectInSeq(s, LAMBDA e : e.fd = f)
Erased(s, f)    == RemoveFirstMatch(s, LAMBDA e : e.fd = f)

(* find_if finds the first entry with the number, if there is one. *)
LEMMA FirstEntry ==
  ASSUME NEW f, NEW s
  PROVE  /\ Positions(s, f) = {} => Found(s, f) = 0
         /\ Positions(s, f) # {} => Found(s, f) \in Positions(s, f)
<1>1. CASE Positions(s, f) = {}
  BY <1>1 DEF Positions, Found, SelectInSeq
<1>2. CASE Positions(s, f) # {}
  <2>1. Found(s, f) = Min(Positions(s, f))
    BY <1>2 DEF Positions, Found, SelectInSeq
  <2>2. \E k \in Positions(s, f) : \A i \in Positions(s, f) : k <= i
    <3> DEFINE P == Positions(s, f)
               R == OpToRel(<, Nat)
    <3>1. P \subseteq Nat
      BY DEF Positions
    <3>2. IsWellFoundedOn(R, Nat)
      BY NatLessThanWellFounded
    <3>3. \A i, k \in Nat : <<i, k>> \notin R => k <= i
      BY DEF OpToRel
    <3> HIDE DEF R
    <3>4. \E k \in P : \A i \in P : <<i, k>> \notin R
      BY <1>2, <3>1, <3>2, WFMin
    <3> QED
      BY <3>1, <3>3, <3>4
  <2> QED
    BY <1>2, <2>1, <2>2 DEF Min
<1> QED
  BY <1>1, <1>2

(* Erasing it, if there is one, leaves a registry. *)
LEMMA EraseTyped ==
  ASSUME NEW f, NEW s \in Seq(Entry)
  PROVE  Erased(s, f) \in Seq(Entry)
<1>1. CASE Positions(s, f) = {}
  BY <1>1 DEF Positions, Erased, RemoveFirstMatch
<1>2. CASE Positions(s, f) # {}
  <2> DEFINE k == Found(s, f)
  <2>1. k \in 1..Len(s)
    BY <1>2, FirstEntry DEF Positions
  <2>2. Erased(s, f) = RemoveAt(s, k)
    BY <1>2 DEF Positions, Found, Erased, RemoveFirstMatch
  <2> HIDE DEF k
  <2>3. RemoveAt(s, k) \in Seq(Entry)
    BY <2>1, SubSeqProperties, ConcatProperties DEF RemoveAt
  <2> QED
    BY <2>2, <2>3
<1> QED
  BY <1>1, <1>2

-----------------------------------------------------------------------------
(* The server starts with every variable in its range. *)
LEMMA InitTyped == Init => TypeOK
<1> SUFFICES ASSUME Init PROVE TypeOK
  OBVIOUS
<1>1. acceptFd \in Fds
  BY DEF Init
<1>2. handlerFd \in [Conns -> Fds] /\ owner \in [Fds -> Conns \cup {None, Foreign}]
  BY <1>1 DEF Init
<1>3. <<>> \in Seq(Entry) /\ <<>> \in Seq(FromClient) /\ <<>> \in Seq(FromServer)
  OBVIOUS
<1> QED
  BY <1>1, <1>2, <1>3 DEF Init, TypeOK, HandlerPcs

(* What the system calls do to the variables they change. *)
LEMMA WriteTyped ==
  ASSUME TypeOK, NEW f \in Fds, NEW msg \in FromServer, Write(f, msg)
  PROVE  /\ alive' \in BOOLEAN /\ outbox' \in [Conns -> Seq(FromServer)]
         /\ full' \in [Conns -> BOOLEAN]
<1> USE DEF TypeOK
<1>1. CASE UNCHANGED wireVars /\ alive' \in BOOLEAN
  BY <1>1 DEF wireVars
<1>2. CASE /\ owner[f] \in Conns /\ alive' = alive
           /\ outbox' = [outbox EXCEPT ![owner[f]] = Append(@, msg)]
           /\ full' = full \/ full' = [full EXCEPT ![owner[f]] = TRUE]
  <2>1. ASSUME NEW c \in Conns PROVE Append(outbox[c], msg) \in Seq(FromServer)
    BY AppendProperties
  <2> QED
    BY <1>2, <2>1
<1>3. (owner[f] \notin Conns) \in BOOLEAN
  OBVIOUS
<1> QED
  BY <1>1, <1>2, <1>3 DEF Write

(* A read takes one message off what the client sent. *)
LEMMA ReadTyped ==
  ASSUME TypeOK, NEW f \in Fds, NEW msg, Read(f, msg)
  PROVE  inbox' \in [Conns -> Seq(FromClient)]
<1> PICK c \in Conns : inbox[c] # <<>> /\ inbox' = [inbox EXCEPT ![c] = Tail(@)]
  BY DEF Read
<1>1. Tail(inbox[c]) \in Seq(FromClient)
  BY HeadTailProperties DEF TypeOK
<1> QED
  BY <1>1 DEF TypeOK

(* A handler step moves one handler. *)
LEMMA GotoTyped ==
  ASSUME TypeOK, NEW c \in Conns, NEW from, NEW to \in HandlerPcs, Goto(c, from, to)
  PROVE  /\ handlerPc' \in [Conns -> HandlerPcs]
         /\ UNCHANGED <<handlerFd, running, stopPc, told, acceptPc, acceptFd>>
  BY DEF TypeOK, Goto, acceptVars

(* A client step sends one message of the protocol. *)
LEMMA SendTyped ==
  ASSUME TypeOK, NEW c \in Conns, NEW msg \in FromClient, NEW from,
         NEW to \in {"greeted", "acked", "closed"}, ClientSend(c, msg, from, to)
  PROVE  /\ peer' \in [Conns -> {"none", "connected", "greeted", "acked", "closed"}]
         /\ inbox' \in [Conns -> Seq(FromClient)]
         /\ UNCHANGED <<alive, serverVars, acceptVars, owner, handlerVars, wireVars>>
<1>1. Append(inbox[c], msg) \in Seq(FromClient)
  BY AppendProperties DEF TypeOK
<1> QED
  BY <1>1 DEF TypeOK, ClientSend

(* Every step keeps the ranges: one case per action. *)
LEMMA StepTyped ==
  ASSUME TypeOK, [Next]_vars
  PROVE  TypeOK'
<1> USE DEF TypeOK, serverVars, acceptVars, handlerVars, peerVars, wireVars
<1>1. CASE AcceptCheck
  BY <1>1 DEF AcceptCheck
<1>2. CASE AcceptNothing
  BY <1>2 DEF AcceptNothing
<1>3. CASE Accept
  BY <1>3 DEF Accept, FreeFds, Backlog
<1>4. CASE Register
  <2>1. [fd |-> acceptFd, type |-> "Unknown"] \in Entry
    BY DEF Entry, ClientTypes
  <2>2. clients' \in Seq(Entry)
    BY <1>4, <2>1, AppendProperties DEF Register
  <2> QED
    BY <1>4, <2>2 DEF Register, HandlerPcs
<1>5. ASSUME NEW c \in Conns, HandleClient(c) PROVE TypeOK'
  <2> USE DEF HandlerPcs
  <2>1. CASE ReadHello(c)
    BY <2>1, GotoTyped, ReadTyped DEF ReadHello
  <2>2. CASE RejectClose(c)
    BY <2>2, GotoTyped DEF RejectClose
  <2>3. CASE StoreType(c)
    <3>1. clients' \in Seq(Entry)
      <4> DEFINE k == Found(clients, handlerFd[c])
      <4>1. k = 0 \/ k \in 1..Len(clients)
        BY FirstEntry DEF Positions
      <4>2. clients' = IF k = 0 THEN clients ELSE [clients EXCEPT ![k].type = "Identified"]
        BY <2>3 DEF StoreType, Found
      <4> HIDE DEF k
      <4>3. \A e \in Entry : [e EXCEPT !.type = "Identified"] \in Entry
        BY DEF Entry, ClientTypes
      <4> QED
        BY <4>1, <4>2, <4>3
    <3> QED
      BY <2>3, <3>1, GotoTyped DEF StoreType
  <2>4. CASE SendHelloAck(c)
    BY <2>4, GotoTyped, WriteTyped DEF SendHelloAck, FromServer
  <2>5. CASE SendSchemaToPeer(c)
    BY <2>5, GotoTyped, WriteTyped DEF SendSchemaToPeer, FromServer
  <2>12. CASE SendRest(c)
    BY <2>12, GotoTyped, WriteTyped DEF SendRest, FromServer
  <2>6. CASE ReadAck(c)
    BY <2>6, GotoTyped, ReadTyped DEF ReadAck
  <2>7. CASE LoopExit(c)
    BY <2>7, GotoTyped DEF LoopExit
  <2>8. CASE LoopPing(c)
    BY <2>8, GotoTyped, ReadTyped, WriteTyped DEF LoopPing, FromServer
  <2>9. CASE LoopBye(c)
    BY <2>9, GotoTyped, ReadTyped DEF LoopBye
  <2>10. CASE CloseFd(c)
    BY <2>10, GotoTyped DEF CloseFd
  <2>11. CASE Erase(c)
    <3>1. clients' \in Seq(Entry)
      <4>1. clients' = Erased(clients, handlerFd[c])
        BY <2>11 DEF Erase, Erased
      <4> QED
        BY <4>1, EraseTyped
    <3> QED
      BY <2>11, <3>1, GotoTyped DEF Erase
  <2> QED
    BY <1>5, <2>1, <2>2, <2>3, <2>4, <2>5, <2>6, <2>7, <2>8, <2>9, <2>10, <2>11, <2>12
    DEF HandleClient
<1>6. CASE StopBegin
  BY <1>6 DEF StopBegin
<1>7. CASE StopLock \/ StopUnlock
  BY <1>7 DEF StopLock, StopUnlock
<1>14. CASE StopTell
  <2>1. clients[told + 1].fd \in Fds
    <3>1. told + 1 \in 1..Len(clients)
      BY <1>14 DEF StopTell
    <3>2. clients[told + 1] \in Entry
      BY <3>1
    <3> QED
      BY <3>2 DEF Entry
  <2> QED
    BY <1>14, <2>1, WriteTyped DEF StopTell, FromServer
<1>8. CASE StopJoin
  BY <1>8 DEF StopJoin
<1>9. CASE StopClose
  BY <1>9 DEF StopClose
<1>10. CASE ForeignOpen
  BY <1>10 DEF ForeignOpen, FreeFds
<1>11. CASE ForeignClose
  BY <1>11 DEF ForeignClose
<1>12. ASSUME NEW c \in Conns, Client(c) PROVE TypeOK'
  <2> USE DEF FromClient
  <2>1. CASE ClientConnect(c)
    BY <2>1 DEF ClientConnect
  <2>2. CASE ClientHello(c)
    BY <2>2, SendTyped DEF ClientHello
  <2>3. CASE ClientAck(c)
    BY <2>3, SendTyped DEF ClientAck
  <2>4. CASE ClientPing(c)
    BY <2>4, SendTyped DEF ClientPing
  <2>5. CASE ClientBye(c)
    BY <2>5, SendTyped DEF ClientBye
  <2>6. CASE ClientRead(c)
    BY <2>6 DEF ClientRead
  <2>7. CASE ClientClose(c)
    BY <2>7 DEF ClientClose
  <2> QED
    BY <1>12, <2>1, <2>2, <2>3, <2>4, <2>5, <2>6, <2>7 DEF Client
<1>13. CASE UNCHANGED vars
  BY <1>13 DEF vars
<1> QED
  BY <1>1, <1>2, <1>3, <1>4, <1>5, <1>6, <1>7, <1>8, <1>9, <1>10, <1>11, <1>12, <1>13,
     <1>14 DEF Next, AcceptLoop, Stop, StopRest

(* The variables keep their ranges, whatever the clients send. *)
THEOREM TypeCorrect == Spec => []TypeOK
<1>1. TypeOK /\ [Next]_vars => TypeOK'
  BY StepTyped
<1> QED
  BY InitTyped, <1>1, PTL DEF Spec

-----------------------------------------------------------------------------
(* A connection that has been accepted and not registered yet belongs to no *)
(* handler, and Stop() only closes descriptors when nothing is accepted any *)
(* more.                                                                   *)
Accepting == acceptPc = "register" =>
               owner[acceptFd] \in Conns /\ handlerPc[owner[acceptFd]] = "none"
Joined    == stopPc \in {"close", "stopped"} => acceptPc = "exited"
IInv      == TypeOK /\ OwnDescriptor /\ Accepting /\ Joined

(* A handler that closes its descriptor takes nobody else's. *)
LEMMA CloseOwn ==
  ASSUME IInv, NEW c \in Conns, NEW from \in Holding, NEW to \in HandlerPcs \ (Holding \cup {"none"}),
         Goto(c, from, to), owner' = [owner EXCEPT ![handlerFd[c]] = None]
  PROVE  OwnDescriptor' /\ Accepting' /\ Joined'
<1> USE DEF IInv, TypeOK, Goto, acceptVars, HandlerPcs, Holding
<1>1. OwnDescriptor'
  BY DEF OwnDescriptor, Listening
<1>2. Accepting'
  BY DEF Accepting, OwnDescriptor, Joined, Listening
<1>3. Joined'
  BY DEF Joined
<1> QED
  BY <1>1, <1>2, <1>3

(* A step of a handler that neither closes nor starts keeps everything. *)
LEMMA HandlerMoves ==
  ASSUME IInv, NEW c \in Conns, NEW from \in HandlerPcs \ {"none"}, NEW to \in HandlerPcs \ {"none"},
         to \in Holding => from \in Holding,
         Goto(c, from, to), UNCHANGED owner
  PROVE  OwnDescriptor' /\ Accepting' /\ Joined'
<1> USE DEF IInv, TypeOK, Goto, acceptVars
<1>1. OwnDescriptor'
  BY DEF OwnDescriptor, Listening
<1>2. Accepting'
  BY DEF Accepting
<1>3. Joined'
  BY DEF Joined
<1> QED
  BY <1>1, <1>2, <1>3

(* Steps that move no handler, no descriptor and not the accept thread. *)
LEMMA Elsewhere ==
  ASSUME IInv, UNCHANGED <<stopPc, acceptVars, owner, handlerVars>>
  PROVE  OwnDescriptor' /\ Accepting' /\ Joined'
  BY DEF IInv, acceptVars, handlerVars, OwnDescriptor, Listening, Accepting, Joined

(* Every step keeps handlers on their own descriptors. *)
LEMMA StepOwns ==
  ASSUME IInv, [Next]_vars
  PROVE  OwnDescriptor' /\ Accepting' /\ Joined'
<1> USE DEF IInv, TypeOK, serverVars, acceptVars, handlerVars
<1> DEFINE Goal == OwnDescriptor' /\ Accepting' /\ Joined'
<1>1. CASE AcceptCheck
  BY <1>1 DEF AcceptCheck, OwnDescriptor, Listening, Accepting, Joined
<1>2. CASE AcceptNothing
  BY <1>2 DEF AcceptNothing, OwnDescriptor, Listening, Accepting, Joined
<1>3. CASE Accept
  <2> PICK c \in Backlog, f \in FreeFds : owner' = [owner EXCEPT ![f] = c] /\ acceptFd' = f
    BY <1>3 DEF Accept
  <2>1. c \in Conns /\ handlerPc[c] = "none" /\ f \in Fds /\ owner[f] = None
    BY DEF Backlog, Accepted, FreeFds
  <2>2. OwnDescriptor'
    BY <1>3, <2>1 DEF Accept, OwnDescriptor, Listening
  <2>3. Accepting' /\ Joined'
    BY <1>3, <2>1 DEF Accept, Accepting, Joined
  <2> QED
    BY <2>2, <2>3
<1>4. CASE Register
  BY <1>4 DEF Register, OwnDescriptor, Listening, Accepting, Joined
<1>5. ASSUME NEW c \in Conns, HandleClient(c) PROVE Goal
  <2> USE DEF HandlerPcs, Holding
  <2>1. CASE ReadHello(c)
    BY <2>1, HandlerMoves DEF ReadHello
  <2>2. CASE RejectClose(c)
    BY <2>2, CloseOwn DEF RejectClose
  <2>3. CASE StoreType(c)
    BY <2>3, HandlerMoves DEF StoreType
  <2>4. CASE SendHelloAck(c)
    BY <2>4, HandlerMoves DEF SendHelloAck
  <2>5. CASE SendSchemaToPeer(c)
    BY <2>5, HandlerMoves DEF SendSchemaToPeer
  <2>12. CASE SendRest(c)
    BY <2>12, HandlerMoves DEF SendRest
  <2>6. CASE ReadAck(c)
    BY <2>6, HandlerMoves DEF ReadAck
  <2>7. CASE LoopExit(c)
    BY <2>7, HandlerMoves DEF LoopExit
  <2>8. CASE LoopPing(c)
    BY <2>8, HandlerMoves DEF LoopPing
  <2>9. CASE LoopBye(c)
    BY <2>9, HandlerMoves DEF LoopBye
  <2>10. CASE CloseFd(c)
    BY <2>10, CloseOwn DEF CloseFd
  <2>11. CASE Erase(c)
    BY <2>11, HandlerMoves DEF Erase
  <2> QED
    BY <1>5, <2>1, <2>2, <2>3, <2>4, <2>5, <2>6, <2>7, <2>8, <2>9, <2>10, <2>11, <2>12
    DEF HandleClient
<1>6. CASE StopBegin
  BY <1>6 DEF StopBegin, OwnDescriptor, Listening, Accepting, Joined
<1>7. CASE StopLock \/ StopTell \/ StopUnlock
  BY <1>7 DEF StopLock, StopTell, StopUnlock, OwnDescriptor, Listening, Accepting, Joined
<1>8. CASE StopJoin
  BY <1>8 DEF StopJoin, OwnDescriptor, Listening, Accepting, Joined
<1>9. CASE StopClose
  BY <1>9 DEF StopClose, OwnDescriptor, Listening, Accepting, Joined
<1>10. CASE ForeignOpen
  BY <1>10 DEF ForeignOpen, FreeFds, OwnDescriptor, Listening, Accepting, Joined
<1>11. CASE ForeignClose
  BY <1>11 DEF ForeignClose, OwnDescriptor, Listening, Accepting, Joined
<1>12. ASSUME NEW c \in Conns, Client(c) PROVE Goal
  BY <1>12, Elsewhere DEF Client, ClientConnect, ClientHello, ClientAck, ClientPing,
     ClientBye, ClientRead, ClientClose, ClientSend
<1>13. CASE UNCHANGED vars
  BY <1>13, Elsewhere DEF vars
<1> QED
  BY <1>1, <1>2, <1>3, <1>4, <1>5, <1>6, <1>7, <1>8, <1>9, <1>10, <1>11, <1>12, <1>13
  DEF Next, AcceptLoop, Stop, StopRest

(* A handler that still holds its descriptor never reads, writes or closes *)
(* another's, for any number of clients and of descriptor numbers.         *)
THEOREM HandlersOwnDescriptors == Spec => []OwnDescriptor
<1>1. Init => IInv
  BY InitTyped DEF Init, IInv, OwnDescriptor, Holding, Accepting, Joined
<1>2. IInv /\ [Next]_vars => IInv'
  BY StepTyped, StepOwns DEF IInv
<1>3. IInv => OwnDescriptor
  BY DEF IInv
<1> QED
  BY <1>1, <1>2, <1>3, PTL DEF Spec

-----------------------------------------------------------------------------
(* What is left when an entry is erased: those before it and those after. *)
LEMMA ErasedAt ==
  ASSUME NEW s \in Seq(Entry), NEW f, Positions(s, f) # {}
  PROVE  LET k == Found(s, f) IN
         /\ k \in Positions(s, f)
         /\ Len(Erased(s, f)) = Len(s) - 1
         /\ \A i \in 1 .. Len(s) - 1 :
              Erased(s, f)[i] = IF i < k THEN s[i] ELSE s[i + 1]
<1> DEFINE k == Found(s, f)
           a == SubSeq(s, 1, k - 1)
           b == SubSeq(s, k + 1, Len(s))
<1>1. k \in Positions(s, f)
  BY FirstEntry
<1>2. k \in 1..Len(s)
  BY <1>1 DEF Positions
<1>3. Erased(s, f) = a \o b
  BY DEF Positions, Found, Erased, RemoveFirstMatch, RemoveAt
<1> HIDE DEF k
<1>4. /\ a \in Seq(Entry) /\ Len(a) = k - 1
      /\ \A i \in 1 .. k - 1 : a[i] = s[i]
  BY <1>2, SubSeqProperties
<1>5. /\ b \in Seq(Entry) /\ Len(b) = Len(s) - k
      /\ \A i \in 1 .. Len(s) - k : b[i] = s[k + i]
  BY <1>2, SubSeqProperties
<1> HIDE DEF a, b
<1>6. /\ Len(a \o b) = Len(a) + Len(b)
      /\ \A i \in 1 .. Len(a) + Len(b) :
           (a \o b)[i] = IF i <= Len(a) THEN a[i] ELSE b[i - Len(a)]
  BY <1>4, <1>5, ConcatProperties
<1>7. Len(a \o b) = Len(s) - 1
  BY <1>2, <1>4, <1>5, <1>6
<1>8. ASSUME NEW i \in 1 .. Len(s) - 1
      PROVE  (a \o b)[i] = IF i < k THEN s[i] ELSE s[i + 1]
  <2>1. (a \o b)[i] = IF i < k THEN a[i] ELSE b[i - (k - 1)]
    BY <1>2, <1>4, <1>5, <1>6
  <2>2. CASE i < k
    BY <1>2, <1>4, <2>1, <2>2
  <2>3. CASE ~(i < k)
    <3>1. i - (k - 1) \in 1 .. Len(s) - k /\ k + (i - (k - 1)) = i + 1
      BY <1>2, <2>3
    <3> QED
      BY <1>5, <2>1, <2>3, <3>1
  <2> QED
    BY <2>2, <2>3
<1> QED
  BY <1>1, <1>3, <1>7, <1>8 DEF k

(* The registry holds finitely many entries with a number. *)
LEMMA PositionsFinite ==
  ASSUME NEW s \in Seq(Entry), NEW f
  PROVE  IsFiniteSet(Positions(s, f)) /\ Cardinality(Positions(s, f)) \in Nat
<1>1. IsFiniteSet(1..Len(s))
  BY FS_Interval
<1>2. Positions(s, f) \in SUBSET (1..Len(s))
  BY DEF Positions
<1> QED
  BY <1>1, <1>2, FS_Subset, FS_CardinalityType

(* Erasing takes one entry of the number and none of another: the           *)
(* positions left are those before, the later ones moved down by one.       *)
LEMMA ErasedCount ==
  ASSUME NEW s \in Seq(Entry), NEW f, NEW g, Positions(s, f) # {}
  PROVE  Cardinality(Positions(Erased(s, f), g)) =
           IF g = f THEN Cardinality(Positions(s, g)) - 1
           ELSE Cardinality(Positions(s, g))
<1> DEFINE k == Found(s, f)
           t == Erased(s, f)
           A == Positions(s, g) \ {k}
           B == Positions(t, g)
           h == [i \in A |-> IF i < k THEN i ELSE i - 1]
           r == [j \in B |-> IF j < k THEN j ELSE j + 1]
<1>1. /\ k \in 1..Len(s) /\ s[k].fd = f
      /\ Len(t) = Len(s) - 1
      /\ \A i \in 1 .. Len(s) - 1 : t[i] = IF i < k THEN s[i] ELSE s[i + 1]
  BY ErasedAt DEF Positions
<1> HIDE DEF k, t
<1>2. h \in [A -> B]
  BY <1>1 DEF Positions
<1>3. \A i, j \in A : h[i] = h[j] => i = j
  BY <1>1 DEF Positions
<1>4. ASSUME NEW j \in B PROVE \E i \in A : h[i] = j
  <2>1. r[j] \in A
    BY <1>1 DEF Positions
  <2>2. h[r[j]] = j
    BY <1>1, <2>1 DEF Positions
  <2> QED
    BY <2>1, <2>2
<1> HIDE DEF h, A, B
<1>5. h \in Bijection(A, B)
  BY <1>2, <1>3, <1>4 DEF Bijection, Injection, Surjection, IsInjective
<1>6. IsFiniteSet(A) /\ Cardinality(A) =
        IF k \in Positions(s, g) THEN Cardinality(Positions(s, g)) - 1
        ELSE Cardinality(Positions(s, g))
  BY PositionsFinite, FS_RemoveElement DEF A
<1>7. Cardinality(B) = Cardinality(A)
  BY <1>5, <1>6, FS_Bijection DEF ExistsBijection
<1>8. k \in Positions(s, g) <=> g = f
  BY <1>1 DEF Positions
<1> QED
  BY <1>6, <1>7, <1>8 DEF B, t

-----------------------------------------------------------------------------
(* The handlers given number f that have not erased an entry yet, and the  *)
(* registry accounting with the finiteness that counting needs.            *)
Owing(f) == {c \in Conns : handlerPc[c] \notin {"none", "done"} /\ handlerFd[c] = f}
Counted  == Listening => \A f \in Fds : /\ IsFiniteSet(Owing(f))
                                       /\ Cardinality(Positions(clients, f)) = Cardinality(Owing(f))

(* The bijection between positions and owing handlers says that there are  *)
(* as many of the one as of the other.                                     *)
LEMMA CountedIsAccounting == TypeOK /\ Counted => RegistryAccounting
<1> SUFFICES ASSUME TypeOK, Counted PROVE RegistryAccounting
  OBVIOUS
<1>1. \A f \in Fds : Listed(f) = Positions(clients, f)
  BY DEF TypeOK, Listed, Positions
<1> QED
  BY <1>1 DEF Counted, RegistryAccounting, Owing

(* Steps that change no handler and no number in the registry. *)
LEMMA CountedElsewhere ==
  ASSUME TypeOK, Counted, UNCHANGED handlerVars, Listening' => Listening,
         UNCHANGED clients \/ stopPc' = "stopped"
  PROVE  Counted'
<1>1. \A f : Owing(f)' = Owing(f)
  BY DEF Owing, handlerVars
<1> QED
  BY <1>1 DEF Counted, Listening

(* A handler on its way owes what it owed. *)
LEMMA CountedMoves ==
  ASSUME TypeOK, Counted, NEW c \in Conns,
         NEW from \in HandlerPcs \ {"none", "done"}, NEW to \in HandlerPcs \ {"none", "done"},
         Goto(c, from, to),
         \A f \in Fds : Positions(clients', f) = Positions(clients, f)
  PROVE  Counted'
<1>1. \A f : Owing(f)' = Owing(f)
  BY DEF Owing, Goto, TypeOK
<1> QED
  BY <1>1 DEF Counted, Listening, Goto

(* Register adds an entry and a handler that owes it. *)
LEMMA CountedRegister ==
  ASSUME TypeOK, Accepting, Counted, Register
  PROVE  Counted'
<1> DEFINE c == owner[acceptFd]
           e == [fd |-> acceptFd, type |-> "Unknown"]
           n == Len(clients) + 1
<1> SUFFICES ASSUME Listening', NEW f \in Fds
             PROVE  /\ IsFiniteSet(Owing(f)')
                    /\ Cardinality(Positions(clients', f)) = Cardinality(Owing(f)')
  BY DEF Counted
<1>1. c \in Conns /\ handlerPc[c] = "none" /\ Listening
  BY DEF Register, Accepting, Listening
<1>2. /\ Len(clients') = n /\ n \in Nat
      /\ \A i \in 1..n : clients'[i] = IF i = n THEN e ELSE clients[i]
  BY AppendProperties DEF Register, TypeOK, Entry, ClientTypes
<1>3. CASE f = acceptFd
  <2>1. Positions(clients', f) = Positions(clients, f) \cup {n} /\ n \notin Positions(clients, f)
    BY <1>2, <1>3 DEF Positions, TypeOK
  <2>2. Owing(f)' = Owing(f) \cup {c} /\ c \notin Owing(f)
    BY <1>1, <1>3 DEF Owing, Register, TypeOK
  <2>3. IsFiniteSet(Positions(clients, f))
    BY PositionsFinite DEF TypeOK
  <2>4. /\ IsFiniteSet(Owing(f))
        /\ Cardinality(Positions(clients, f)) = Cardinality(Owing(f))
    BY <1>1 DEF Counted
  <2>5. Cardinality(Positions(clients, f) \cup {n}) = Cardinality(Positions(clients, f)) + 1
    BY <2>1, <2>3, FS_AddElement
  <2>6. /\ IsFiniteSet(Owing(f) \cup {c})
        /\ Cardinality(Owing(f) \cup {c}) = Cardinality(Owing(f)) + 1
    BY <2>2, <2>4, FS_AddElement
  <2> QED
    BY <2>1, <2>2, <2>4, <2>5, <2>6
<1>4. CASE f # acceptFd
  <2>1. Positions(clients', f) = Positions(clients, f)
    <3>1. Len(clients) \in Nat /\ e.fd # f
      BY <1>4 DEF TypeOK
    <3>2. \A i \in 1..n : clients'[i].fd = f <=> i \in 1..Len(clients) /\ clients[i].fd = f
      BY <1>2, <3>1
    <3> QED
      BY <1>2, <3>1, <3>2 DEF Positions
  <2>2. Owing(f)' = Owing(f)
    BY <1>1, <1>4 DEF Owing, Register, TypeOK
  <2> QED
    BY <1>1, <2>1, <2>2 DEF Counted
<1> QED
  BY <1>3, <1>4

(* Erase takes one entry and the handler that owed it. *)
LEMMA CountedErase ==
  ASSUME TypeOK, Counted, NEW c \in Conns, Erase(c)
  PROVE  Counted'
<1> DEFINE g == handlerFd[c]
<1> SUFFICES ASSUME Listening', NEW f \in Fds
             PROVE  /\ IsFiniteSet(Owing(f)')
                    /\ Cardinality(Positions(clients', f)) = Cardinality(Owing(f)')
  BY DEF Counted
<1>1. Listening /\ g \in Fds /\ clients' = Erased(clients, g)
  BY DEF Erase, Goto, Listening, TypeOK, Erased
<1>2. c \in Owing(g)
  BY DEF Erase, Goto, Owing
<1>3. Positions(clients, g) # {}
  BY <1>1, <1>2, FS_EmptySet DEF Counted
<1>4. CASE f = g
  <2>1. Owing(f)' = Owing(f) \ {c}
    BY <1>4 DEF Erase, Goto, Owing, TypeOK
  <2>2. Cardinality(Positions(clients', f)) = Cardinality(Positions(clients, f)) - 1
    BY <1>1, <1>3, <1>4, ErasedCount DEF TypeOK
  <2>3. /\ IsFiniteSet(Owing(f)) /\ c \in Owing(f)
        /\ Cardinality(Positions(clients, f)) = Cardinality(Owing(f))
    BY <1>1, <1>2, <1>4 DEF Counted
  <2>4. /\ IsFiniteSet(Owing(f) \ {c})
        /\ Cardinality(Owing(f) \ {c}) = Cardinality(Owing(f)) - 1
    BY <2>3, FS_RemoveElement
  <2> QED
    BY <2>1, <2>2, <2>3, <2>4
<1>5. CASE f # g
  <2>1. Owing(f)' = Owing(f)
    BY <1>5 DEF Erase, Goto, Owing, TypeOK
  <2>2. Cardinality(Positions(clients', f)) = Cardinality(Positions(clients, f))
    BY <1>1, <1>3, <1>5, ErasedCount DEF TypeOK
  <2> QED
    BY <1>1, <2>1, <2>2 DEF Counted
<1> QED
  BY <1>4, <1>5

(* Every step keeps the accounting. *)
LEMMA StepCounted ==
  ASSUME IInv, Counted, [Next]_vars
  PROVE  Counted'
<1> USE DEF IInv, serverVars, acceptVars
<1>1. CASE Register
  BY <1>1, CountedRegister
<1>2. ASSUME NEW c \in Conns, HandleClient(c) PROVE Counted'
  <2> USE DEF HandlerPcs
  <2>1. CASE ReadHello(c)
    BY <2>1, CountedMoves DEF ReadHello
  <2>2. CASE RejectClose(c)
    BY <2>2, CountedMoves DEF RejectClose
  <2>3. CASE StoreType(c)
    <3> DEFINE k == Found(clients, handlerFd[c])
    <3>1. k = 0 \/ k \in 1..Len(clients)
      BY FirstEntry DEF Positions
    <3>2. clients' = IF k = 0 THEN clients ELSE [clients EXCEPT ![k].type = "Identified"]
      BY <2>3 DEF StoreType, Found
    <3> HIDE DEF k
    <3>3. /\ Len(clients') = Len(clients)
          /\ \A i \in 1..Len(clients) : clients'[i].fd = clients[i].fd
      BY <3>1, <3>2 DEF TypeOK, Entry
    <3>4. \A f : Positions(clients', f) = Positions(clients, f)
      BY <3>3 DEF Positions
    <3> QED
      BY <2>3, <3>4, CountedMoves DEF StoreType
  <2>4. CASE SendHelloAck(c)
    BY <2>4, CountedMoves DEF SendHelloAck
  <2>5. CASE SendSchemaToPeer(c)
    BY <2>5, CountedMoves DEF SendSchemaToPeer
  <2>12. CASE SendRest(c)
    BY <2>12, CountedMoves DEF SendRest
  <2>6. CASE ReadAck(c)
    BY <2>6, CountedMoves DEF ReadAck
  <2>7. CASE LoopExit(c)
    BY <2>7, CountedMoves DEF LoopExit
  <2>8. CASE LoopPing(c)
    BY <2>8, CountedMoves DEF LoopPing
  <2>9. CASE LoopBye(c)
    BY <2>9, CountedMoves DEF LoopBye
  <2>10. CASE CloseFd(c)
    BY <2>10, CountedMoves DEF CloseFd
  <2>11. CASE Erase(c)
    BY <2>11, CountedErase
  <2> QED
    BY <1>2, <2>1, <2>2, <2>3, <2>4, <2>5, <2>6, <2>7, <2>8, <2>9, <2>10, <2>11, <2>12
    DEF HandleClient
<1>3. CASE AcceptCheck \/ AcceptNothing \/ Accept
  BY <1>3, CountedElsewhere DEF AcceptCheck, AcceptNothing, Accept, Listening
<1>4. CASE Stop
  BY <1>4, CountedElsewhere DEF Stop, StopRest, StopBegin, StopLock, StopTell, StopUnlock,
     StopJoin, StopClose, Listening
<1>5. CASE ForeignOpen \/ ForeignClose
  BY <1>5, CountedElsewhere DEF ForeignOpen, ForeignClose, Listening
<1>6. ASSUME NEW c \in Conns, Client(c) PROVE Counted'
  BY <1>6, CountedElsewhere DEF Client, ClientConnect, ClientHello, ClientAck, ClientPing,
     ClientBye, ClientRead, ClientClose, ClientSend, Listening
<1>7. CASE UNCHANGED vars
  BY <1>7, CountedElsewhere DEF vars, Listening
<1> QED
  BY <1>1, <1>2, <1>3, <1>4, <1>5, <1>6, <1>7 DEF Next, AcceptLoop

(* Nothing is registered, held or owed at the start. *)
LEMMA InitIInv == Init => IInv /\ Counted
<1> SUFFICES ASSUME Init PROVE IInv /\ Counted
  OBVIOUS
<1>1. IInv
  BY InitTyped DEF Init, IInv, OwnDescriptor, Holding, Accepting, Joined
<1>2. ASSUME NEW f \in Fds PROVE Owing(f) = {} /\ Positions(clients, f) = {}
  BY DEF Init, Owing, Positions
<1> QED
  BY <1>1, <1>2, FS_EmptySet DEF Counted

(* Erasing the first entry with the number takes the handler's own or one  *)
(* just like it: the registry always holds one entry per handler that owes *)
(* an erase, however often numbers are reused.                             *)
THEOREM RegistryCounts == Spec => []RegistryAccounting
<1>1. IInv /\ Counted /\ [Next]_vars => (IInv /\ Counted)'
  BY StepTyped, StepOwns, StepCounted DEF IInv
<1>2. IInv /\ Counted => RegistryAccounting
  BY CountedIsAccounting DEF IInv
<1> QED
  BY InitIInv, <1>1, <1>2, PTL DEF Spec

-----------------------------------------------------------------------------
(* A descriptor of a connection is held by its handler, or just accepted.  *)
Known == Listening => \A f \in Fds : owner[f] \in Conns =>
           \/ handlerPc[owner[f]] \in Holding /\ handlerFd[owner[f]] = f
           \/ acceptPc = "register" /\ acceptFd = f

KInv == IInv /\ Counted /\ Known /\ NothingLeftOpen

(* A step that leaves the descriptors and the registry alone.              *)
LEMMA KnownElsewhere ==
  ASSUME KInv, UNCHANGED <<stopPc, acceptVars, owner, handlerVars, clients>>
  PROVE  Known' /\ NothingLeftOpen'
  BY DEF KInv, Known, NothingLeftOpen, Listening, acceptVars, handlerVars

(* A step of a handler: it keeps its descriptor or closes it. *)
LEMMA KnownMoves ==
  ASSUME KInv, NEW c \in Conns, NEW from \in HandlerPcs \ {"none"}, NEW to \in HandlerPcs,
         Goto(c, from, to), clients = <<>> => clients' = <<>>,
         \/ owner' = owner /\ (from \in Holding => to \in Holding)
         \/ owner' = [owner EXCEPT ![handlerFd[c]] = None]
  PROVE  Known' /\ NothingLeftOpen'
<1> USE DEF KInv, IInv, TypeOK, Goto, acceptVars
<1>1. ASSUME Listening', NEW f \in Fds, owner'[f] \in Conns
      PROVE  \/ handlerPc'[owner'[f]] \in Holding /\ handlerFd'[owner'[f]] = f
             \/ acceptPc' = "register" /\ acceptFd' = f
  <2>1. Listening /\ owner[f] = owner'[f]
    BY <1>1 DEF Listening
  <2>2. CASE owner[f] # c
    BY <1>1, <2>1, <2>2 DEF Known
  <2>3. CASE owner[f] = c
    BY <1>1, <2>1, <2>3 DEF Known
  <2> QED
    BY <2>2, <2>3
<1>2. Known'
  BY <1>1 DEF Known
<1>3. NothingLeftOpen'
  BY DEF NothingLeftOpen, Listening
<1> QED
  BY <1>2, <1>3

(* Stop() closes what the registry lists, and by then it lists every        *)
(* descriptor of a connection: its handler has not erased anything yet.     *)
LEMMA KnownClose ==
  ASSUME KInv, StopClose
  PROVE  Known' /\ NothingLeftOpen'
<1> USE DEF KInv, IInv
<1>1. Listening /\ ~Listening' /\ acceptPc = "exited"
  BY DEF StopClose, Listening, Joined
<1>2. ASSUME NEW f \in Fds, owner[f] \in Conns PROVE Listed(f) # {}
  <2>1. owner[f] \in Owing(f)
    BY <1>1, <1>2 DEF Known, Owing, Holding
  <2>2. Positions(clients, f) # {}
    BY <1>1, <2>1, FS_EmptySet DEF Counted
  <2> QED
    BY <2>2 DEF Listed, Positions, TypeOK
<1> QED
  BY <1>1, <1>2 DEF StopClose, Known, NothingLeftOpen, TypeOK

(* Every step keeps track of the open descriptors. *)
LEMMA StepKnown ==
  ASSUME KInv, [Next]_vars
  PROVE  Known' /\ NothingLeftOpen'
<1> USE DEF serverVars, acceptVars, handlerVars
<1> DEFINE Goal == Known' /\ NothingLeftOpen'
<1>1. CASE AcceptCheck \/ AcceptNothing
  BY <1>1 DEF AcceptCheck, AcceptNothing, KInv, Known, NothingLeftOpen, Listening
<1>2. CASE Accept
  BY <1>2 DEF Accept, Backlog, Accepted, FreeFds, KInv, IInv, TypeOK, Joined,
     Known, NothingLeftOpen, Listening
<1>3. CASE Register
  BY <1>3 DEF Register, KInv, IInv, TypeOK, Joined, Accepting, Known, NothingLeftOpen,
     Listening, Holding
<1>4. ASSUME NEW c \in Conns, HandleClient(c) PROVE Goal
  <2> USE DEF HandlerPcs, Holding
  <2>1. CASE ReadHello(c)
    BY <2>1, KnownMoves DEF ReadHello
  <2>2. CASE RejectClose(c)
    BY <2>2, KnownMoves DEF RejectClose
  <2>3. CASE StoreType(c)
    <3>1. clients = <<>> => clients' = <<>>
      BY <2>3 DEF StoreType
    <3> QED
      BY <2>3, <3>1, KnownMoves DEF StoreType
  <2>4. CASE SendHelloAck(c)
    BY <2>4, KnownMoves DEF SendHelloAck
  <2>5. CASE SendSchemaToPeer(c)
    BY <2>5, KnownMoves DEF SendSchemaToPeer
  <2>12. CASE SendRest(c)
    BY <2>12, KnownMoves DEF SendRest
  <2>6. CASE ReadAck(c)
    BY <2>6, KnownMoves DEF ReadAck
  <2>7. CASE LoopExit(c)
    BY <2>7, KnownMoves DEF LoopExit
  <2>8. CASE LoopPing(c)
    BY <2>8, KnownMoves DEF LoopPing
  <2>9. CASE LoopBye(c)
    BY <2>9, KnownMoves DEF LoopBye
  <2>10. CASE CloseFd(c)
    BY <2>10, KnownMoves DEF CloseFd
  <2>11. CASE Erase(c)
    <3>1. clients = <<>> => clients' = <<>>
      BY <2>11 DEF Erase, RemoveFirstMatch
    <3> QED
      BY <2>11, <3>1, KnownMoves DEF Erase
  <2> QED
    BY <1>4, <2>1, <2>2, <2>3, <2>4, <2>5, <2>6, <2>7, <2>8, <2>9, <2>10, <2>11, <2>12
    DEF HandleClient
<1>5. CASE StopBegin \/ StopLock \/ StopTell \/ StopUnlock \/ StopJoin
  BY <1>5 DEF StopBegin, StopLock, StopTell, StopUnlock, StopJoin, KInv, Known, NothingLeftOpen, Listening
<1>6. CASE StopClose
  BY <1>6, KnownClose
<1>7. CASE ForeignOpen \/ ForeignClose
  BY <1>7 DEF ForeignOpen, ForeignClose, FreeFds, KInv, IInv, TypeOK, Known,
     NothingLeftOpen, Listening
<1>8. ASSUME NEW c \in Conns, Client(c) PROVE Goal
  BY <1>8, KnownElsewhere DEF Client, ClientConnect, ClientHello, ClientAck, ClientPing,
     ClientBye, ClientRead, ClientClose, ClientSend
<1>9. CASE UNCHANGED vars
  BY <1>9, KnownElsewhere DEF vars
<1> QED
  BY <1>1, <1>2, <1>3, <1>4, <1>5, <1>6, <1>7, <1>8, <1>9
  DEF Next, AcceptLoop, Stop, StopRest

(* Stop() leaves no descriptor of a connection open: each is in the        *)
(* registry by then, under a number its own handler was given.             *)
THEOREM StopLeavesNothingOpen == Spec => []NothingLeftOpen
<1>1. Init => KInv
  BY InitIInv DEF Init, KInv, Known, NothingLeftOpen, Listening
<1>2. KInv /\ [Next]_vars => KInv'
  BY StepTyped, StepOwns, StepCounted, StepKnown DEF KInv, IInv
<1>3. KInv => NothingLeftOpen
  BY DEF KInv
<1> QED
  BY <1>1, <1>2, <1>3, PTL DEF Spec

-----------------------------------------------------------------------------
(* Where a handler is tells how much its client has been sent, as long as  *)
(* only handlers write and no write has killed the process.                *)

Nth(i) == CASE i = 1 -> "HelloAck" [] i = 2 -> "Schema" [] OTHER -> "Pong"

Early == {"none", "hello", "reject", "rejected", "store", "helloAck"}

Said(c) ==
  /\ \A i \in 1 .. Len(outbox[c]) : outbox[c][i] = Nth(i)
  /\ alive => /\ handlerPc[c] \in Early => outbox[c] = << >>
              /\ handlerPc[c] \in {"schema", "rest"} => Len(outbox[c]) = 1
              /\ handlerPc[c] \in {"waitAck", "loop"} => Len(outbox[c]) >= 2

Unbroadcast == stopPc \in {"serving", "notify"}
SaidInOrder == Unbroadcast => \A c \in Conns : Said(c)

(* A handler writes to its own connection: one more message, the next one, *)
(* unless the client is gone and the write ends the process.               *)
LEMMA WriteSays ==
  ASSUME IInv, SaidInOrder, Unbroadcast,
         NEW c \in Conns, NEW from \in Holding, NEW to, Goto(c, from, to),
         NEW msg \in FromServer, Write(handlerFd[c], msg),
         msg = Nth(Len(outbox[c]) + 1),
         to \notin Early,
         to \notin {"schema", "rest"} \/ Len(outbox[c]) = 0,
         to \in {"waitAck", "loop"} => Len(outbox[c]) >= 1
  PROVE  SaidInOrder'
<1> USE DEF IInv, TypeOK
<1>1. owner[handlerFd[c]] = c
  BY DEF OwnDescriptor, Listening, Unbroadcast, Goto
<1>2. Unbroadcast'
  BY DEF Unbroadcast, Goto
<1>3. ASSUME NEW d \in Conns, d # c PROVE Said(d)'
  <2>1. outbox'[d] = outbox[d] /\ handlerPc'[d] = handlerPc[d] /\ alive
    BY <1>1, <1>3 DEF Write, Goto, wireVars
  <2> QED
    BY <2>1 DEF Said, SaidInOrder, Nth
<1>4. Said(c)'
  <2>1. outbox[c] \in Seq(FromServer) /\ \A i \in 1 .. Len(outbox[c]) : outbox[c][i] = Nth(i)
    BY DEF SaidInOrder, Said
  <2>2. handlerPc'[c] = to
    BY DEF Goto
  <2>3. CASE peer[c] = "closed"
    <3>1. ~alive' /\ outbox' = outbox
      BY <1>1, <2>3 DEF Write, wireVars
    <3> QED
      BY <2>1, <3>1 DEF Said, Nth
  <2>4. CASE peer[c] # "closed"
    <3>1. outbox'[c] = Append(outbox[c], msg)
      BY <1>1, <2>4 DEF Write
    <3>2. /\ Len(outbox'[c]) = Len(outbox[c]) + 1
          /\ \A i \in 1 .. Len(outbox[c]) : outbox'[c][i] = outbox[c][i]
          /\ outbox'[c][Len(outbox[c]) + 1] = msg
      BY <2>1, <3>1, AppendProperties
    <3>3. \A i \in 1 .. Len(outbox'[c]) : outbox'[c][i] = Nth(i)
      <4> SUFFICES ASSUME NEW i \in 1 .. Len(outbox'[c]) PROVE outbox'[c][i] = Nth(i)
        OBVIOUS
      <4>1. i \in 1 .. Len(outbox[c]) \/ i = Len(outbox[c]) + 1
        BY <2>1, <3>2
      <4> QED
        BY <2>1, <3>2, <4>1
    <3>4. to \in {"schema", "rest"} => Len(outbox'[c]) = 1
      BY <3>2
    <3>5. to \in {"waitAck", "loop"} => Len(outbox'[c]) >= 2
      BY <2>1, <3>2
    <3> QED
      BY <2>2, <3>3, <3>4, <3>5 DEF Said, Nth
  <2> QED
    BY <2>3, <2>4
<1> QED
  BY <1>2, <1>3, <1>4 DEF SaidInOrder

(* A step that writes nothing and moves a handler no further than what it  *)
(* has said.                                                               *)
LEMMA SaysNothing ==
  ASSUME IInv, SaidInOrder, NEW c \in Conns, NEW from, NEW to, Goto(c, from, to),
         UNCHANGED outbox,
         to \in Early => from \in Early,
         to \in {"schema", "rest"} => from \in {"schema", "rest"},
         to \in {"waitAck", "loop"} => from \in {"waitAck", "loop"}
  PROVE  SaidInOrder'
<1>1. handlerPc[c] = from /\ alive /\ Unbroadcast' = Unbroadcast
  BY DEF Goto, Unbroadcast
<1>2. \A d \in Conns : handlerPc'[d] = IF d = c THEN to ELSE handlerPc[d]
  BY DEF IInv, TypeOK, Goto
<1>3. ASSUME Unbroadcast, NEW d \in Conns PROVE Said(d)'
  BY <1>1, <1>2, <1>3 DEF Said, SaidInOrder, Nth
<1> QED
  BY <1>1, <1>3 DEF SaidInOrder

(* A step that moves no handler and writes nothing. *)
LEMMA SaidElsewhere ==
  ASSUME SaidInOrder, UNCHANGED <<alive, handlerPc, outbox>>, Unbroadcast' => Unbroadcast
  PROVE  SaidInOrder'
  BY DEF SaidInOrder, Said, Nth

(* Every step keeps the order of the handshake. *)
LEMMA StepSaid ==
  ASSUME IInv, SaidInOrder, [Next]_vars
  PROVE  SaidInOrder'
<1> USE DEF serverVars, acceptVars, handlerVars, wireVars
<1>1. CASE AcceptCheck \/ AcceptNothing \/ Accept
  BY <1>1, SaidElsewhere DEF AcceptCheck, AcceptNothing, Accept, Unbroadcast
<1>2. CASE Register
  <2> DEFINE c == owner[acceptFd]
  <2>1. c \in Conns /\ handlerPc[c] = "none" /\ handlerPc' = [handlerPc EXCEPT ![c] = "hello"]
    BY <1>2 DEF Register, IInv, Accepting
  <2>2. UNCHANGED <<alive, outbox, stopPc>>
    BY <1>2 DEF Register
  <2> HIDE DEF c
  <2>3. ASSUME Unbroadcast, NEW d \in Conns PROVE Said(d)'
    <3>1. handlerPc'[d] = IF d = c THEN "hello" ELSE handlerPc[d]
      BY <2>1 DEF IInv, TypeOK
    <3> QED
      BY <2>1, <2>2, <2>3, <3>1 DEF Said, SaidInOrder, Nth, Early
  <2> QED
    BY <2>2, <2>3 DEF SaidInOrder, Unbroadcast
<1>3. ASSUME NEW c \in Conns, HandleClient(c) PROVE SaidInOrder'
  <2>0. stopPc' = stopPc /\ alive
    BY <1>3 DEF HandleClient, ReadHello, RejectClose, StoreType, SendHelloAck, SendSchemaToPeer,
       SendRest, ReadAck, LoopExit, LoopPing, LoopBye, CloseFd, Erase, Goto
  <2> SUFFICES ASSUME Unbroadcast PROVE SaidInOrder'
    BY <2>0 DEF SaidInOrder, Unbroadcast
  <2>1. CASE ReadHello(c)
    BY <2>1, SaysNothing DEF ReadHello, Early
  <2>2. CASE RejectClose(c)
    BY <2>2, SaysNothing DEF RejectClose, Early
  <2>3. CASE StoreType(c)
    BY <2>3, SaysNothing DEF StoreType, Early
  <2>4. CASE SendHelloAck(c)
    <3>1. Len(outbox[c]) = 0
      BY <2>0, <2>4 DEF SendHelloAck, Goto, SaidInOrder, Said, Early
    <3> QED
      BY <2>4, <3>1, WriteSays DEF SendHelloAck, Nth, Early, Holding, FromServer
  <2>5. CASE SendSchemaToPeer(c)
    <3>1. Len(outbox[c]) = 1
      BY <2>0, <2>5 DEF SendSchemaToPeer, Goto, SaidInOrder, Said
    <3>5. CASE Goto(c, "schema", "rest") /\ UNCHANGED outbox
      BY <3>5, SaysNothing DEF Early
    <3>6. CASE Goto(c, "schema", "waitAck") /\ Write(handlerFd[c], "Schema")
      <4>1. Nth(Len(outbox[c]) + 1) = "Schema" /\ Len(outbox[c]) >= 1
        BY <3>1 DEF Nth
      <4>2. "Schema" \in FromServer /\ "schema" \in Holding /\ "waitAck" \notin Early
        BY DEF FromServer, Holding, Early
      <4> QED
        BY <3>6, <4>1, <4>2, WriteSays
    <3> QED
      BY <2>5, <3>5, <3>6 DEF SendSchemaToPeer
  <2>12. CASE SendRest(c)
    <3>1. Len(outbox[c]) = 1
      BY <2>0, <2>12 DEF SendRest, Goto, SaidInOrder, Said
    <3>2. Nth(Len(outbox[c]) + 1) = "Schema"
      BY <3>1 DEF Nth
    <3>3. "Schema" \in FromServer /\ "rest" \in Holding /\ "waitAck" \notin Early
      BY DEF FromServer, Holding, Early
    <3> QED
      <4>1. Goto(c, "rest", "waitAck") /\ Write(handlerFd[c], "Schema")
        BY <2>12 DEF SendRest
      <4>2. Len(outbox[c]) >= 1
        BY <3>1
      <4> QED
        BY <3>2, <3>3, <4>1, <4>2, WriteSays
  <2>6. CASE ReadAck(c)
    BY <2>6, SaysNothing DEF ReadAck, Early
  <2>7. CASE LoopExit(c)
    BY <2>7, SaysNothing DEF LoopExit, Early
  <2>8. CASE LoopPing(c)
    <3>1. Len(outbox[c]) >= 2 /\ Len(outbox[c]) \in Nat
      BY <2>0, <2>8 DEF LoopPing, Goto, SaidInOrder, Said, IInv, TypeOK
    <3>2. Nth(Len(outbox[c]) + 1) = "Pong"
      BY <3>1 DEF Nth
    <3>3. "Pong" \in FromServer /\ "loop" \in Holding /\ "loop" \notin Early
      BY DEF FromServer, Holding, Early
    <3> QED
      BY <2>8, <3>1, <3>2, <3>3, WriteSays DEF LoopPing
  <2>9. CASE LoopBye(c)
    BY <2>9, SaysNothing DEF LoopBye, Early
  <2>10. CASE CloseFd(c)
    BY <2>10, SaysNothing DEF CloseFd, Early
  <2>11. CASE Erase(c)
    BY <2>11, SaysNothing DEF Erase, Early
  <2> QED
    BY <1>3, <2>1, <2>2, <2>3, <2>4, <2>5, <2>6, <2>7, <2>8, <2>9, <2>10, <2>11, <2>12
    DEF HandleClient
<1>4. CASE StopBegin
  BY <1>4, SaidElsewhere DEF StopBegin, Unbroadcast
<1>5. CASE StopLock \/ StopTell \/ StopUnlock \/ StopJoin \/ StopClose
  BY <1>5 DEF StopLock, StopTell, StopUnlock, StopJoin, StopClose, SaidInOrder, Unbroadcast
<1>6. CASE ForeignOpen \/ ForeignClose
  BY <1>6, SaidElsewhere DEF ForeignOpen, ForeignClose, Unbroadcast
<1>7. ASSUME NEW c \in Conns, Client(c) PROVE SaidInOrder'
  BY <1>7, SaidElsewhere DEF Client, ClientConnect, ClientHello, ClientAck, ClientPing,
     ClientBye, ClientRead, ClientClose, ClientSend, Unbroadcast
<1>8. CASE UNCHANGED vars
  BY <1>8, SaidElsewhere DEF vars, Unbroadcast
<1> QED
  BY <1>1, <1>2, <1>3, <1>4, <1>5, <1>6, <1>7, <1>8
  DEF Next, AcceptLoop, Stop, StopRest

(* Until Stop() broadcasts, each client is sent HELLO_ACK, then the        *)
(* schema, then only PONGs, whatever numbers the descriptors have and      *)
(* however their clients come and go.                                      *)
THEOREM HandshakeInOrder == Spec => []HandshakeOrder
<1>1. ASSUME Init PROVE SaidInOrder
  BY <1>1 DEF Init, SaidInOrder, Said, Early
<1>2. IInv /\ SaidInOrder /\ [Next]_vars => (IInv /\ SaidInOrder)'
  BY StepTyped, StepOwns, StepSaid DEF IInv
<1>3. IInv /\ SaidInOrder => HandshakeOrder
  <2>1. ASSUME IInv, NEW c \in Conns PROVE DOMAIN outbox[c] = 1 .. Len(outbox[c])
    BY <2>1 DEF IInv, TypeOK
  <2> QED
    BY <2>1 DEF SaidInOrder, Said, Nth, Unbroadcast, HandshakeOrder
<1> QED
  BY <1>1, <1>2, <1>3, InitIInv, PTL DEF Spec

=============================================================================
