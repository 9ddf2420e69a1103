------------------------------ MODULE IpcServer ------------------------------
(***************************************************************************)
(* The POSIX half of IPCServer: the accept thread, one detached HandleClient *)
(* thread per connection, the registry clients_, the kernel's descriptor   *)
(* table under them, and Stop() called by the main thread.                 *)
(*                                                                         *)
(* Descriptor numbers matter here: HandleClient closes its descriptor      *)
(* BEFORE it erases the registry entry, so the kernel may hand the number  *)
(* to the next connection while the old entry still names it.  The rest of *)
(* the process opens and closes descriptors too (Foreign).                 *)
(*                                                                         *)
(* A step is one system call or one critical section of clientsMutex_; the *)
(* broadcast of Stop() is many writes in one section.  The sockets block    *)
(* and have no timeouts: a write waits while the peer's buffer has no room   *)
(* (full), which the schema alone can fill, for as long as nobody reads.    *)
(* Writing to a connection whose client is gone raises SIGPIPE, which the  *)
(* program neither ignores nor masks: the process dies (alive = FALSE).    *)
(***************************************************************************)
EXTENDS Naturals, FiniteSets, SequencesExt

CONSTANTS Conns,      \* connections clients may open, one value per connect(2)
          Fds,        \* descriptor numbers the process can be given
          None,       \* owner of a free descriptor number
          Foreign,    \* owner of a descriptor opened elsewhere in the process
          Keepers,    \* connections whose client also sends PING and BYE
          MaxPings    \* BOUND: PINGs one client sends

ASSUME ConnsAssumption == None \notin Conns /\ Foreign \notin Conns /\ None # Foreign
ASSUME KeepersAssumption == Keepers \subseteq Conns
ASSUME FdsAssumption == Fds # {}
ASSUME MaxPingsAssumption == MaxPings \in Nat

VARIABLES
  alive,       \* the process has not been killed by SIGPIPE
  running,     \* running_
  stopPc,      \* where the main thread is in Stop()
  clients,     \* clients_
  told,        \* how many of them Stop() has written Shutdown to
  acceptPc,    \* where the accept thread is in AcceptLoop()
  acceptFd,    \* clientFd of AcceptLoop
  owner,       \* the descriptor table: whom each number refers to
  handlerPc,   \* where each connection's HandleClient thread is
  handlerFd,   \* clientFd of that thread
  peer,        \* how far the client at the other end is
  pings,       \* PINGs the client has sent
  inbox,       \* messages sent by the client and not read yet
  outbox,      \* every message the server wrote to the connection
  full         \* the connection's buffer has no room for the next write

serverVars  == <<running, stopPc, clients, told>>
acceptVars  == <<acceptPc, acceptFd>>
handlerVars == <<handlerPc, handlerFd>>
peerVars    == <<peer, pings, inbox>>
wireVars    == <<outbox, full>>
vars == <<alive, serverVars, acceptVars, owner, handlerVars, peerVars, wireVars>>

(* HELLO carries the client type, Avalonia or MCP: an entry has it or not. *)
ClientTypes == {"Unknown", "Identified"}
Entry       == [fd : Fds, type : ClientTypes]
FromClient  == {"Hello", "Ack", "Ping", "Bye"}
FromServer  == {"HelloAck", "Schema", "Pong", "Shutdown"}

HandlerPcs == {"none", "hello", "reject", "rejected", "store", "helloAck",
               "schema", "rest", "waitAck", "loop", "close", "erase", "done"}
(* the handler still holds the descriptor it was given *)
Holding == {"hello", "reject", "store", "helloAck", "schema", "rest",
            "waitAck", "loop", "close"}

Listening   == stopPc # "stopped"
Unlocked    == stopPc # "telling"     \* clientsMutex_ is free between steps
Accepted(c) == handlerPc[c] # "none" \/ \E f \in Fds : owner[f] = c
Backlog     == {c \in Conns : peer[c] # "none" /\ ~Accepted(c)}
FreeFds     == {f \in Fds : owner[f] = None}
Listed(f)   == {i \in DOMAIN clients : clients[i].fd = f}

Init ==
  /\ alive = TRUE
  /\ running = TRUE
  /\ stopPc = "serving"
  /\ clients = <<>>
  /\ told = 0
  /\ acceptPc = "check"
  /\ acceptFd = (CHOOSE f \in Fds : TRUE)
  /\ owner = [f \in Fds |-> None]
  /\ handlerPc = [c \in Conns |-> "none"]
  /\ handlerFd = [c \in Conns |-> acceptFd]
  /\ peer = [c \in Conns |-> "none"]
  /\ pings = [c \in Conns |-> 0]
  /\ inbox = [c \in Conns |-> <<>>]
  /\ outbox = [c \in Conns |-> <<>>]
  /\ full = [c \in Conns |-> FALSE]

-----------------------------------------------------------------------------
(* System calls. *)

(* write(fd, msg): it waits for room, and the schema or one more PONG may   *)
(* take the last of it.  EBADF is ignored by every caller.                  *)
Write(f, msg) ==
  \/ LET c == owner[f] IN
     /\ c \in Conns /\ peer[c] # "closed" /\ ~full[c]
     /\ outbox' = [outbox EXCEPT ![c] = Append(@, msg)]
     /\ \/ UNCHANGED full
        \/ msg \in {"Schema", "Pong"} /\ full' = [full EXCEPT ![c] = TRUE]
     /\ UNCHANGED alive
  \/ /\ owner[f] \in Conns => peer[owner[f]] = "closed"
     /\ alive' = (owner[f] \notin Conns)
     /\ UNCHANGED wireVars

(* read(fd, msg, 4) returned a message *)
Read(f, msg) ==
  /\ owner[f] \in Conns
  /\ inbox[owner[f]] # <<>>
  /\ msg = Head(inbox[owner[f]])
  /\ inbox' = [inbox EXCEPT ![owner[f]] = Tail(@)]

(* read(fd, msg, 4) returned 0 or -1: the peer is gone or fd is not ours *)
ReadFails(f) ==
  \/ owner[f] \notin Conns
  \/ owner[f] \in Conns /\ inbox[owner[f]] = <<>> /\ peer[owner[f]] = "closed"

-----------------------------------------------------------------------------
(* AcceptLoop *)

(* mutant: the loop condition is never tested *)
AcceptCheckForever ==
  /\ alive /\ acceptPc = "check"
  /\ acceptPc' = "poll"
  /\ UNCHANGED <<alive, serverVars, acceptFd, owner, handlerVars, peerVars, wireVars>>

AcceptCheck ==
  /\ alive /\ acceptPc = "check"
  /\ acceptPc' = IF running THEN "poll" ELSE "exited"
  /\ UNCHANGED <<alive, serverVars, acceptFd, owner, handlerVars, peerVars, wireVars>>

(* mutant: accept's -1 is not tested *)
AcceptNothingRegisters ==
  /\ alive /\ acceptPc = "poll"
  /\ Backlog = {} \/ FreeFds = {}
  /\ acceptPc' = "register" /\ acceptFd' = None
  /\ UNCHANGED <<alive, serverVars, owner, handlerVars, peerVars, wireVars>>

(* poll timed out, or accept failed because the table is full *)
AcceptNothing ==
  /\ alive /\ acceptPc = "poll"
  /\ Backlog = {} \/ FreeFds = {}
  /\ acceptPc' = "check"
  /\ UNCHANGED <<alive, serverVars, acceptFd, owner, handlerVars, peerVars, wireVars>>

Accept ==
  /\ alive /\ acceptPc = "poll"
  /\ \E c \in Backlog, f \in FreeFds :
       /\ owner' = [owner EXCEPT ![f] = c]
       /\ acceptFd' = f
  /\ acceptPc' = "register"
  /\ UNCHANGED <<alive, serverVars, handlerVars, peerVars, wireVars>>

(* push_back under the lock, then the detached thread *)
Register ==
  /\ alive /\ acceptPc = "register" /\ Unlocked
  /\ clients' = Append(clients, [fd |-> acceptFd, type |-> "Unknown"])
  /\ handlerPc' = [handlerPc EXCEPT ![owner[acceptFd]] = "hello"]
  /\ handlerFd' = [handlerFd EXCEPT ![owner[acceptFd]] = acceptFd]
  /\ acceptPc' = "check"
  /\ UNCHANGED <<alive, running, stopPc, told, acceptFd, owner, peerVars, wireVars>>

-----------------------------------------------------------------------------
(* HandleClient(c) *)

Goto(c, from, to) ==
  /\ alive /\ handlerPc[c] = from
  /\ handlerPc' = [handlerPc EXCEPT ![c] = to]
  /\ UNCHANGED <<handlerFd, running, stopPc, told, acceptVars>>

(* HELLO and its type byte *)
ReadHello(c) ==
  \/ /\ Goto(c, "hello", "store")
     /\ Read(handlerFd[c], "Hello")
     /\ UNCHANGED <<alive, clients, owner, peer, pings, wireVars>>
  \/ /\ Goto(c, "hello", "reject")
     /\ ReadFails(handlerFd[c])
     /\ UNCHANGED <<alive, clients, owner, peerVars, wireVars>>

(* mutant: falls through to the common clean-up and closes again *)
RejectCloseTwice(c) ==
  /\ Goto(c, "reject", "close")
  /\ owner' = [owner EXCEPT ![handlerFd[c]] = None]
  /\ UNCHANGED <<alive, clients, peerVars, wireVars>>

(* invalid HELLO: close and return, the registry entry stays *)
RejectClose(c) ==
  /\ Goto(c, "reject", "rejected")
  /\ owner' = [owner EXCEPT ![handlerFd[c]] = None]
  /\ UNCHANGED <<alive, clients, peerVars, wireVars>>

(* the type goes to the FIRST entry with this descriptor number *)
StoreType(c) ==
  LET i == SelectInSeq(clients, LAMBDA e : e.fd = handlerFd[c]) IN
  /\ Unlocked
  /\ Goto(c, "store", "helloAck")
  /\ clients' = IF i = 0 THEN clients ELSE [clients EXCEPT ![i].type = "Identified"]
  /\ UNCHANGED <<alive, owner, peerVars, wireVars>>

(* mutant: the write is missing *)
SendNoHelloAck(c) ==
  /\ Goto(c, "helloAck", "schema")
  /\ UNCHANGED <<alive, clients, owner, peerVars, wireVars>>

SendHelloAck(c) ==
  /\ Goto(c, "helloAck", "schema")
  /\ Write(handlerFd[c], "HelloAck")
  /\ UNCHANGED <<clients, owner, peerVars>>

(* one write of some 15 KB: it is done at once, or it fills the buffer ... *)
SendSchemaToPeer(c) ==
  \/ /\ Goto(c, "schema", "waitAck")
     /\ Write(handlerFd[c], "Schema")
     /\ UNCHANGED <<clients, owner, peerVars>>
  \/ /\ Goto(c, "schema", "rest")
     /\ owner[handlerFd[c]] = c /\ peer[c] # "closed"
     /\ full' = [full EXCEPT ![c] = TRUE]
     /\ UNCHANGED <<alive, clients, owner, peerVars, outbox>>

(* ... and waits in write() until the client has read enough *)
SendRest(c) ==
  /\ Goto(c, "rest", "waitAck")
  /\ Write(handlerFd[c], "Schema")
  /\ UNCHANGED <<clients, owner, peerVars>>

ReadAck(c) ==
  /\ \/ Goto(c, "waitAck", "loop") /\ Read(handlerFd[c], "Ack")
     \/ Goto(c, "waitAck", "close") /\ Read(handlerFd[c], "Bye")
     \/ Goto(c, "waitAck", "close") /\ ReadFails(handlerFd[c]) /\ UNCHANGED inbox
  /\ UNCHANGED <<alive, clients, owner, peer, pings, wireVars>>

(* the while condition of the keep-alive loop *)
LoopExit(c) ==
  /\ ~running
  /\ Goto(c, "loop", "close")
  /\ UNCHANGED <<alive, clients, owner, peerVars, wireVars>>

LoopPing(c) ==
  /\ Goto(c, "loop", "loop")
  /\ Read(handlerFd[c], "Ping")
  /\ Write(handlerFd[c], "Pong")
  /\ UNCHANGED <<clients, owner, peer, pings>>

LoopBye(c) ==
  /\ Goto(c, "loop", "close")
  /\ \/ Read(handlerFd[c], "Bye")
     \/ ReadFails(handlerFd[c]) /\ UNCHANGED inbox
  /\ UNCHANGED <<alive, clients, owner, peer, pings, wireVars>>

CloseFd(c) ==
  /\ Goto(c, "close", "erase")
  /\ owner' = [owner EXCEPT ![handlerFd[c]] = None]
  /\ UNCHANGED <<alive, clients, peerVars, wireVars>>

(* mutant: remove_if, every entry with the number *)
EraseAll(c) ==
  /\ Unlocked
  /\ Goto(c, "erase", "done")
  /\ clients' = SelectSeq(clients, LAMBDA e : e.fd # handlerFd[c])
  /\ UNCHANGED <<alive, owner, peerVars, wireVars>>

(* find_if and erase under the lock: the FIRST entry with this number *)
Erase(c) ==
  /\ Unlocked
  /\ Goto(c, "erase", "done")
  /\ clients' = RemoveFirstMatch(clients, LAMBDA e : e.fd = handlerFd[c])
  /\ UNCHANGED <<alive, owner, peerVars, wireVars>>

HandleClient(c) ==
  \/ ReadHello(c) \/ RejectClose(c) \/ StoreType(c) \/ SendHelloAck(c)
  \/ SendSchemaToPeer(c) \/ SendRest(c) \/ ReadAck(c) \/ LoopExit(c)
  \/ LoopPing(c) \/ LoopBye(c) \/ CloseFd(c) \/ Erase(c)

-----------------------------------------------------------------------------
(* Stop(), on the main thread *)

StopBegin ==
  /\ alive /\ stopPc = "serving"
  /\ running' = FALSE
  /\ stopPc' = "notify"
  /\ UNCHANGED <<alive, clients, told, acceptVars, owner, handlerVars, peerVars, wireVars>>

(* the lock is held from here to StopUnlock *)
StopLock ==
  /\ alive /\ stopPc = "notify"
  /\ stopPc' = "telling"
  /\ UNCHANGED <<alive, running, clients, told, acceptVars, owner, handlerVars,
                 peerVars, wireVars>>

(* Shutdown to the next entry: a client that does not read holds it up *)
StopTell ==
  /\ alive /\ stopPc = "telling"
  /\ told < Len(clients)
  /\ Write(clients[told + 1].fd, "Shutdown")
  /\ told' = told + 1
  /\ UNCHANGED <<running, stopPc, clients, acceptVars, owner, handlerVars, peerVars>>

StopUnlock ==
  /\ alive /\ stopPc = "telling"
  /\ told = Len(clients)
  /\ stopPc' = "join" /\ told' = 0
  /\ UNCHANGED <<alive, running, clients, acceptVars, owner, handlerVars, peerVars, wireVars>>

(* mutant: the accept thread is not joined *)
StopNoJoin ==
  /\ alive /\ stopPc = "join"
  /\ stopPc' = "close"
  /\ UNCHANGED <<alive, running, clients, told, acceptVars, owner, handlerVars, peerVars, wireVars>>

StopJoin ==
  /\ alive /\ stopPc = "join"
  /\ acceptPc = "exited"
  /\ stopPc' = "close"
  /\ UNCHANGED <<alive, running, clients, told, acceptVars, owner, handlerVars, peerVars, wireVars>>

(* close every entry, clear the registry, close the listener and the shm *)
StopClose ==
  /\ alive /\ stopPc = "close"
  /\ owner' = [f \in Fds |-> IF Listed(f) # {} THEN None ELSE owner[f]]
  /\ clients' = <<>>
  /\ stopPc' = "stopped"
  /\ UNCHANGED <<alive, running, told, acceptVars, handlerVars, peerVars, wireVars>>

-----------------------------------------------------------------------------
(* The rest of the process opens and closes descriptors of its own. *)

ForeignOpen ==
  /\ alive
  /\ \E f \in FreeFds : owner' = [owner EXCEPT ![f] = Foreign]
  /\ UNCHANGED <<alive, serverVars, acceptVars, handlerVars, peerVars, wireVars>>

ForeignClose ==
  /\ alive
  /\ \E f \in Fds : owner[f] = Foreign /\ owner' = [owner EXCEPT ![f] = None]
  /\ UNCHANGED <<alive, serverVars, acceptVars, handlerVars, peerVars, wireVars>>

-----------------------------------------------------------------------------
(* The client at the other end of c, Avalonia or MCP, or one that dies.    *)
(* Both end by closing; the protocol also lets a client send PING and BYE.  *)

ClientSend(c, msg, from, to) ==
  /\ alive /\ peer[c] = from
  /\ peer' = [peer EXCEPT ![c] = to]
  /\ inbox' = [inbox EXCEPT ![c] = Append(@, msg)]
  /\ UNCHANGED <<alive, serverVars, acceptVars, owner, handlerVars, wireVars>>

ClientConnect(c) ==
  /\ alive /\ Listening
  /\ peer[c] = "none"
  /\ peer' = [peer EXCEPT ![c] = "connected"]
  /\ UNCHANGED <<alive, serverVars, acceptVars, owner, handlerVars, pings, inbox, wireVars>>

ClientHello(c) ==
  /\ ClientSend(c, "Hello", "connected", "greeted")
  /\ UNCHANGED pings

ClientAck(c) ==
  /\ Contains(outbox[c], "Schema") /\ ~full[c]
  /\ ClientSend(c, "Ack", "greeted", "acked")
  /\ UNCHANGED pings

ClientPing(c) ==
  /\ c \in Keepers /\ pings[c] < MaxPings
  /\ ClientSend(c, "Ping", "acked", "acked")
  /\ pings' = [pings EXCEPT ![c] = @ + 1]

(* BYE and close *)
ClientBye(c) ==
  /\ c \in Keepers
  /\ \/ ClientSend(c, "Bye", "acked", "closed")
     \/ Contains(outbox[c], "Schema") /\ ~full[c] /\ ClientSend(c, "Bye", "greeted", "closed")
  /\ UNCHANGED pings

(* what the server wrote is read, and its buffer has room again *)
ClientRead(c) ==
  /\ alive /\ peer[c] # "closed"
  /\ full[c]
  /\ full' = [full EXCEPT ![c] = FALSE]
  /\ UNCHANGED <<alive, serverVars, acceptVars, owner, handlerVars, peerVars, outbox>>

ClientClose(c) ==
  /\ alive /\ peer[c] \notin {"none", "closed"}
  /\ peer' = [peer EXCEPT ![c] = "closed"]
  /\ full' = [full EXCEPT ![c] = FALSE]
  /\ UNCHANGED <<alive, serverVars, acceptVars, owner, handlerVars, pings, inbox, outbox>>

Client(c) ==
  \/ ClientConnect(c) \/ ClientHello(c) \/ ClientAck(c)
  \/ ClientPing(c) \/ ClientBye(c) \/ ClientRead(c) \/ ClientClose(c)

-----------------------------------------------------------------------------
AcceptLoop == AcceptCheck \/ AcceptNothing \/ Accept \/ Register
StopRest   == StopLock \/ StopTell \/ StopUnlock \/ StopJoin \/ StopClose
Stop       == StopBegin \/ StopRest

Next ==
  \/ AcceptLoop
  \/ Stop
  \/ ForeignOpen \/ ForeignClose
  \/ \E c \in Conns : HandleClient(c) \/ Client(c)

(* poll() returns at least every 500 ms, so the accept thread never rests; *)
(* once Stop() has begun the main thread does nothing else.  Handlers may  *)
(* block in read() or write() for ever and clients owe nothing, not even to *)
(* read: neither is fair.                                                  *)
Fairness == WF_vars(AcceptLoop) /\ WF_vars(StopRest)

Spec == Init /\ [][Next]_vars /\ Fairness

-----------------------------------------------------------------------------
(* Every variable ranges over what the code can store in it. *)
TypeOK ==
  /\ alive \in BOOLEAN /\ running \in BOOLEAN
  /\ stopPc \in {"serving", "notify", "telling", "join", "close", "stopped"}
  /\ clients \in Seq(Entry)
  /\ told \in Nat
  /\ acceptPc \in {"check", "poll", "register", "exited"}
  /\ acceptFd \in Fds
  /\ owner \in [Fds -> Conns \cup {None, Foreign}]
  /\ handlerPc \in [Conns -> HandlerPcs]
  /\ handlerFd \in [Conns -> Fds]
  /\ peer \in [Conns -> {"none", "connected", "greeted", "acked", "closed"}]
  /\ pings \in [Conns -> 0..MaxPings]
  /\ inbox \in [Conns -> Seq(FromClient)]
  /\ outbox \in [Conns -> Seq(FromServer)]
  /\ full \in [Conns -> BOOLEAN]

(* Although a descriptor number is closed before its registry entry goes   *)
(* and may be reused at once, a handler that has not closed its descriptor *)
(* always reads, writes and closes ITS connection - until Stop() closes    *)
(* the descriptors under the handlers that still run.                      *)
OwnDescriptor ==
  Listening => \A c \in Conns : handlerPc[c] \in Holding => owner[handlerFd[c]] = c

(* Until Stop() broadcasts, a client is sent HELLO_ACK, then the schema,   *)
(* then only PONGs: nothing overtakes the handshake.                       *)
HandshakeOrder ==
  stopPc \in {"serving", "notify"} =>
    \A c \in Conns : \A i \in DOMAIN outbox[c] :
      outbox[c][i] = CASE i = 1 -> "HelloAck" [] i = 2 -> "Schema" [] OTHER -> "Pong"

(* The registry has, for each descriptor number, one entry per handler that *)
(* was given that number and has not erased an entry yet: erasing the FIRST *)
(* entry with the number never takes more or fewer than the handler's own,  *)
(* even when the number is shared.  Handlers that rejected a HELLO count    *)
(* for ever: they return without erasing.                                  *)
RegistryAccounting ==
  Listening =>
    \A f \in Fds : Cardinality(Listed(f)) =
      Cardinality({c \in Conns : /\ handlerPc[c] \notin {"none", "done"}
                                 /\ handlerFd[c] = f})

(* Once Stop() is over no descriptor of a connection is left open: those   *)
(* accepted after the broadcast, in mid-handshake or in mid-close included. *)
NothingLeftOpen ==
  ~Listening => /\ \A f \in Fds : owner[f] \notin Conns
                /\ clients = <<>>

(* Stop() returns, or SIGPIPE ends the process, or - from some moment on,   *)
(* for ever - it waits in write(), with the lock, for a client that does    *)
(* not read: that is the only thing that can hold it up.  Joining the       *)
(* accept thread never waits for a client.                                 *)
WaitsForReader ==
  /\ stopPc = "telling" /\ told < Len(clients)
  /\ LET c == owner[clients[told + 1].fd] IN c \in Conns /\ peer[c] # "closed" /\ full[c]
StopReturns ==
  \/ stopPc = "notify" ~> (stopPc = "stopped" \/ ~alive)
  \/ <>[]WaitsForReader
=============================================================================
