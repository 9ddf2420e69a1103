--------------------------- MODULE AvaloniaClient ---------------------------
(***************************************************************************)
(* The Avalonia client on macOS: the pipe task (IPCPipeClient), the        *)
(* mapping of the shared block that this task opens and closes             *)
(* (IPCMemoryReader), and the UI thread, which reads the block on a timer  *)
(* and handles what the pipe task posts (HardwareMonitorService, through   *)
(* IPCService).  The server is what IpcServer does for one connection; it  *)
(* may stop, crash and be started again, in another version too.           *)
(***************************************************************************)
EXTENDS Naturals, Sequences

CONSTANTS
  MaxConsecutiveErrors,  \* AppConstants.MaxConsecutiveErrors
  MaxServers,            \* bound: starts of the server
  MaxPosted              \* bound: notifications waiting for the UI thread

VARIABLES
  server,      \* "down", "starting", "up" (it listens), "stopping"
  life,        \* which start of the server this is
  match,       \* its schema has the version of the client
  named,       \* the life whose block has the name, 0 when none has
  handler,     \* HandleClient: "none", "queued", "reading", "acked", "sent"
  inbox,       \* messages on their way to the client
  greeted,     \* the client's HELLO is on its way
  at,          \* where the pipe task is
  conn,        \* the life its socket is connected to, 0 when it has none
  serverShutdown,
  mapped,      \* the life whose block is mapped, 0 when none is
  disposed,    \* IPCService is disposed and its token cancelled
  posted,      \* Dispatcher.UIThread's queue
  tick,        \* the timer: "idle", "reading", "overtaken" (the mapping
               \* went away during the reading)
  errors,      \* _consecutiveErrors
  isConnected, \* HardwareMonitorService.IsConnected
  shown,       \* MainWindowViewModel.IsConnected
  alive        \* the client's process

serverVars == <<server, life, match, named, handler>>
uiVars     == <<errors, isConnected, shown>>
vars == <<serverVars, inbox, greeted, at, conn, serverShutdown, mapped, disposed,
          posted, tick, uiVars, alive>>

PipeAt == {"loop", "connect", "hello", "helloAck", "schema", "open", "ready", "ack",
           "alive", "closeLost", "closeShutdown", "postLost", "postShutdown", "ended"}

Init ==
  /\ server = "down" /\ life = 0 /\ match = FALSE /\ named = 0
  /\ handler = "none" /\ inbox = <<>> /\ greeted = FALSE
  /\ at = "loop" /\ conn = 0 /\ serverShutdown = FALSE
  /\ mapped = 0 /\ disposed = FALSE /\ posted = <<>>
  /\ tick = "idle" /\ errors = 0 /\ isConnected = FALSE /\ shown = FALSE
  /\ alive = TRUE

-----------------------------------------------------------------------------
(* The server.                                                             *)

clientVars == <<at, conn, serverShutdown, mapped, disposed, posted, tick, uiVars, alive>>

\* The socket of a connection outlives neither its server nor Stop().
PeerClosed == ~(conn = life /\ server \in {"up", "stopping"})

\* Start() takes the name from the block of an earlier life ...
ServerUnlinks ==
  /\ server = "down" /\ life < MaxServers
  /\ server' = "starting" /\ life' = life + 1 /\ match' \in BOOLEAN
  /\ named' = 0 /\ handler' = "none"
  /\ UNCHANGED <<inbox, greeted, clientVars>>

\* ... gives it to a new one, and listens.
ServerListens ==
  /\ server = "starting" /\ server' = "up" /\ named' = life
  /\ UNCHANGED <<life, match, handler, inbox, greeted, clientVars>>

ServerAccepts ==
  /\ server = "up" /\ handler = "queued" /\ handler' = "reading"
  /\ UNCHANGED <<server, life, match, named, inbox, greeted, clientVars>>

\* HELLO is answered, then the schema follows without being asked for.
ServerGreets ==
  /\ server \in {"up", "stopping"} /\ conn = life
  /\ \/ handler = "reading" /\ greeted
        /\ handler' = "acked" /\ inbox' = Append(inbox, "HelloAck")
     \/ handler = "acked"
        /\ handler' = "sent" /\ inbox' = Append(inbox, "Schema")
  /\ UNCHANGED <<server, life, match, named, greeted, clientVars>>

\* Stop() tells every connection it knows; one whose handler has seen
\* running_ fall before is closed without a word.
ServerStops ==
  /\ server = "up" /\ server' = "stopping"
  /\ \/ conn = life /\ handler \in {"reading", "acked", "sent"}
        /\ inbox' = Append(inbox, "Shutdown")
     \/ UNCHANGED inbox
  /\ UNCHANGED <<life, match, named, handler, greeted, clientVars>>

ServerEnds ==
  /\ server = "stopping" /\ server' = "down" /\ named' = 0
  /\ UNCHANGED <<life, match, handler, inbox, greeted, clientVars>>

\* The block of a server that is killed keeps its name.
ServerCrashes ==
  /\ server # "down" /\ server' = "down"
  /\ UNCHANGED <<life, match, named, handler, inbox, greeted, clientVars>>

-----------------------------------------------------------------------------
(* The pipe task.  Every await of it ends when the token is cancelled.     *)

pipeKeeps == <<serverVars, disposed, uiVars, alive>>

Post(note) == posted' = Append(posted, note)

\* munmap and mmap do not ask whether the timer is reading.
Remap(block) ==
  /\ mapped' = block
  /\ tick' = IF tick = "reading" /\ mapped # 0 THEN "overtaken" ELSE tick

\* The socket is closed on every way out of ConnectUnixAsync, which
\* swallows what was thrown; StartAsync looks at its flags again.
Drop ==
  /\ at' = "loop" /\ conn' = 0 /\ inbox' = <<>> /\ greeted' = FALSE

\* Mutant: a cancelled client connects once more.
LoopTestIgnoresToken ==
  /\ alive /\ at = "loop"
  /\ at' = IF serverShutdown THEN "ended" ELSE "connect"
  /\ UNCHANGED <<pipeKeeps, inbox, greeted, conn, serverShutdown, mapped, posted, tick>>

LoopTest ==
  /\ alive /\ at = "loop"
  /\ at' = IF disposed \/ serverShutdown THEN "ended" ELSE "connect"
  /\ UNCHANGED <<pipeKeeps, inbox, greeted, conn, serverShutdown, mapped, posted, tick>>

\* A connection is made as soon as the server listens; being accepted is
\* another matter.
Connect ==
  /\ alive /\ at = "connect" /\ ~disposed /\ server = "up" /\ Len(posted) < MaxPosted
  /\ at' = "hello" /\ conn' = life /\ handler' = "queued" /\ Post("connected")
  /\ UNCHANGED <<server, life, match, named, disposed, uiVars, alive,
                 inbox, greeted, serverShutdown, mapped, tick>>

\* Refused, timed out or cancelled.
ConnectFails ==
  /\ alive /\ at = "connect" /\ (disposed \/ server # "up")
  /\ Drop
  /\ UNCHANGED <<pipeKeeps, serverShutdown, mapped, posted, tick>>

SendHello ==
  /\ alive /\ at = "hello" /\ ~disposed /\ ~PeerClosed
  /\ at' = "helloAck" /\ greeted' = TRUE
  /\ UNCHANGED <<pipeKeeps, inbox, conn, serverShutdown, mapped, posted, tick>>

\* Mutant: a client that lost the race for its first message is done.
HandshakeFailsForGood ==
  /\ alive /\ at \in {"hello", "helloAck", "schema"}
  /\ \/ disposed
     \/ at = "hello" /\ PeerClosed
     \/ at # "hello" /\ inbox = <<>> /\ PeerClosed
     \/ at = "helloAck" /\ inbox # <<>> /\ Head(inbox) # "HelloAck"
     \/ at = "schema" /\ inbox # <<>> /\ Head(inbox) # "Schema" /\ PeerClosed
  /\ at' = "ended" /\ conn' = 0 /\ inbox' = <<>> /\ greeted' = FALSE
  /\ UNCHANGED <<pipeKeeps, serverShutdown, mapped, posted, tick>>

\* A Shutdown in the place of HELLO_ACK ends the attempt; in the place of
\* the schema it is taken for the beginning of one, and the rest of that
\* is awaited until the server closes the socket.
HandshakeFails ==
  /\ alive /\ at \in {"hello", "helloAck", "schema"}
  /\ \/ disposed
     \/ at = "hello" /\ PeerClosed
     \/ at # "hello" /\ inbox = <<>> /\ PeerClosed
     \/ at = "helloAck" /\ inbox # <<>> /\ Head(inbox) # "HelloAck"
     \/ at = "schema" /\ inbox # <<>> /\ Head(inbox) # "Schema" /\ PeerClosed
  /\ Drop
  /\ UNCHANGED <<pipeKeeps, serverShutdown, mapped, posted, tick>>

ReceiveHandshake ==
  /\ alive /\ inbox # <<>> /\ inbox' = Tail(inbox)
  /\ \/ at = "helloAck" /\ Head(inbox) = "HelloAck" /\ at' = "schema"
     \/ at = "schema" /\ Head(inbox) = "Schema" /\ at' = "open"
  /\ UNCHANGED <<pipeKeeps, greeted, conn, serverShutdown, mapped, posted, tick>>

-----------------------------------------------------------------------------
(* OnSchemaReceived.                                                       *)

\* IsValid compares the version as well: a schema of another version is
\* rejected like a damaged one.
RejectSchema ==
  /\ alive /\ at = "open" /\ ~match
  /\ Drop
  /\ UNCHANGED <<pipeKeeps, serverShutdown, mapped, posted, tick>>

\* Mutant: MAP_FAILED is taken for a mapping.
OpenMemoryUnchecked ==
  /\ alive /\ at = "open" /\ match
  /\ Remap(IF named = 0 THEN MaxServers + 1 ELSE named)
  /\ at' = "ready"
  /\ UNCHANGED <<pipeKeeps, inbox, greeted, conn, serverShutdown, posted>>

\* Mutant: a mapping that is open is taken to be the right one.
OpenMemoryOnce ==
  /\ alive /\ at = "open" /\ match
  /\ LET block == IF mapped # 0 THEN mapped ELSE named IN
     /\ Remap(block)
     /\ IF block = 0
        THEN Drop
        ELSE at' = "ready" /\ UNCHANGED <<conn, inbox, greeted>>
  /\ UNCHANGED <<pipeKeeps, serverShutdown, posted>>

\* What was mapped is closed; what has the name now is mapped.
OpenMemory ==
  /\ alive /\ at = "open" /\ match
  /\ Remap(named)
  /\ IF named = 0
     THEN Drop
     ELSE at' = "ready" /\ UNCHANGED <<conn, inbox, greeted>>
  /\ UNCHANGED <<pipeKeeps, serverShutdown, posted>>

PostReady ==
  /\ alive /\ at = "ready" /\ Len(posted) < MaxPosted
  /\ at' = "ack" /\ Post("ready")
  /\ UNCHANGED <<pipeKeeps, inbox, greeted, conn, serverShutdown, mapped, tick>>

SendAck ==
  /\ alive /\ at = "ack" /\ ~disposed /\ ~PeerClosed
  /\ at' = "alive"
  /\ UNCHANGED <<pipeKeeps, inbox, greeted, conn, serverShutdown, mapped, posted, tick>>

\* Nothing closes the mapping when ACK cannot be written.
SendAckFails ==
  /\ alive /\ at = "ack" /\ (disposed \/ PeerClosed)
  /\ Drop
  /\ UNCHANGED <<pipeKeeps, serverShutdown, mapped, posted, tick>>

-----------------------------------------------------------------------------
(* The keep-alive loop and OnConnectionChanged(false).                     *)

\* The loop ends with Shutdown, with the end of the stream, or cancelled.
LeaveKeepAlive ==
  /\ alive /\ at = "alive"
  /\ \/ inbox # <<>> /\ Head(inbox) = "Shutdown" /\ at' = "closeShutdown"
     \/ (disposed \/ (inbox = <<>> /\ PeerClosed)) /\ at' = "closeLost"
  /\ UNCHANGED <<pipeKeeps, inbox, greeted, conn, serverShutdown, mapped, posted, tick>>

Closed == [closeLost |-> "postLost", closeShutdown |-> "postShutdown"]

\* Mutant: the mapping stays open.
CloseMemoryNot ==
  /\ alive /\ at \in DOMAIN Closed /\ at' = Closed[at]
  /\ UNCHANGED <<pipeKeeps, inbox, greeted, conn, serverShutdown, mapped, posted, tick>>

CloseMemory ==
  /\ alive /\ at \in DOMAIN Closed /\ at' = Closed[at]
  /\ Remap(0)
  /\ UNCHANGED <<pipeKeeps, inbox, greeted, conn, serverShutdown, posted>>

\* serverShutdown is never cleared again.
PostDisconnected ==
  /\ alive /\ at \in {"postLost", "postShutdown"} /\ Len(posted) < MaxPosted
  /\ Post("disconnected")
  /\ serverShutdown' = (serverShutdown \/ at = "postShutdown")
  /\ Drop
  /\ UNCHANGED <<pipeKeeps, mapped, tick>>

Pipe ==
  \/ LoopTest \/ Connect \/ ConnectFails \/ SendHello \/ HandshakeFails
  \/ ReceiveHandshake \/ RejectSchema \/ OpenMemory \/ PostReady
  \/ SendAck \/ SendAckFails \/ LeaveKeepAlive \/ CloseMemory \/ PostDisconnected

-----------------------------------------------------------------------------
(* The UI thread: one handler at a time.                                   *)

uiKeeps == <<serverVars, inbox, greeted, at, conn, serverShutdown>>

\* "ready" does not raise ConnectionStateChanged.
HandlePosted ==
  /\ alive /\ tick = "idle" /\ posted # <<>> /\ posted' = Tail(posted)
  /\ isConnected' = (Head(posted) # "disconnected")
  /\ shown' = IF Head(posted) = "ready" THEN shown ELSE isConnected'
  /\ errors' = IF Head(posted) = "ready" THEN 0 ELSE errors
  /\ UNCHANGED <<uiKeeps, mapped, disposed, tick, alive>>

GotInfo == errors' = 0 /\ isConnected' = TRUE /\ shown' = (shown \/ ~isConnected)

\* Mutant: the errors are counted and never looked at.
GotNothingSaid ==
  /\ errors' = IF errors < MaxConsecutiveErrors THEN errors + 1 ELSE errors
  /\ UNCHANGED <<isConnected, shown>>

\* The count matters up to its limit only.
GotNothing ==
  /\ errors' = IF errors < MaxConsecutiveErrors THEN errors + 1 ELSE errors
  /\ IF errors' = MaxConsecutiveErrors /\ isConnected
     THEN isConnected' = FALSE /\ shown' = FALSE
     ELSE UNCHANGED <<isConnected, shown>>

TickBegins ==
  /\ alive /\ tick = "idle"
  /\ IF mapped # 0
     THEN tick' = "reading" /\ UNCHANGED uiVars
     ELSE GotNothing /\ UNCHANGED tick
  /\ UNCHANGED <<uiKeeps, mapped, disposed, posted, alive>>

\* A reading that lost its mapping finds no fields (a page of zeros), ends
\* in an exception, or touches unmapped memory.
TickEnds ==
  /\ alive /\ tick # "idle" /\ tick' = "idle"
  /\ \/ GotInfo /\ UNCHANGED alive
     \/ tick = "overtaken" /\ GotNothing /\ UNCHANGED alive
     \/ tick = "overtaken" /\ alive' = FALSE /\ UNCHANGED uiVars
  /\ UNCHANGED <<uiKeeps, mapped, disposed, posted>>

\* ReconnectAsync: the service is disposed; its Start() then does nothing,
\* and the timer starts again.  Pressed again it would only reset errors.
Reconnect ==
  /\ alive /\ tick = "idle" /\ ~disposed
  /\ disposed' = TRUE /\ mapped' = 0 /\ errors' = 0
  /\ UNCHANGED <<uiKeeps, posted, tick, isConnected, shown, alive>>

-----------------------------------------------------------------------------
Server ==
  ServerUnlinks \/ ServerListens \/ ServerAccepts \/ ServerGreets
  \/ ServerStops \/ ServerEnds \/ ServerCrashes

Next == Server \/ Pipe \/ HandlePosted \/ TickBegins \/ TickEnds \/ Reconnect

\* The pipe task and the UI thread are scheduled, ticks do not keep posted
\* work waiting, and a server gets on with what it has begun.  Nobody has
\* to start, stop or kill a server or to press a button.
Fairness ==
  /\ WF_vars(Pipe)
  /\ SF_vars(HandlePosted) /\ WF_vars(TickBegins) /\ WF_vars(TickEnds)
  /\ WF_vars(ServerListens) /\ WF_vars(ServerAccepts)
  /\ WF_vars(ServerGreets) /\ WF_vars(ServerEnds)

Spec == Init /\ [][Next]_vars /\ Fairness

-----------------------------------------------------------------------------
\* Types of the variables.
TypeOK ==
  /\ server \in {"down", "starting", "up", "stopping"}
  /\ life \in 0..MaxServers /\ match \in BOOLEAN /\ named \in 0..MaxServers
  /\ handler \in {"none", "queued", "reading", "acked", "sent"}
  /\ inbox \in Seq({"HelloAck", "Schema", "Shutdown"}) /\ greeted \in BOOLEAN
  /\ at \in PipeAt
  /\ conn \in 0..MaxServers /\ serverShutdown \in BOOLEAN
  /\ mapped \in 0..MaxServers /\ disposed \in BOOLEAN
  /\ posted \in Seq({"connected", "ready", "disconnected"}) /\ Len(posted) <= MaxPosted
  /\ tick \in {"idle", "reading", "overtaken"}
  /\ errors \in 0..MaxConsecutiveErrors
  /\ isConnected \in BOOLEAN /\ shown \in BOOLEAN /\ alive \in BOOLEAN

\* A client that has accepted a schema reads the block of the server that
\* sent it or of a later one, whatever block a failed attempt has left
\* mapped (IPCMemoryReader.Open).
MappedNotOlder ==
  at \in {"ready", "ack", "alive"} /\ ~disposed => mapped >= conn

\* A server that comes back is found again and its block is mapped, unless
\* the client has been told of a shutdown, or was disposed (StartAsync).
ConnectsAgain ==
  <>[](server = "up" /\ match /\ alive /\ ~disposed /\ ~serverShutdown)
    => <>[](mapped = life /\ isConnected)

\* The service does not go on saying that it is connected while there is
\* nothing to read, however the handshake was lost (OnTimerTick).
ConnectedHasData ==
  isConnected /\ mapped = 0 ~> ~isConnected \/ mapped # 0 \/ ~alive

\* After Shutdown the window says disconnected for good, although posted
\* notifications and a reading under way may say otherwise for a while.
ShutdownIsFinal ==
  <>serverShutdown => <>[](alive => ~isConnected /\ ~shown)

\* A disposed client's task ends wherever it was (DisposeAsync).
DisposeEnds == disposed ~> at = "ended" \/ ~alive

\* "close memory reader so timer stops reading": no reading goes on when
\* the block has been closed under it (IPCService.Start).
TimerStopsReading == tick # "overtaken"
=============================================================================
