---------------------------------- MODULE Mcp ----------------------------------
(***************************************************************************)
(* A process started with --mcp: it looks once for a running instance (the *)
(* C++ IPC client), registers its tools, and then answers requests, one    *)
(* line after the other (MCPServer).  Time passes in ticks, of which the   *)
(* window of the rate limit has Window.  The numbers a tool gives are      *)
(* abstracted to where they come from: the block of an instance, by its    *)
(* generation, the hardware, or nowhere.                                   *)
(***************************************************************************)
EXTENDS Integers, Sequences, FiniteSets, TLC

CONSTANTS McpBuilds,   \* the builds, of "mac", "linux", "windows"
          RATE_LIMIT,  \* calls per window (30 in the code)
          Window,      \* the ticks that are no more than a second
          MaxServers   \* bound: instances that are started

VARIABLES mcpBuild,  \* the build
          server,    \* the instance of the program: up or not, and which
          ipc,       \* IPCClient: the step it is at and the instance it has mapped
          mcp,       \* MCPServer: running, initialized
          rate,      \* the ages of the window and of the calls let through, the count
          answer     \* the last answer: to which method, its error code, the source

mcvars == <<mcpBuild, server, ipc, mcp, rate, answer>>

NoAnswer == [to |-> "none", code |-> 0, from |-> "none"]

McpInit ==
  /\ mcpBuild \in McpBuilds
  /\ server = [up |-> FALSE, gen |-> 0]
  /\ ipc = [at |-> "connect", mapped |-> 0]
  /\ mcp = [at |-> "starts", initialized |-> FALSE]
  /\ rate = [window |-> Window + 1, count |-> 0, calls |-> <<>>]
  /\ answer = NoAnswer

(***************************************************************************)
(* The instance that may run beside it.                                    *)
(***************************************************************************)
ServerStarts ==
  /\ ~server.up /\ server.gen < MaxServers
  /\ server' = [up |-> TRUE, gen |-> server.gen + 1]
  /\ UNCHANGED <<mcpBuild, ipc, mcp, rate, answer>>

ServerStops ==
  /\ server.up
  /\ server' = [server EXCEPT !.up = FALSE]
  /\ UNCHANGED <<mcpBuild, ipc, mcp, rate, answer>>

\* Those that are a window old, the first ones, are forgotten; the others age.
Old(calls) == Cardinality({i \in DOMAIN calls : calls[i] >= Window})
Aged(calls) == [i \in 1..Len(calls) - Old(calls) |-> calls[i + Old(calls)] + 1]

Tick ==
  /\ \/ rate.window <= Window
     \/ rate.calls # <<>>
  /\ rate' = [rate EXCEPT !.window = IF @ > Window THEN @ ELSE @ + 1, !.calls = Aged(@)]
  /\ UNCHANGED <<mcpBuild, server, ipc, mcp, answer>>

(***************************************************************************)
(* IPCClient::Connect(): each step fails if the instance has gone, and     *)
(* then the tools read the hardware for good.                              *)
(***************************************************************************)
Goes(next) == ipc' = [ipc EXCEPT !.at = next]

\* Linux has no server.
ConnectSocket ==
  /\ ipc.at = "connect"
  /\ Goes(IF server.up /\ mcpBuild # "linux" THEN "handshake" ELSE "direct")
  /\ UNCHANGED <<mcpBuild, server, mcp, rate, answer>>

\* Windows' server sends its schema at once; what comes is no HelloAck.
Handshake ==
  /\ ipc.at = "handshake"
  /\ Goes(IF server.up /\ mcpBuild = "mac" THEN "open" ELSE "direct")
  /\ UNCHANGED <<mcpBuild, server, mcp, rate, answer>>

\* By name: it may be the memory of an instance that came after the handshake.
OpenSharedMemory ==
  /\ ipc.at = "open"
  /\ ipc' = IF server.up THEN [at |-> "pipe", mapped |-> server.gen]
            ELSE [at |-> "direct", mapped |-> 0]
  /\ UNCHANGED <<mcpBuild, server, mcp, rate, answer>>

\* The place is free for other clients; the mapping stays.
ClosePipe ==
  /\ ipc.at = "pipe"
  /\ Goes("mapped")
  /\ UNCHANGED <<mcpBuild, server, mcp, rate, answer>>

(***************************************************************************)
(* The tools.                                                              *)
(***************************************************************************)
MacTools == {"get_cpu_status", "get_memory", "get_gpu_status", "get_disk_health",
             "get_battery_info", "get_network_info", "get_temperatures", "get_system_info"}
LinuxTools == {"get_cpu_status", "get_memory", "get_gpu_status", "get_disk_health"}
LinuxDeviceTools == {"get_battery_info", "get_network_info", "get_temperatures", "get_system_info"}
WindowsTools == {"get_cpu_status", "get_memory", "get_gpu_status", "get_system_info"}

ToolsOf == [mac |-> MacTools, linux |-> LinuxTools \cup LinuxDeviceTools, windows |-> WindowsTools]

\* With --mcp nobody has initialised TemperatureWrapper; GPUs need WMI on Windows.
Direct(t) ==
  IF t = "get_temperatures" \/ (t = "get_gpu_status" /\ mcpBuild = "windows")
  THEN "nothing" ELSE "hardware"

Source(t) == IF ipc.at = "mapped" THEN ToString(ipc.mapped) ELSE Direct(t)

(***************************************************************************)
(* MCPServer::Run().                                                       *)
(***************************************************************************)
Run ==
  /\ mcp.at = "starts" /\ ipc.at \in {"mapped", "direct"}
  /\ mcp' = [at |-> "serves", initialized |-> FALSE]
  /\ UNCHANGED <<mcpBuild, server, ipc, rate, answer>>

Answers(method, code, from) == answer' = [to |-> method, code |-> code, from |-> from]

Replies(method, code) ==
  Answers(method, code, "none") /\ UNCHANGED <<mcpBuild, server, ipc, mcp, rate>>

\* A line that is empty or a notification is passed over, what is no JSON or lacks
\* the version is answered.
OddLine ==
  /\ mcp.at = "serves"
  /\ \/ UNCHANGED mcvars
     \/ Replies("line", -32700)
     \/ Replies("request", -32600)
     \/ Replies("other", -32601)
     \/ Replies("ping", 0)

\* A method that is no string throws outside of the handlers.
BadMethod ==
  /\ mcp.at = "serves"
  /\ mcp' = [mcp EXCEPT !.at = "crashed"]
  /\ UNCHANGED <<mcpBuild, server, ipc, rate, answer>>

HandleInitialize ==
  /\ mcp.at = "serves"
  /\ mcp' = [mcp EXCEPT !.initialized = TRUE]
  /\ Answers("initialize", 0, "none")
  /\ UNCHANGED <<mcpBuild, server, ipc, rate>>

HandleToolsList ==
  /\ mcp.at = "serves"
  /\ Replies("tools/list", IF mcp.initialized THEN 0 ELSE -32002)

\* A new window begins with the first call after the last one's second; calls that
\* are refused are counted too.
CheckRateLimitStuck == [window |-> rate.window, count |-> IF rate.window > Window THEN 1 ELSE rate.count + 1]

CheckRateLimit ==
  IF rate.window > Window THEN [window |-> 0, count |-> 1]
                          ELSE [window |-> rate.window, count |-> rate.count + 1]

Granted(r) == r.count <= RATE_LIMIT

\* The count stops at its limit here: what is above is refused.
Counted(r) ==
  [window |-> r.window,
   count |-> IF Granted(r) THEN r.count ELSE RATE_LIMIT + 1,
   calls |-> IF Granted(r) THEN Append(rate.calls, 0) ELSE rate.calls]

\* The name may be missing or unknown, and a handler that reads the hardware may throw.
HandleToolsCall(t, throws) ==
  /\ mcp.at = "serves"
  /\ IF ~mcp.initialized THEN Replies("tools/call", -32002)
     ELSE /\ rate' = Counted(CheckRateLimit)
          /\ \/ ~Granted(CheckRateLimit) /\ Answers("tools/call", -32029, "none")
             \/ Granted(CheckRateLimit) /\ throws /\ Answers("tools/call", -32603, "none")
             \/ /\ Granted(CheckRateLimit) /\ ~throws
                /\ IF t \in ToolsOf[mcpBuild]
                   THEN Answers("tools/call", 0, Source(t))
                   ELSE Answers("tools/call", -32000, "none")
          /\ UNCHANGED <<mcpBuild, server, ipc, mcp>>

\* The shutdown request is answered; the end of the input ends the loop too.
Shutdown(asked) ==
  /\ mcp.at = "serves"
  /\ mcp' = [mcp EXCEPT !.at = "ended"]
  /\ IF asked THEN Answers("shutdown", 0, "none") ELSE UNCHANGED answer
  /\ UNCHANGED <<mcpBuild, server, ipc, rate>>

McpNext ==
  \/ ServerStarts \/ ServerStops \/ Tick
  \/ ConnectSocket \/ Handshake \/ OpenSharedMemory \/ ClosePipe
  \/ Run \/ OddLine \/ BadMethod \/ HandleInitialize \/ HandleToolsList
  \/ \E t \in MacTools \cup {""}, throws \in BOOLEAN : HandleToolsCall(t, throws)
  \/ \E asked \in BOOLEAN : Shutdown(asked)

McpSpec == McpInit /\ [][McpNext]_mcvars

(***************************************************************************)
(* Properties.                                                             *)
(***************************************************************************)
\* However the calls are spread, in no span as long as the window do more than twice
\* the limit get through: it begins in one window and ends in the next.  And no tool
\* is let run before the client has initialised the session.
CallsAreLimited ==
  /\ Len(rate.calls) <= 2 * RATE_LIMIT
  /\ answer.to = "tools/call" /\ answer.code \in {0, -32000, -32603} =>
       mcp.initialized /\ rate.count > 0
================================================================================
