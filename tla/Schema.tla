-------------------------------- MODULE Schema --------------------------------
(***************************************************************************)
(* The fields of the shared block, as macOS and Windows declare them to    *)
(* their clients, and the typed reads of the two clients: the Avalonia     *)
(* client takes a field only if it is wide enough for the type it asks     *)
(* for, and tries another type if it is not; the MCP tools copy as many    *)
(* bytes as both have.  A value is abstracted to what becomes of it: it    *)
(* comes through ("value"), its bytes are taken for something else         *)
(* ("garbage"), or the reader finds nothing and shows its default          *)
(* ("nothing").  The numbered fields of a list are one field here.         *)
(***************************************************************************)
EXTENDS Integers, Sequences, FiniteSets

CONSTANTS SchemaBuilds  \* the builds to consider, of "mac" and "windows"

VARIABLES schemaOf,  \* the build of the server
          lookup     \* the last field read: by whom, which, and what came of it

svars == <<schemaOf, lookup>>

\* Bytes per type; for text, enough to tell it from a number.
Width == [UInt8 |-> 1, Bool |-> 1, Int32 |-> 4, UInt32 |-> 4, Float32 |-> 4, UInt64 |-> 8,
          Float64 |-> 8, String |-> 16, WString |-> 16]

Each(type, names) == [n \in names |-> type]

\* What f gives, and what g gives where f has nothing.
f ++ g == [n \in DOMAIN f \cup DOMAIN g |-> IF n \in DOMAIN f THEN f[n] ELSE g[n]]

Cores == {"cpu/cores/physical", "cpu/cores/logical", "cpu/cores/performance",
          "cpu/cores/efficiency"}
Reals == {"cpu/usage", "cpu/freq/pCore", "cpu/freq/eCore", "cpu/temperature", "power/cpu",
          "power/gpu", "power/ane", "gpu/0/memoryPercent", "gpu/0/usage", "gpu/0/temperature",
          "gpu/freq", "sensor/*/value", "phys/*/temperature"}
Sizes == {"memory/total", "memory/used", "memory/available", "memory/compressed",
          "gpu/0/memory", "disk/*/total", "disk/*/used", "disk/*/free", "net/*/speed",
          "net/*/downloadSpeed", "net/*/uploadSpeed", "phys/*/capacity"}
Bools == {"cpu/hyperThreading", "cpu/virtualization", "battery/acOnline", "gpu/0/isVirtual",
          "phys/*/smartSupported", "wifi/powerOn", "wifi/isConnected", "bluetooth/powerOn"}
Ints  == {"battery/percent", "phys/*/attrCount", "wifi/rssi", "wifi/channel",
          "bluetooth/deviceCount"}
Texts == {"cpu/name", "memory/ramType", "os/version", "os/model", "gpu/0/name", "gpu/0/brand",
          "disk/*/label", "disk/*/fs", "net/*/name", "net/*/ip", "net/*/mac", "net/*/type",
          "sensor/*/name", "phys/*/model", "phys/*/serial", "phys/*/interface", "wifi/ssid",
          "wifi/security", "bluetooth/name"}

\* BuildIPCDataBlockSchema of main_mac.cpp.
MacSchema ==
  Each("UInt8", Cores) ++ Each("Float32", Reals \cup {"cpu/sampleIntervalMs", "phys/*/health"})
  ++ Each("UInt64", Sizes \cup {"memory/swapUsed", "memory/swapTotal"})
  ++ Each("UInt32", {"memory/ramSpeed"}) ++ Each("Bool", Bools) ++ Each("Int32", Ints)
  ++ Each("String", Texts \cup {"phys/*/attrsJson"})

\* BuildWindowsIpcSchema of main.cpp.
WindowsSchema ==
  Each("Int32", Cores \cup Ints \cup {"phys/*/letterCount"})
  ++ Each("Float64", Reals \cup {"cpu/freq/base"})
  ++ Each("UInt64", Sizes) ++ Each("UInt32", {"memory/ramSpeed"})
  ++ Each("Bool", Bools \cup {"tpm/isEnabled", "tpm/isActive"})
  ++ Each("UInt8", {"disk/*/letter", "phys/*/health", "phys/*/letter", "tpm/status",
                    "tpm/selfTestStatus", "tpm/count"})
  ++ Each("WString", Texts \cup {"wifi/band", "wifi/gen", "tpm/manufacturer",
                                 "tpm/firmwareVersion"})
  ++ Each("String", {"phys/*/attrsJson"})

Schema == IF schemaOf = "mac" THEN MacSchema ELSE WindowsSchema
HasField(n) == n \in DOMAIN Schema

(***************************************************************************)
(* The Avalonia client.                                                    *)
(***************************************************************************)
\* The same bits mean the same in both types.
Alike(t, u) == t = u \/ {t, u} \subseteq {"UInt8", "Bool"} \/ {t, u} \subseteq {"Int32", "UInt32"}

ReadUnchecked(n, want) ==
  IF ~HasField(n) THEN "nothing" ELSE IF Alike(Schema[n], want) THEN "value" ELSE "garbage"

\* ReadUInt8 ... ReadFloat64 of IPCMemoryReader.
ReadNumber(n, want) ==
  IF ~HasField(n) \/ Width[Schema[n]] < Width[want] THEN "nothing"
  ELSE IF Alike(Schema[n], want) THEN "value" ELSE "garbage"

\* ReadString and ReadWString: on macOS the latter falls through to the former.
ReadText(n, want) ==
  IF ~HasField(n) THEN "nothing"
  ELSE IF Schema[n] = want \/ (schemaOf = "mac" /\ Schema[n] = "String") THEN "value"
  ELSE "garbage"

ReadAs(n, want) == IF want \in {"String", "WString"} THEN ReadText(n, want) ELSE ReadNumber(n, want)

\* The types IPCSystemInfoMapper asks for, in order, the next one if one gives null.
AskedScalars ==
  [n \in Cores |-> <<"Int32", "UInt8">>]
  ++ [n \in (Reals \ {"phys/*/temperature"}) \cup {"cpu/freq/base"} |-> <<"Float64", "Float32">>]
  ++ Each(<<"Float64">>, {"cpu/sampleIntervalMs", "phys/*/temperature"})
  ++ Each(<<"UInt64">>, Sizes \cup {"memory/swapUsed", "memory/swapTotal"})
  ++ Each(<<"UInt32">>, {"memory/ramSpeed"})
  ++ Each(<<"Bool">>, (Bools \ {"wifi/isConnected"}) \cup {"tpm/isEnabled", "tpm/isActive"})
  ++ Each(<<"Float32">>, {"phys/*/health"})

AskedLists ==
  Each(<<"WString">>, {"disk/*/label", "disk/*/fs", "net/*/ip", "net/*/mac", "net/*/type",
                       "sensor/*/name", "phys/*/model", "phys/*/serial", "phys/*/interface",
                       "tpm/manufacturer", "tpm/firmwareVersion"})
  ++ Each(<<"UInt8">>, {"disk/*/letter", "phys/*/letter", "tpm/count", "tpm/status",
                        "tpm/selfTestStatus"})
  ++ Each(<<"Int32">>, Ints \cup {"phys/*/letterCount"})
  ++ Each(<<"String">>, {"os/version", "phys/*/attrsJson"})
  ++ Each(<<"WString", "String">>, {"cpu/name", "memory/ramType", "gpu/0/name", "gpu/0/brand",
                                   "net/*/name", "wifi/ssid", "wifi/security", "wifi/band",
                                   "wifi/gen"})

Asked == AskedScalars ++ AskedLists

MapField(n) ==
  LET found == {i \in DOMAIN Asked[n] : ReadAs(n, Asked[n][i]) # "nothing"}
  IN  IF found = {} THEN "nothing"
      ELSE ReadAs(n, Asked[n][CHOOSE i \in found : \A j \in found : i <= j])

(***************************************************************************)
(* The MCP tools, over the C++ client.                                     *)
(***************************************************************************)
\* ReadNumeric: a narrower field fills the low bytes of the result, of a wider
\* one the low bytes are taken.  Right for unsigned numbers only.
ReadNumeric(n, want) ==
  IF ~HasField(n) THEN "nothing"
  ELSE IF Alike(Schema[n], want)
            \/ {Schema[n], want} \subseteq {"UInt8", "Bool", "Int32", "UInt32", "UInt64"}
       THEN "value" ELSE "garbage"

ReadBytes(n) ==
  IF ~HasField(n) THEN "nothing" ELSE IF Schema[n] = "String" THEN "value" ELSE "garbage"

\* The fields the tools registered by main_mac.cpp read, with the type they ask for.
CpuTools ==
  Each("Int32", Cores \ {"cpu/cores/logical"})
  ++ Each("Float64", {"cpu/usage", "cpu/freq/pCore", "cpu/freq/eCore", "cpu/temperature",
                      "gpu/0/usage", "gpu/0/temperature"})
  ++ Each("UInt64", {"memory/total", "memory/used", "memory/available", "memory/compressed",
                     "gpu/0/memory"})
  ++ Each("String", {"cpu/name", "gpu/0/name", "disk/*/label", "disk/*/fs", "phys/*/model"})
  ++ Each("UInt64", {"disk/*/total", "disk/*/used", "phys/*/capacity"})

OtherTools ==
  Each("Bool", {"phys/*/smartSupported", "battery/acOnline"})
  ++ Each("Int32", {"battery/percent"})
  ++ Each("String", {"net/*/name", "net/*/ip", "net/*/mac", "net/*/type", "sensor/*/name",
                     "os/version"})
  ++ Each("UInt64", {"net/*/speed", "net/*/downloadSpeed", "net/*/uploadSpeed"})
  ++ Each("Float32", {"sensor/*/value"})

Tools == CpuTools ++ OtherTools

ReadTool(n) == IF Tools[n] = "String" THEN ReadBytes(n) ELSE ReadNumeric(n, Tools[n])

(***************************************************************************)
(* A client reads one field after the other.                               *)
(***************************************************************************)
SchemaInit == schemaOf \in SchemaBuilds /\ lookup = [by |-> "none", field |-> "", got |-> ""]

AvaloniaReads(n) ==
  /\ lookup' = [by |-> "avalonia", field |-> n, got |-> MapField(n)]
  /\ UNCHANGED schemaOf

McpReads(n) ==
  /\ lookup' = [by |-> "mcp", field |-> n, got |-> ReadTool(n)]
  /\ UNCHANGED schemaOf

\* On Windows the handshake of the C++ client does not succeed: the server sends
\* its schema at once and never answers Hello.
SchemaNext ==
  \/ \E n \in DOMAIN Asked : AvaloniaReads(n)
  \/ \E n \in DOMAIN Tools : schemaOf = "mac" /\ McpReads(n)

(***************************************************************************)
(* Properties.                                                             *)
(***************************************************************************)
\* The fields whose type in the schema of a build is not one the mapper asks for.
Unread == [mac |-> {"phys/*/temperature", "cpu/sampleIntervalMs"},
           windows |-> {"phys/*/health", "os/version"}]

\* The reals an MCP tool asks for in twice the width of the field: it gets the bits
\* of a Float32 in the low half of a Float64.
HalfRead == {n \in DOMAIN Tools \cap DOMAIN Schema : Tools[n] = "Float64" /\ Schema[n] = "Float32"}

\* What a server declares and a client asks for comes through as it was written,
\* whatever the type each build chose: to the Avalonia client, but for the fields
\* of each build that the mapper asks for in the other build's type only; and to
\* the MCP tools ("zero-extends smaller fields to the target type",
\* IPCClient.cpp), but for the reals that this does to.
MappedAsWritten ==
  HasField(lookup.field) =>
    \/ lookup.by = "avalonia" /\ lookup.field \in Unread[schemaOf]
    \/ lookup.by = "mcp" /\ lookup.field \in HalfRead
    \/ lookup.got = "value"
==============================================================================
