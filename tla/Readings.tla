-------------------------------- MODULE Readings --------------------------------
(***************************************************************************)
(* What becomes of the readings: eight parts that share no state in the    *)
(* models, the shared block and its sequence lock, the schema as the       *)
(* clients read it, the lists of the block, the sample and its sinks, the  *)
(* screen of the terminal interface, the temperatures, the MCP server and  *)
(* the one-shot JSON mode.  A behaviour chooses one of them, which then    *)
(* runs as its module says while the others stay as they start: what holds *)
(* of this specification holds of each of them.  The properties of Seqlock *)
(* are those of its module, as its names come in with EXTENDS.             *)
(***************************************************************************)
EXTENDS Seqlock, Sequences

CONSTANTS Parts,  \* the parts to consider
          McpBuilds, RATE_LIMIT, Window, MaxServers,                  \* Mcp
          JsonBuilds, Followed, Runs, MaxRowsOfSection,               \* OneShot
          SchemaBuilds,                                               \* Schema
          BlockBuilds, SlotLists, Capacity, MaxRows, Items, LongNamed, Connected, WithAttrs,
          BigAttrs,                                                   \* Block
          SampleBuilds,                                               \* Sample
          TuiBuilds, Rows, Lengths, Sensors, Names, NameW,            \* Screen
          TempsBuilds, SmcKeys, GroupOf, Enough, Degrees, Near, MaxFiles  \* Temps

ASSUME McpAssumption == RATE_LIMIT \in Nat /\ Window \in Nat

ASSUME OneShotAssumption ==
  JsonBuilds \subseteq {"mac", "linux", "windows"} /\ {"none", "old"} \cap Runs = {}

ASSUME SchemaAssumption == SchemaBuilds \subseteq {"mac", "windows"}

ASSUME SlotsAssumption == Capacity \in Nat /\ Items \subseteq Nat \ {0}

ASSUME ScreenAssumption ==
  /\ Rows \subseteq Nat /\ Lengths \subseteq Nat /\ Sensors \subseteq Nat
  /\ Names \subseteq Seq(0..2) /\ NameW \in Nat \ {0}

ASSUME SampleAssumption == SampleBuilds \subseteq {"mac", "linux", "windows"}

ASSUME TempsAssumption ==
  Enough \in Nat \ {0} /\ Near \in Nat \ {0} /\ Degrees \subseteq Int

VARIABLES part,  \* the part that runs
          mcpBuild, server, ipc, mcp, rate, answer,
          jsonBuild, name, files, shot,
          schemaOf, lookup,
          publisher, list, slots, hardware, whole, cursor, view, steady,
          build, step, known, gpuCache, wifi, sample, skipped, served, sinks,
          tuiBuild, termRows, tuiData, currentPage, frame,
          tempsBuild, wrapper, smc, reading, pm, killed

lockVars == vars
mcpVars == <<mcpBuild, server, ipc, mcp, rate, answer>>
shotVars == <<jsonBuild, name, files, shot>>
schemaVars == <<schemaOf, lookup>>
blockVars == <<publisher, list, slots, hardware, whole, cursor, view, steady>>
sampleVars == <<build, step, known, gpuCache, wifi, sample, skipped, served, sinks>>
screenVars == <<tuiBuild, termRows, tuiData, currentPage, frame>>
tempsVars == <<tempsBuild, wrapper, smc, reading, pm, killed>>

Server == INSTANCE Mcp
Shot == INSTANCE OneShot WITH MaxRows <- MaxRowsOfSection
Declared == INSTANCE Schema
Lists == INSTANCE Block
Turn == INSTANCE Sample WITH data <- sample
Display == INSTANCE Screen
Heat == INSTANCE Temps

\* Of the parts that do not run only one initial state.
OneOf(p, x, S) == part = p \/ x = CHOOSE y \in S : TRUE

ReadingsInit ==
  /\ part \in Parts
  /\ Init /\ OneOf("lock", published, Values)
  /\ Server!McpInit /\ OneOf("mcp", mcpBuild, McpBuilds)
  /\ Shot!OneShotInit /\ OneOf("json", jsonBuild, JsonBuilds)
  /\ (part = "json" \/ (name = "none" /\ files["old"].is = "json"))
  /\ Declared!SchemaInit /\ OneOf("schema", schemaOf, SchemaBuilds)
  /\ Lists!BlockInit /\ OneOf("block", <<publisher, list>>, BlockBuilds \X SlotLists)
  /\ Turn!SampleInit /\ OneOf("sample", build, SampleBuilds)
  /\ Display!ScreenInit /\ OneOf("screen", <<tuiBuild, termRows>>, TuiBuilds \X Rows)
  /\ Heat!TempsInit /\ OneOf("temps", tempsBuild, TempsBuilds)

LockSteps ==
  /\ part = "lock" /\ Next
  /\ UNCHANGED <<part, mcpVars, shotVars, schemaVars, blockVars, sampleVars, screenVars,
                 tempsVars>>

McpSteps ==
  /\ part = "mcp" /\ Server!McpNext
  /\ UNCHANGED <<part, lockVars, shotVars, schemaVars, blockVars, sampleVars, screenVars,
                 tempsVars>>

ShotSteps ==
  /\ part = "json" /\ Shot!OneShotNext
  /\ UNCHANGED <<part, lockVars, mcpVars, schemaVars, blockVars, sampleVars, screenVars,
                 tempsVars>>

SchemaSteps ==
  /\ part = "schema" /\ Declared!SchemaNext
  /\ UNCHANGED <<part, lockVars, mcpVars, shotVars, blockVars, sampleVars, screenVars,
                 tempsVars>>

BlockSteps ==
  /\ part = "block" /\ Lists!BlockNext
  /\ UNCHANGED <<part, lockVars, mcpVars, shotVars, schemaVars, sampleVars, screenVars,
                 tempsVars>>

SampleSteps ==
  /\ part = "sample" /\ Turn!SampleNext
  /\ UNCHANGED <<part, lockVars, mcpVars, shotVars, schemaVars, blockVars, screenVars,
                 tempsVars>>

ScreenSteps ==
  /\ part = "screen" /\ Display!ScreenNext
  /\ UNCHANGED <<part, lockVars, mcpVars, shotVars, schemaVars, blockVars, sampleVars,
                 tempsVars>>

TempsSteps ==
  /\ part = "temps" /\ Heat!TempsNext
  /\ UNCHANGED <<part, lockVars, mcpVars, shotVars, schemaVars, blockVars, sampleVars,
                 screenVars>>

ReadingsNext == LockSteps \/ McpSteps \/ ShotSteps \/ SchemaSteps \/ BlockSteps \/ SampleSteps
                \/ ScreenSteps \/ TempsSteps

allVars == <<part, lockVars, mcpVars, shotVars, schemaVars, blockVars, sampleVars, screenVars,
             tempsVars>>

ReadingsSpec == ReadingsInit /\ [][ReadingsNext]_allVars

(***************************************************************************)
(* Properties: those of the modules.                                       *)
(***************************************************************************)
\* Mcp: no more than twice the limit of tool calls in any window, none before the
\* session is initialised (CheckRateLimit, HandleToolsCall).
CallsAreLimited == Server!CallsAreLimited

\* OneShot: a process alone prints what it gathered, whatever an earlier one left where
\* it could remove that; where it could not, what it gathered is in what it prints.
OwnDataPrinted == Shot!OwnDataPrinted

\* Schema: the fields a client asks for come through, with the exceptions named there.
MappedAsWritten == Declared!MappedAsWritten

\* Block: what was published is in the rows a client makes of the slots.
PublishedIsShown == Lists!PublishedIsShown

\* Sample: the terminal interface, the block and the history get the same sample, on
\* Windows a validated one, but for a card that Windows' interface shows nothing of.
SinksGetSample == Turn!SinksGetSample

\* Screen: the log fits between the columns and the panels at the bottom.
LogFitsBetween == Display!LogFitsBetween

\* Temps: on Apple Silicon no read over a closed SMC and no poor reading in place of a
\* good one, unless Cleanup() clears it under the copy; on Linux no value twice.
TempsSound == Heat!TempsSound
================================================================================
