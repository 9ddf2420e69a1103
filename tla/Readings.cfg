SPECIFICATION ReadingsSpec
CONSTANTS
  Parts = {"lock", "mcp", "json", "schema", "block", "sample", "screen", "temps"}
  Words = {1, 2, 3}
  Fields = {{1, 2}, {2, 3}}
  RawWords = {}
  Values = {0, 1}
  Modulus = 8
  MaxAttempts = 2
  MaxSpin = 2
  MayThrow = FALSE
  CatchBumps = FALSE
  MayCrash = FALSE
  MaxLag = 6
  McpBuilds = {"mac", "linux", "windows"}
  RATE_LIMIT = 2
  Window = 2
  MaxServers = 2
  JsonBuilds = {"mac", "windows"}
  Followed = {"os", "disks"}
  Runs = {"r1", "r2"}
  MaxRowsOfSection = 1
  SchemaBuilds = {"mac", "windows"}
  BlockBuilds = {"mac", "windows"}
  SlotLists = {"disks", "adapters", "phys", "temps"}
  Capacity = 2
  MaxRows = 3
  Items = {1, 2, 3}
  LongNamed = {1}
  Connected = {1, 2}
  WithAttrs = {1, 3}
  BigAttrs = {3}
  SampleBuilds = {"mac", "linux", "windows"}
  TuiBuilds = {"mac", "other"}
  Rows = {20, 24, 60}
  Lengths = {0, 8}
  Sensors = {0, 7, 13}
  Names <- MCNames
  NameW = 3
  TempsBuilds = {"silicon", "intel", "windows", "linux"}
  SmcKeys = {"Tp01", "Tp05", "Tg0G", "TXXX"}
  GroupOf <- MCGroupOf
  Enough = 2
  Degrees = {0, 20, 40, 60}
  Near = 30
  MaxFiles = 3
INVARIANTS ParityMarksWriting NoTornRead CallsAreLimited OwnDataPrinted MappedAsWritten PublishedIsShown SinksGetSample LogFitsBetween TempsSound
PROPERTIES ImplementsBlock
CHECK_DEADLOCK FALSE
