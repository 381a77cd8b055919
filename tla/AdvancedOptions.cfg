CONSTANTS
  DbOrder <- MCDbOrder
  Loaded <- MCLoaded
  Actual <- MCActual
  Dirs = {"pref", "path"}
  Configured = "pref"
  Has <- MCHas
  NoTool = "notool"
  NoDb = "nodb"
  NoColl = "nocoll"
  MaxToolStarts = 0
  DirOrder <- MCDirOrder
  MaxConns = 0
  MaxStarts = 0
  MaxNewer = 0
  Servers <- MCServers
  MaxFormSteps = 4
  Listed <- MCListed
  MaxTouches = 2
  TextDocuments <- MCTextDocuments
  Encodings <- MCEncodings
  Instants <- MCInstants
  Zones <- MCZones
  Clocks <- MCClocks
  Docs = {1, 2}
  Aliased = FALSE
  MaxJobs = 0
  MaxOthers = 0
SPECIFICATION DialogsSpec
INVARIANT AdvancedOptionsAreUsed
CHECK_DEADLOCK FALSE
