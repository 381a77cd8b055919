CONSTANTS
  DbOrder <- MCDbOrder
  Loaded <- MCLoaded
  Actual <- MCActual
  Dirs = {"pref", "path"}
  Configured = "pref"
  Has <- MCHas
  NoTool = "notool"
  NoDb = "nodb"
  NoColl = "nocoll"
  MaxToolStarts = 1
  DirOrder <- MCDirOrder
  MaxConns = 3
  MaxStarts = 3
  MaxNewer = 1
  Servers <- MCServers
  MaxFormSteps = 4
  Listed <- MCListed
  MaxTouches = 2
  TextDocuments <- MCTextDocuments
  Encodings <- MCEncodings
  Instants <- MCInstants
  Zones <- MCZones
  Clocks <- MCClocks
  Docs = {1, 2}
  Aliased = FALSE
  MaxJobs = 1
  MaxOthers = 1
SPECIFICATION DialogsSpec
INVARIANTS ToolIsSound SettingsAreSound FormsOfConnectionsAgree CreatedAsShown TextsDenote OpsAreSound
PROPERTY WhatIsWrittenLasts
CHECK_DEADLOCK FALSE
