CONSTANTS
  Scripts = {"drop"}
  ScopeOf <- MCScopeOf
  Files = {f1}
  NoFile = NoFile
  AutoExec = TRUE
  WarnOnSingle = FALSE
  MaxTabs = 2
  MaxEdits = 3
  MaxExecutions = 1
  Modes = {m1, m2}
  Timeouts = {t1, t2}
  NoEngine = NoEngine
  MaxServers = 3
  MaxChanges = 3
  Keys = {k1, k2, k3}
  Instances = {one, other}
  MaxEntries = 2
  SaveMayFail = TRUE
  MaxRuns = 3
  Legal <- MCLegal
  MaxBytes = 25
  MaxTextEdits = 2
  Shapes <- MCShapes
  Gaps <- MCGaps
  MaxStatements = 2
  BatchSize = 1
  CursorSizes = {2}
  Arguments <- MCArguments
  Documents <- MCFilters
  Numbers <- MCNumbers
  MaxCalls = 2
  CollectionSizes = {4}
  Batch = 2
  Exported <- MCExported
  MaxDocs = 3
  MaxDataRows = 2
  Views = {v1, v2}
  First = v1
  Tables = {v2}
  DocIds = {i1, i2}
  MaxDialogs = 2
SPECIFICATION WindowSpec
INVARIANTS WorkAreaIsSound OptionsAreSound HistoryIsSound CheckIsSound ScriptsAreRead ExportIsSound DocumentsAreSound
PROPERTY WindowSteps
CHECK_DEADLOCK FALSE
