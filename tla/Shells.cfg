CONSTANTS
  Conns = {c}
  Hosts = {h, m}
  Dbs = {a, b}
  NoDb = none
  ConfigDb = a
  Sharing = TRUE
  MaxTabs = 3
  MaxRuns = 1
SPECIFICATION Spec
INVARIANT TabsAreServed
PROPERTY EveryScriptRuns
