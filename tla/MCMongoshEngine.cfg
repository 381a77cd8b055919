CONSTANTS
  a = a
  b = b
  broken = broken
  usesB = usesB
  Dbs = {a, b}
  DefaultDb = a
  NoDb = none
  Scripts = {broken, usesB}
  Malformed = {broken}
  SwitchesTo <- MCSwitchesTo
  PreambleMayFail = TRUE
  MaxId = 3
SPECIFICATION Spec
INVARIANTS TypeOK OwnFrame ResultsAreOfARun RunsInRequestedDb
PROPERTIES CallsReturn ImplementsScriptCall
