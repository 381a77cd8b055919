CONSTANTS
  Main = main
  Objs = {o1, o2}
  Slots = {w}
  Types = {e}
  AnySender = any
  MaxInc = 2
  MaxThreads = 2
  MaxSubs = 1
  MaxPosted = 1
  MaxDepth = 2
SPECIFICATION Spec
INVARIANTS HandlersRunAtHome BusOK
PROPERTY PostedIsDelivered
\* The user has done all the bounds allow, and nothing is left to do.
CHECK_DEADLOCK FALSE
