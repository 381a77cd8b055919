CONSTANTS
  c1 = c1
  c2 = c2
  Clients = {c1, c2}
  MaxData = 1
  MaxWire = 1
  MaxErrors = 2
SPECIFICATION Spec
INVARIANT TunnelKeepsData
PROPERTY TunnelServes
CHECK_DEADLOCK FALSE
