CONSTANTS
  one = one
  two = two
  three = three
  aggr = aggr
  mixed = mixed
  bad = bad
  NoScript = none
  Scripts = {three}
  PartsOf <- MCPartsOf
  QuerySkip = 0
  MaxRuns = 1
  MaxPages = 1
  MaxSkip = 1
SPECIFICATION Spec
INVARIANT PagesReachTheirPart
\* The user has done all the bounds allow, and nothing is left to do.
CHECK_DEADLOCK FALSE
