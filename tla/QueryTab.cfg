CONSTANTS
  one = one
  two = two
  three = three
  aggr = aggr
  mixed = mixed
  bad = bad
  NoScript = none
  Scripts = {aggr, two, three}
  PartsOf <- MCPartsOf
  QuerySkip = 1
  MaxRuns = 2
  MaxPages = 2
  MaxSkip = 2
SPECIFICATION Spec
INVARIANTS PagesAreShownRight RunsAreTold
PROPERTY ProgressEnds
\* The user has done all the bounds allow, and nothing is left to do.
CHECK_DEADLOCK FALSE
