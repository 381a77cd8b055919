CONSTANTS
  Sizes = {s1, s2}
  Floor = Floor
  Default = Default
  MaxMoves = 8
  Handles = {1, 2, 3}
  MaxChecks = 2
  Known <- MCKnown
  OnServer <- MCOnServer
  MaxLine = 5
  MaxKeys = 4
  MaxAsked = 2
  PageSizes = {3}
  Skips = {0, 1}
  Batches = {0, 2}
  MaxPages = 1
  Names = {"a", "b"}
  MaxAsks = 2
SPECIFICATION AnswersSpec
INVARIANTS FrameIsSound NoticesAreSound CompletionIsSound ViewsAreSound TreeIsSound
PROPERTIES OnlyTheTokenIsReplaced OwedComes
CHECK_DEADLOCK FALSE
