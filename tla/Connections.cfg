CONSTANTS
  Ways = {"direct", "ssh", "set"}
  Uses = {"Primary", "Secondary", "Test"}
  MaxHandles = 2
  MaxRefresh = 1
SPECIFICATION Spec
INVARIANT ServersAreOwned
PROPERTY AttemptsEnd
\* The user has done all the bounds allow, and nothing is left to do.
CHECK_DEADLOCK FALSE
