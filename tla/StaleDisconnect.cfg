SPECIFICATION Spec
CONSTANTS
  MaxConnects = 2
  MaxDisconnects = 1
  MaxKeys = 1
  MaxFailures = 1
PROPERTIES OldCallbacksAreInvalid
CHECK_DEADLOCK FALSE
