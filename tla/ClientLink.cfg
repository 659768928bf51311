SPECIFICATION Spec
CONSTANTS
  MaxConnects = 2
  MaxDisconnects = 1
  MaxKeys = 1
  MaxFailures = 1
INVARIANTS StreamsAreWhole NeverDeaf WriterNeverSleeps OneOperationEach
PROPERTIES AttemptsEnd
CHECK_DEADLOCK FALSE
