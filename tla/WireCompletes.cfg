SPECIFICATION Spec
CONSTANTS
  None = None
  Tls = TRUE
  Names = {"", "s"}
  Starts <- MCStarts
  Stages <- MCStages
  MaxItems = 3
  MaxErrors = 1
  MaxBuffered = 14
INVARIANTS FingerprintIsWhatRan CompletionMeansDone BytesCountedOnce
PROPERTIES CyclesEnd UpstreamCloses
CHECK_DEADLOCK FALSE
