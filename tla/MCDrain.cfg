\* Three events, a retry, a cancellation, one failure or crash.
SPECIFICATION FairSpec
CONSTANTS
  NoError = NoError
  MaxEvents = 3
  MaxRetries = 1
  MaxFaults = 1
  BatchSize = 2
INVARIANTS
  OwnAttempt
  PointerCatchesUp
  CompletionReported
  OneHookPerCrash
PROPERTIES
  KeepsLog
  OnlyStaleReadsOverwrite
  EventsProcessed
CHECK_DEADLOCK FALSE
