\* A movie is approved or imported and goes no further by itself: one threshold
\* runs out; a search fails, the process dies or the user retries.
SPECIFICATION FairSpec
CONSTANTS
  NoError = NoError
  AnError = AnError
  ReportStages = {"approved", "imported"}
  MaxStalls = 1
  MaxUpsets = 1
  MaxAttempts = 2
INVARIANTS
  RetriesAreEarned
  NoFalseBadge
PROPERTIES
  StallIsRetried
  OnDiskIsAvailable
  ReleaseEndsWait
CHECK_DEADLOCK FALSE
