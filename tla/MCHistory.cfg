\* Pages of two records, two to a pass; of six records two may have the date of
\* the one before them; one crash.
SPECIFICATION FairSpec
CONSTANTS
  PageSize = 2
  MaxPages = 2
  Relevant = {2, 4, 6}
  Ties = {3, 4}
  MaxRecords = 6
  MaxCrashes = 1
INVARIANTS
  NothingPassedOver
PROPERTIES
  WindowHonoured
  RecordArrives
