\* One service that changes three times, one failure or restart.
SPECIFICATION FairSpec
CONSTANTS
  Services = {s1}
  QueueCap = 1
  DownAfter = 1
  DegradedAfter = 2
  MaxChanges = 3
  MaxFaults = 1
  NoIncident = NoIncident
INVARIANTS
  LastWordStands
PROPERTIES
  OncePerIncident
  OutageIsTold
  DashboardCatchesUp
  HandlersReleased
CHECK_DEADLOCK FALSE
