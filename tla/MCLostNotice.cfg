\* An episode arrives while the notice of another is on its way.
SPECIFICATION Spec
CONSTANTS
  e1 = e1
  e2 = e2
  Items = {e1, e2}
  NoError = NoError
  NotifyStage = "available"
  ReportStages = {"available"}
  Slots = 4
  MaxAttempts = 2
  Faults = {}
  MaxCycle <- MCOneCycle
  MaxEvents = 1
  MaxMishaps = 0
INVARIANTS
  NothingLost
