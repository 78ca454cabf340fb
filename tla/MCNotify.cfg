\* Two episodes, one of them upgraded: refusals, timeouts, a failing insert and
\* a crash delay the notice.
SPECIFICATION FairSpec
CONSTANTS
  e1 = e1
  e2 = e2
  Items = {e1, e2}
  NoError = NoError
  NotifyStage = "available"
  ReportStages = {"available"}
  Slots = 4
  MaxAttempts = 2
  Faults = {"error", "timeout", "insert"}
  MaxCycle <- MCMaxCycle
  MaxEvents = 1
  MaxMishaps = 1
INVARIANTS
  RecordedWasDelivered
PROPERTIES
  QuietOnceRecorded
  NoticeKept
  QueuedNoticeArrives
