\* One request, one entry in Radarr: a removal that stops half-way and is
\* repeated, and a grab reported late.
SPECIFICATION Spec
CONSTANTS
  None = None
  Removers = {r1}
  SeerrIds = {k1}
  Other = u
  Jobs = {j1}
  MaxArr = 1
  MaxId = 2
  MaxFaults = 1
PROPERTIES
  LateEventsIgnored
CHECK_DEADLOCK FALSE
