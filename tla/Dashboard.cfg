SPECIFICATION Spec
CONSTANTS
  c1 = c1
  c2 = c2
  r1 = r1
  r2 = r2
  Clients <- MCClients
  Requests <- MCRequests
  Alerts <- MCAlerts
  Stream = Stream
  Default = Default
SYMMETRY MCSymmetry
INVARIANTS
  TypeOK
  BroadcastIsRecorded
  AuditIsTheHistory
PROPERTIES
  QuietBroadcastReachesAll
CHECK_DEADLOCK FALSE
