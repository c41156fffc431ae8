\* A cancelled removal, notified twice, opens the CLOSE gate.
SPECIFICATION Spec
CONSTANTS
  c1 = c1
  c2 = c2
  Clip <- TwoClips
  Zone <- OneZone
  ClipZone <- TwoClipsOneZone
  Readings = {"removal", "return"}
  MaxTriggers = 3
  MaxVisits = 1
  QueueMax = 2
  DedupTTL = 0
  DedupMax = 2
  InitialWait = 1
  SubsequentWait = 1
  SessionTimeout = 0
  MaxDuration = 0
  GlobalMaxDuration = 0
  ExpireVisits = FALSE
  BalancedCancel = TRUE
  CooperativeCancel = TRUE
  OperatorFinalize = FALSE
  TraceCanFail = FALSE
PROPERTIES
  CloseWaitsForInFlight
