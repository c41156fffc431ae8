\* The CLOSE gate where nothing notifies the registry about a trigger that is not in it, and progress.
SPECIFICATION FairSpec
CONSTANTS
  c1 = c1
  c2 = c2
  Clip <- TwoClips
  Zone <- OneZone
  ClipZone <- TwoClipsOneZone
  Readings = {"removal", "repeat", "return"}
  MaxTriggers = 3
  MaxVisits = 2
  QueueMax = 1
  DedupTTL = 0
  DedupMax = 2
  InitialWait = 1
  SubsequentWait = 1
  SessionTimeout = 0
  MaxDuration = 0
  GlobalMaxDuration = 0
  ExpireVisits = FALSE
  BalancedCancel = FALSE
  CooperativeCancel = TRUE
  OperatorFinalize = FALSE
  TraceCanFail = FALSE
INVARIANTS
  RegistryMatchesWork
  BilledToOwnVisit
  VisitBillsItsTriggers
PROPERTIES
  EverythingEnds
  CloseWaitsForInFlight
  TransactionKept
