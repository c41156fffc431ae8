\* Every kind of request, with forced finalization, expiry and trace files that
\* cannot be written.
SPECIFICATION Spec
CONSTANTS
  c1 = c1
  c2 = c2
  Clip <- OneClip
  Zone <- OneZone
  ClipZone <- OneClipOneZone
  Readings = {"removal", "return", "unstable_return", "unstable_removal", "low_weight", "repeat"}
  MaxTriggers = 3
  MaxVisits = 1
  QueueMax = 1
  DedupTTL = 0
  DedupMax = 1
  InitialWait = 0
  SubsequentWait = 0
  SessionTimeout = 0
  MaxDuration = 0
  GlobalMaxDuration = 0
  ExpireVisits = TRUE
  BalancedCancel = TRUE
  CooperativeCancel = TRUE
  OperatorFinalize = TRUE
  TraceCanFail = TRUE
INVARIANTS
  TypeOK
  ChargedAtMostOnce
  CompletedIsKept
  LeakedEntriesAreErrors
  AnswersMatchCharges
PROPERTIES
  FinalStatusStays
  CancelledNeverCharged
