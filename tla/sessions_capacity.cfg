\* Three sessions in a store of two.
SPECIFICATION Spec
CONSTANTS
  s1 = s1
  s2 = s2
  s3 = s3
  Sid <- ThreeSessions
  Zone <- TwoZones
  Polled = {s1}
  ZoneOf <- ThreeInTwoZones
  MaxSessions = 2
  TTL = 0
INVARIANTS
  TypeOK
  ResultsAreFound
PROPERTIES
  NeverBackToProcessing
  ZonePollsGoForward
