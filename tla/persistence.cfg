\* Starts, stops, crashes and failing file operations, over a change of date.
SPECIFICATION FairSpec
CONSTANTS
  t1 = t1
  t2 = t2
  loop = loop
  Zone <- OneZone
  Pool <- TwoThreads
  Loop = loop
  MaxTriggers = 3
  MaxLives = 2
  MaxDay = 1
  KeepDays = 0
  MaxFailures = 1
  Crashes = TRUE
CHECK_DEADLOCK FALSE
INVARIANTS
  TypeOK
  OpenIsRecoverable
  StopKeepsAll
PROPERTIES
  ClosedIsRecorded
