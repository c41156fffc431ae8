SPECIFICATION FairSpec
CONSTANTS
  Vision <- MCVision
  Hand = 0
  Clips <- MCClips
  QueueSize = 2
  Stride = 2
  Faults = {"open", "read", "short", "detect", "cancel"}
INVARIANTS
  SameAsSequential
  FailClosed
PROPERTY
  EndsOrQueueFull
CHECK_DEADLOCK FALSE
