\* The detector fails on a frame while the queue is full.
SPECIFICATION FairSpec
CONSTANTS
  Vision <- MCVision
  Hand = 0
  Clips <- MCLongClip
  QueueSize = 2
  Stride = 2
  Faults = {"detect"}
PROPERTY
  FailureIsRaised
CHECK_DEADLOCK FALSE
