SPECIFICATION Spec
CHECK_DEADLOCK FALSE
CONSTANTS
  ToleranceGrams = 5
  MaxCombinationKinds = 3
  MaxCombinationSize = 5
  MaxCountPerItem = 10
  MaxCombinations = 100
  SameProductMax = 8
  MultiKindMinConf = 18
  MinWeightChange = 5
  TopK = 10
  SameProductTolerance = 5
  MaxCombinationItems = 5
  MaxItemsPerSegment = 3
  DetectedSingleTolerance = 8
  DetectedSingleMinVotes = 4
  RescueTolerance = 8
  NoMotionMinRawVotes = 8
  NoMotionMaxResidual = 2
  NearestSingleMargin = 10
  Shelves = {1, 2, 3}
  SegmentCounts = {0, 1}
  MaxTaken = 3
  Offsets = {0, 3, 7}
INVARIANTS
  SearchMatchesDefinition
  ExplainableIsBilled
  BillWeighsOrIsOneSeen
  BilledWasSeenAndInStock
