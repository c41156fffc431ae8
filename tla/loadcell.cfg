CONSTANTS
    Window = 5
    Threshold = 15
    MinChange = 5
    PairTolerance = 5
    EndpointMinSamples = 10
    EndpointMargin = 15
    Loads <- TwoChannels
    Lengths = {1, 3, 6}
    MaxHolds = 4
SPECIFICATION Spec
INVARIANTS
    RestIsRead
    MovementsExplainNet
    RemovalIsCharged
CHECK_DEADLOCK FALSE
