CONSTANTS
    UnitWeight <- Weights
    Tolerance = 3
    FreezerTolerance = 15
    PerItemTolerance = 5
    MaxCountPerItem = 3
    MaxItems = 5
    BaseTolerance = 5
    SingleTolerance = 8
    SameProductMax = 8
    MaxPerSegment = 3
    MaxUnits = 4
    MaxKinds = 3
    Zones = {1, 2}
    Movements <- AllMovements
    MaxEvents = 3
SPECIFICATION Spec
INVARIANTS
    TypeOK
    MovementsAccounted
    ArrivalOrderIsImmaterial
    BillIsFair
    BillWeighsWhatIsHeld
    BillFollowsTheScales
CHECK_DEADLOCK FALSE
