CONSTANTS
    EngineClass <- Engine
    Known <- Fallback
    StaticCompat = FALSE
    Ttl = 1
    Payloads <- Some
    TestNames = {"TEST"}
    MaxTime = 3
    MaxUploads = 1
SPECIFICATION Spec
INVARIANTS
    BilledAsCaptured
PROPERTIES
    PromiseKept
    WeightNotForgotten
CHECK_DEADLOCK FALSE
