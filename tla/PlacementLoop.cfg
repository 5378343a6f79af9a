SPECIFICATION Spec
CONSTANTS
    Asked <- MCAsked
    Fleets <- MCFleets
INVARIANTS
    LoopIsDecide
    ReplicasSpread
CHECK_DEADLOCK FALSE
