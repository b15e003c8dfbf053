SPECIFICATION Spec
CONSTANTS
    BlockTime <- MCBlockTime
    MinBlockTimeInMs = 1
    Millisecond = 3
    MaxDuration = 7
    Request = {r1, r2}
    NumOfShards = 3
INVARIANTS
    AnnouncedIsAccessible
