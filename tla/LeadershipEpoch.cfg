SPECIFICATION Spec
CONSTANTS
    TicksPerSlot = 2
    SlotsPerEpoch = 3
    BlockHardDeadline = 2
    LogsCap = 2
    StartTips <- MCStartTips
    EndTime = 12
    MaxLength = 1
INVARIANT NextEpochIsAhead
CHECK_DEADLOCK FALSE
