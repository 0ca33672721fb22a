SPECIFICATION FairSpec
CONSTANTS
    TicksPerSlot = 2
    SlotsPerEpoch = 3
    BlockHardDeadline = 2
    LogsCap = 2
    StartTips <- MCStartTips
    EndTime = 12
    MaxLength = 1
INVARIANTS TypeOK OneBlockPerSlot ParentIsOlder  LogsComplete
PROPERTY EventsAreRun
CHECK_DEADLOCK FALSE
