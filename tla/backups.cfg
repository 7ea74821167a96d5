SPECIFICATION FairSpec
CONSTANTS
    None = None
    Torn = Torn
    Timer = Timer
    Triggers = {hand}
    DayOf <- MCDayOf
    Nights = {1, 4}
    MinKeep = 2
    Retention = 2
    MaxRun = 1
    MaxClock = 4
    MaxMembers = 1
    MaxCalls = 2
    MaxFaults = 1
INVARIANTS
    MinimumIsKept
    RecordsDescribeTheBucket
PROPERTIES
    NightlyBackup
CHECK_DEADLOCK FALSE
