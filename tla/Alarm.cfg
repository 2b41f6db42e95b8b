SPECIFICATION AlarmSpec
CONSTANTS
    Owner = {o1}
    Id = {0, 4}
    Whens = {1}
    Repeats = {0, 1, 6}
    MaxTime = 2
    I64Max = 3
    U64Max = 7
    Faults = {}
INVARIANT AlarmTypeOK
INVARIANT CrashLosesNothing
PROPERTY PeriodKept
PROPERTY DueFires
