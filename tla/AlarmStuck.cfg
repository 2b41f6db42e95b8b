SPECIFICATION AlarmSpec
CONSTANTS
    Owner = {o1}
    Id = {1}
    Whens = {1}
    Repeats = {0, 1}
    MaxTime = 2
    I64Max = 3
    U64Max = 7
    Faults = {"launch"}
PROPERTY DueFires
