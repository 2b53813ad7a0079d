SPECIFICATION RtaSpec
CONSTANTS
    Costs = {101}
    HigherSets <- AlmostFull
    Deadlines = {12000}
    MaxRounds = 100
    UsizeMod = 1073741824
INVARIANT NoneIfNotSchedulable
CHECK_DEADLOCK FALSE
