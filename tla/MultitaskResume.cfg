SPECIFICATION MultitaskSpec
CONSTANTS
    NumTasks = 4
    NumSlots = 2
    CounterMod = 4
    MaxIncs = 1
    MaxIns = 2
INVARIANT ShellResumesWhole
