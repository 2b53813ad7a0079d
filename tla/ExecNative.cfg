CONSTANTS
    Word = {0, 1}
    VmStackSize = 4
    MaxWords = 10
SPECIFICATION ExecSpec
INVARIANT NativeMatchesThreaded
CHECK_DEADLOCK FALSE
