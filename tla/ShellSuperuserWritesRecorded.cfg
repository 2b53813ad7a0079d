CONSTANTS
    Arch = "arm"
    AuditSize = 2
    Names = {f}
    NoName = NoName
    MaxFns = 1
    FnBodyWords = 5
    VmStackSize = 64
    MaxStreamWords = 6
    MaxLoopUnroll = 2
    LoopCounts = {}
    MaxNesting = 0
    Vals <- MCVals
    MaxRecorded = 3
    Word <- MCWord
    StoredBodies <- MCStored
    UsedCaps = {"GPIOA", "SUPERUSER"}
SPECIFICATION Spec
PROPERTY SuperuserWritesRecorded
