CONSTANTS
    Arch = "arm"
    AuditSize = 2
    Names = {f}
    NoName = NoName
    MaxFns = 1
    FnBodyWords = 8
    VmStackSize = 64
    MaxStreamWords = 9
    MaxLoopUnroll = 2
    LoopCounts = {}
    MaxNesting = 0
    Vals <- MCVals
    MaxRecorded = 3
    Word <- MCWord
    StoredBodies <- MCStored
    UsedCaps = {"GPIOA", "TIMER0", "SPI0", "SUPERUSER"}
SPECIFICATION Spec
INVARIANTS StreamReadsAdmitted LogHoldsLatest AuthorityHeldUntilExecuted DirectAccessAuthorised DriverAccessAuthorised
