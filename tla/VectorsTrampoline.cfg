SPECIFICATION VectorSpec
CONSTANTS
    CoreWords = 3
    NumIrqs = 2
    PendSV = 1
    SysTick = 2
    FaultSlots = {0}
    IrqLine = 1
    Jit = {"f1"}
INVARIANT TrampolineCallsAttached
