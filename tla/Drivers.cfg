SPECIFICATION DriversFairSpec
CONSTANTS
    Task = {t1, t2}
    NoTask = NoTask
    Slots = 3
    Producers = {p1}
    Consumers = {c1}
    MaxPush = 5
    Chars = {"a", "b"}
    LineMax = 3
    RxByte = {b0, b1}
    RxRingSize = 3
    MaxBytes = 6
    Transfer = {t1, t2}
    Blank = Blank
    RingSize = 3
    MaxSubmit = 5
    NumTasks = 4
    NumSlots = 2
    CounterMod = 4
    MaxIncs = 1
    MaxIns = 2
INVARIANTS
    ExactlyOnceInOrder
    EchoMatchesLine
    BytesInOrder
    DroppedOnlyWhenFull
    TransfersInOrder
    AnswersAreSafe
    TasksNeverLost
    ReadyIsComplete
    HighRegistersKept
    CounterCountsBody
PROPERTIES
    ImplementsFifo
    EventuallyDelivered
    
    ShellKeepsRunning
