SPECIFICATION KernelSpec
CONSTANTS
    NumPools = 2
    TaskPoolSize = 5
    Modulus = 64
    Sizes = {0, 1, 2, 3, 5, 6, 62}
    MaxBlocks = 3
    SymbolNames = {n1, n2, n3, n4}
    NoSymbol = NoSymbol
    Values = {v1, v2}
    NoValue = NoValue
    SymbolSlots = 3
    WordBits = 2
    WindowWords = 2
    MaxBlock = 5
    SuperUser = 0
    Behind = {4}
    Tasks = {a1, a2}
    Ports = {p1}
    SuperUserCap = SuperUserCap
    Pins = {0, 1}
    MaxGrants = 1
    Names <- MCNames
    NoName = NoName
    MaxFns = 2
    FnBodyWords = 2
    Bodies <- MCBodies
    NameMax = 2
    SlotWords = 3
    MaxPrograms = 2
    PowerOn <- MCPowerOn
    CoreWords = 3
    NumIrqs = 2
    PendSV = 1
    SysTick = 2
    FaultSlots = {0}
    IrqLine = 1
    Jit = {"f1"}
    Bytes = {"0", "1", "f", "n", "x", "_", " ", "+", "@"}
    MaxLine = 5
    LiteralBound = 100
    Tokens = {"0", "2", "x", "name", "peek", "(", ")", "-", "/", "="}
    LitVal <- Literals
    Symbols <- Bindings
    Cells <- Memory
    WordMod = 8
    MaxTokens = 7
    Word = {0, 1, 2}
    VmStackSize = 4
    MaxWords = 13
    Encoded <- EncodedWords
    BufferUnits = 16
    Targets = {"thumb2", "riscv32"}
    Regs = {1, 7, 8}
    Imms <- EdgeImms
    CapWords = 5
    MaxOps = 2
    Costs = {0, 1, 2, 3}
    HigherSets <- SmallSets
    Deadlines = {2, 7, 15}
    MaxRounds = 4
    UsizeMod = 16
INVARIANTS
    LexedExactly
    EvaluatedAsDerived
    NativeMatchesOnOneTarget
    MachineCodeIsNative
    TraitKeptExceptWrong
    AnswerIsResponseTime
    BlocksExclusive
    LookupIsLatest
    RefusedOnlyWhenFull
    OkBlocksWereSet
    ErrBlockWasClear
    ClaimsExclusive
    NoMixedBodies
    DispatchIsLatest
PROPERTIES
    OutputsKept
    SlotsNotReused
    SavedWhole
