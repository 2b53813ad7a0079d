CONSTANTS
    Arch = "arm"
    AuditSize = 2
    Names = {f, g, h}
    NoName = NoName
    MaxFns = 2
    FnBodyWords = 6
    VmStackSize = 64
    MaxStreamWords = 9
    MaxLoopUnroll = 2
    LoopCounts = {0, 2, 3}
    MaxNesting = 2
    Vals <- MCVals
    MaxRecorded = 0
    Word <- MCWord
    StoredBodies <- MCStored
    UsedCaps = {"GPIOA"}
SYMMETRY NameSymmetry
SPECIFICATION Spec
INVARIANTS BodiesAdmitted LengthsAgree NamesUnique
PROPERTIES FnsImmutable
