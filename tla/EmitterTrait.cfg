CONSTANTS
    Targets = {"thumb2", "riscv32"}
    Regs = {1, 7}
    Imms = {{}, {0, 3, 7}, {2, 4, 17, 30}}
    CapWords = 5
    MaxOps = 1
SPECIFICATION EmitterSpec
INVARIANT EmittedMeansTrait
CHECK_DEADLOCK FALSE
