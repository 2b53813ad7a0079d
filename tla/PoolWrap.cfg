SPECIFICATION PoolSpec
CONSTANTS
    NumPools = 2
    TaskPoolSize = 5
    Modulus = 64
    Sizes = {0, 1, 3, 5, 6, 63}
    MaxBlocks = 4
INVARIANT FullWhenTooLarge
