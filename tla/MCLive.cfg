CONSTANTS
    Addr = {alice, bob, pool}
    StakingAddr = pool
    None = None
    MaxUint = 8
    Amounts = {1, 2}
    Spenders = {pool}
    MaxTime = 2
    TicksPerSec = 1
    Heirs = {}
    Deadlines = {}
    BasisPoints = 2
    Year = 1
    Rates = {1}
    Lockups = {1}
    MintCap = 2
SPECIFICATION LiveSpec
PROPERTIES
    MaturedStakeIsServed
    NoRewardNeedsNoMinter
