CONSTANTS
    Addr = {alice, bob, pool}
    StakingAddr = pool
    None = None
    MaxUint = 3
    Amounts = {0, 1, 2}
    Spenders = {pool}
    MaxTime = 3
    TicksPerSec = 2
    Heirs = {}
    Deadlines = {}
    BasisPoints = 2
    Year = 1
    Rates = {1}
    Lockups = {1}
SPECIFICATION Spec
INVARIANTS
    TypeOK
    TotalStakedIsSumOfStakes
    Solvent
    Backed
    PayoutNeverBounces
    PoolIsNeverApproved
    EntriesArePast
PROPERTIES
    WealthIsKept
    MinterIsAbsorbed
    ImplementsVault
