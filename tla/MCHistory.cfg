CONSTANTS
    Addr = {alice, pool}
    StakingAddr = pool
    None = None
    MaxUint = 4
    Amounts = {0, 1, 2}
    Spenders = {pool}
    MaxTime = 3
    TicksPerSec = 1
    Heirs = {}
    Deadlines = {}
    BasisPoints = 2
    Year = 1
    Rates = {1, 2}
    Lockups = {1}
SPECIFICATION AuditSpec
INVARIANTS
    PaidIsEarned
    PaidWithinPeak
