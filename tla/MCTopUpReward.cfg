CONSTANTS
    Addr = {alice, pool}
    StakingAddr = pool
    None = None
    MaxUint = 6
    Amounts = {1, 2}
    Spenders = {pool}
    MaxTime = 4
    TicksPerSec = 1
    Heirs = {}
    Deadlines = {}
    BasisPoints = 1
    Year = 1
    Rates = {1}
    Lockups = {2}
SPECIFICATION AuditSpec
INVARIANT PaidAtTheRate
