CONSTANTS
    Addr = {alice, bob, pool}
    StakingAddr = pool
    None = None
    MaxUint = 2
    Amounts = {0, 1}
    Spenders = {pool}
    MaxTime = 2
    TicksPerSec = 1
    Heirs = {alice, bob}
    Deadlines = {1, 3}
    BasisPoints = 1
    Year = 1
    Rates = {0, 1}
    Lockups = {0, 1}
SPECIFICATION Spec
PROPERTIES
    MaturityIsKept
    StuckUntilRateFalls
    RenouncedTermsAreFinal
