CONSTANTS
    Addr = {alice, bob}
    None = None
    MaxUint = 2
    Amounts = {0, 1, 2}
    Spenders = {alice, bob}
    MaxTime = 2
    TicksPerSec = 1
    Heirs = {alice, bob}
    Deadlines = {1, 3}
SPECIFICATION Spec
INVARIANT TypeOK
PROPERTIES
    ImplementsToken
    RenouncedSupplyNeverGrows
