CONSTANTS
    Addr = {alice, bob}
    None = None
    MaxUint = 0
    Amounts = {}
    MaxTime = 2
    TicksPerSec = 1
    Heirs = {alice, bob}
    Deadlines = {1, 3}
    MaxInt = 3
    Counts <- CountsOfRun
SPECIFICATION Spec
CHECK_DEADLOCK FALSE
INVARIANT CountNeverNegative
PROPERTY RenouncedCountIsFrozen
