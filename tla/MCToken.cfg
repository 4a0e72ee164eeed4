CONSTANTS
    Addr = {alice, bob}
    None = None
    MaxUint = 3
    Amounts = {0, 1, 2, 3}
    Spenders = {alice, bob}
    MaxGranted = 2
SPECIFICATION AllowancesSpec
INVARIANTS
    TokenTypeOK
    SupplyIsSumOfBalances
    CreditNeverPanics
    BurnNeverUnderflows
    DrawnWithinGrants
PROPERTIES
    NoMinterIsFinal
    DebitNeedsConsent
