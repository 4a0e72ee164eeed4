CONSTANTS
    r1 = r1
    r2 = r2
    r3 = r3
    Runs = {r1, r2, r3}
    Stranger = stranger
    InitialCodes = 0
    MaxCodes = 1
    Supply = 1
    Settings <- CalmAndStorm
    FallbackCode = 1
    DefaultCode = 1
    CodeArgs = {0, 2}
    DefaultContract = 1
    TransferArgs = {1}
    DefaultScan = 2
    ScanArgs = {0, 3}
    LookupArgs = {1, 2}
SPECIFICATION FairSpec
INVARIANTS
    TypeOK
    OneInFlight
    SentOnce
    ForeignOnlyAfterFallback
    ReportedContractIsOwn
    SuccessIsComplete
    LatestCodeIsOurs
    TxReportIsTrue
PROPERTIES
    ImplementsRollout
    EveryRunEnds
    SomeDeploymentSucceeds
CHECK_DEADLOCK FALSE
