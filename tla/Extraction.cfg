SPECIFICATION CacheSpec
CONSTANTS
    P1 = P1
    P2 = P2
    P3 = P3
    F1 = F1
    F2 = F2
    R1 = R1
    R2 = R2
    Nowhere = Nowhere
    Process = {P1, P2, P3}
    Cleaners = {P3}
    File = {F1, F2}
    MaxCrashes = 1
    Rev = {R1, R2}
    FirstRev = R1
    NoRev = Nowhere
    Scenarios <- MCScenarios
INVARIANTS ReadersFindAll CheckoutsComplete RightRevision SourcesVerified
PROPERTY Served
