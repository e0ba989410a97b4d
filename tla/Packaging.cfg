SPECIFICATION ScenesSpec
CONSTANTS
    P1 = P1
    P2 = P2
    E1 = E1
    C1 = C1
    Process = {P1, P2}
    OneAtATime = TRUE
    Unverified = {P2}
    NoFile = NoFile
    Elsewhere = {E1}
    Client = {C1}
    Version = {"0.9", "1.0"}
    PackagesOf <- MCPackagesOf
    AllowDirty = TRUE
    NoArchive = NoArchive
    Partial = Partial
    Mixed = Mixed
    M1 = M1
    M2 = M2
    M3 = M3
    X = X
    Y = Y
    Absent = Absent
    Inherit = Inherit
    Failed = Failed
    Directory <- MCDirectory
    TestFiles <- MCTestFiles
    Setting = {X, Y}
    DevSetting = X
    Hidden <- MCHidden
    Command = {M1, M2, M3}
    CallsOf <- MCCallsOf
    Original <- MCOriginal
    MaxCuts = 1
    G = G
    H = H
    NoGroup = NoGroup
    Programs <- MCPrograms
    RootCrate <- MCRootCrate
INVARIANTS FinalIsWhole ArchivesStandAlone
    RecordedArchives InstalledAsRecorded
    EditsApplied OneWorkspace InheritedAlike LinksLead
CHECK_DEADLOCK FALSE
