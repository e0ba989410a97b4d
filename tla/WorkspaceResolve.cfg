SPECIFICATION WorkspaceFair
CONSTANTS
    R = R
    S = S
    A = A
    P = P
    T = T
    C = C
    rangeR = rangeR
    depA = depA
    lockA = lockA
    depS = depS
    depP = depP
    gitP = gitP
    devT = devT
    depC = depC
    default = default
    f = f
    g = g
    h = h
    NoPackage = NoPackage
    NoKey = NoKey
    NoGroup = NoGroup
    NotADependency = NotADependency
    Package = {R, S, A, P, T, C}
    Root = {R, S}
    NoCore = {T, C}
    Key = {rangeR, depA, lockA, depS, depP, gitP, devT, depC}
    CoreKey = depC
    Dependencies <- MCDependencies
    TestOnly = {devT}
    RangeKeys <- MCRangeKeys
    Locked <- MCLocked
    Rewritten <- MCRewritten
    Answer <- MCAnswer
    MayFail = {gitP}
    MayBeEmpty = {lockA}
    Capacity = 4
    DepKind <- MCDepKind
    Flag <- MCFlag
    DefaultFeature = default
    Invocations <- MCInvocations
INVARIANTS OkMeansAnswered ThreadNeverPanics
    LocksKept FeaturesUnified UnitsClosed PrebuiltAgreed
PROPERTIES CommandEnds
