SPECIFICATION FairSpec
CONSTANTS
    R = R
    A = A
    B = B
    C = C
    D = D
    T = T
    rangeR = rangeR
    rangeA = rangeA
    rangeB = rangeB
    rangeC = rangeC
    depA = depA
    lockA = lockA
    depB = depB
    gitB = gitB
    depC = depC
    depD = depD
    depT = depT
    rangeD = rangeD
    NoPackage = NoPackage
    NoKey = NoKey
    Package = {R, A, B, C, D, T}
    Root = {R}
    NoCore = {C}
    Key = {rangeR, rangeA, rangeB, rangeC, depA, lockA, depB, gitB, depC,
           depD, depT, rangeD}
    CoreKey = depC
    Dependencies <- MCDependencies
    TestOnly = {depT}
    RangeKeys <- MCRangeKeys
    Locked <- MCLocked
    Rewritten <- MCRewritten
    Answer <- MCAnswer
    MayFail = {}
    MayBeEmpty = {}
    Capacity = 2
PROPERTY Resolves
CHECK_DEADLOCK FALSE
