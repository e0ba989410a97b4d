SPECIFICATION ScenesSpec
CONSTANTS
    R1 = R1
    R2 = R2
    Panic1 = Panic1
    Panic2 = Panic2
    NotJson = NotJson
    W1 = W1
    W2 = W2
    NoLine = NoLine
    Line = {R1, R2, Panic1, Panic2, NotJson}
    Garbage = {NotJson}
    Poison = {Panic1, Panic2}
    Worker = {W1, W2}
    StdinCapacity = 2
    StdoutCapacity = 1
    App = App
    Dep = Dep
    Component = {App, Dep}
    Expansions <- MCExpansions
    Units <- MCUnits
    Results <- MCResults
    Missing = Missing
    MaxOffset = 6
    WordSize = 13
    NoChild = NoChild
    Connection = {"oracle"}
    Child = {p1, p2}
    MaxCalls = 3
    MaxLines = 3
    U1 = U1
    U2 = U2
    U3 = U3
    Caller = {t1, t2}
    MaxExpansions = 2
    User = {U1, U2, U3}
    TasksOf <- MCTasksOf
    Executables <- MCExecutables
    MaxId = 2
    MaxAccidents = 2
    Absent = Absent
    Partial = Partial
    Whole = Whole
    A = A
    B = B
    S1 = S1
    S2 = S2
    Root = Root
    Elsewhere = Elsewhere
    All = All
    Nothing = Nothing
    Members <- MCMembers
    FeaturesOf <- MCFeatures
    Targets <- MCTargets
    Scripts <- MCScripts
    Installed <- MCInstalled
    PathDirs <- MCPath
    Typed <- MCTyped
INVARIANTS AnsweredOnce Drained MacrosExpanded DataDelivered SpansReturn
    AnsweredAsAsked NoneLeftRunning ProofsOfWholeRuns MemoryIsLive DoneAsAsked
PROPERTIES Returns Served
