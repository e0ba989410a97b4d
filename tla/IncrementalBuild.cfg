SPECIFICATION CommandSpec
CONSTANTS
    B1 = B1
    B2 = B2
    App = App
    Lib = Lib
    Build = {B1, B2}
    Component = {App, Lib}
    Reach <- MCReach
    Edited = {Lib}
    Version = {1, 2}
    MaxBuilds = 3
    MaxEdits = 2
    MaxFaults = 1
    MaxEvents = 2
    Nothing = Nothing
    NoDigest = NoDigest
    NoBuild = NoBuild
    Contracts <- MCContracts
    Reexports <- MCReexports
    Words <- MCWords
    Scenes <- MCScenes
    Commands <- MCCommands
    Units <- MCUnits
    MaxCommands <- MCMaxCommands
    MostEdits <- MCMostEdits
    Faultless = {"library"}
    Alone = {"contracts", "tests"}
    Intended <- MCIntended
    Main = App
SYMMETRY Symmetry
INVARIANTS DigestStandsForCache
PROPERTIES CompilesPresentSources ArtifactsCurrent
CHECK_DEADLOCK FALSE
