SPECIFICATION Spec
CONSTANTS
    Process = {P1, P2}
    OneAtATime = FALSE
    Unverified = {P2}
    NoFile = NoFile
INVARIANT ScriptAlone
