SPECIFICATION Spec
CONSTANTS
    NoKey = NoKey
    Query = {Q1, Q2}
    Version = {V1, V2}
    Matches <- OneIsSelective
    MaxChanges = 2
    MaxSessions = 1
INVARIANTS FreshAnswer
CHECK_DEADLOCK FALSE
