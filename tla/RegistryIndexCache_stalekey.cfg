SPECIFICATION Spec
CONSTANTS
    NoKey = NoKey
    Query = {Q1}
    Version = {V1, V2}
    Matches <- OneIsSelective
    MaxChanges = 2
    MaxSessions = 2
INVARIANT CurrentAnswer
CHECK_DEADLOCK FALSE
