CONSTANTS
    h1 = h1
    h2 = h2
    Handlers <- MCHandlers
    Patterns <- MCPatterns
    Topics <- MCTopics
    MaxSubs = 3
    MaxMsgs = 2
    MaxConns = 2
SPECIFICATION Spec
INVARIANT LabelMatchesState
CHECK_DEADLOCK FALSE
