CONSTANTS
    h1 = h1
    h2 = h2
    Handlers <- MCHandlers
    Patterns <- MCPatterns
    Topics <- MCTopics
    MaxSubs = 3
    MaxMsgs = 2
    MaxConns = 2
SYMMETRY Sym
SPECIFICATION Spec
INVARIANT TypeOK
INVARIANT SubscribedWhenConnected
INVARIANT LabelSettled
PROPERTY RegistryRefined
CHECK_DEADLOCK FALSE
