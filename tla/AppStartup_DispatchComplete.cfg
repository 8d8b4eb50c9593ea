CONSTANTS
    hHealth = hHealth
    hCtlState = hCtlState
    hCtlResp = hCtlResp
    hCtlEvent = hCtlEvent
    hPrvState = hPrvState
    HealthH <- hHealth
    CtlStateH <- hCtlState
    CtlRespH <- hCtlResp
    CtlEventH <- hCtlEvent
    PrvStateH <- hPrvState
    Handlers <- MCAppHandlers
    Patterns <- MCAppPatterns
    Topics <- MCAppTopics
    MaxSubs = 5
    MaxMsgs = 2
    MaxConns = 2
SPECIFICATION AppSpec
PROPERTY DispatchComplete
CHECK_DEADLOCK FALSE
