SPECIFICATION TimerSpec
CONSTANTS
    Roles <- OneRole
    Restart4Role <- OnFailure
    InitReplicas <- TwoReplicas
    Exits = {"Failed"}
    MayFinish = FALSE
    MaxReplicas = 2
    MaxGen = 1
    MaxDisturb = 1
    MaxScale = 1
    MaxRestart = 0
    MaxFault = 1
PROPERTIES
    EventuallyTrimmed
