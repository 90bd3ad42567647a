SPECIFICATION EventSpec
CONSTANTS
    Roles <- OneRole
    Restart4Role <- OnFailure
    InitReplicas <- OneReplica
    Exits = {"Failed"}
    MayFinish = FALSE
    MaxReplicas = 1
    MaxGen = 2
    MaxDisturb = 1
    MaxScale = 0
    MaxRestart = 0
    MaxFault = 2
PROPERTIES
    EventuallyPopulated
