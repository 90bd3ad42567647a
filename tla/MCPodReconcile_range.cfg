SPECIFICATION Spec
CONSTANTS
    Roles <- OneRole
    Restart4Role <- OnFailure
    InitReplicas <- ThreeReplicas
    Exits = {}
    MayFinish = FALSE
    MaxReplicas = 3
    MaxGen = 1
    MaxDisturb = 0
    MaxScale = 1
    MaxRestart = 0
    MaxFault = 1
PROPERTIES
    CreatesInRange
