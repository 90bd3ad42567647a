SPECIFICATION Spec
CONSTANTS
    Roles <- TwoRoles
    Restart4Role <- Mixed
    InitReplicas <- OneReplica
    Exits = {"Failed"}
    MayFinish = FALSE
    MaxReplicas = 1
    MaxGen = 2
    MaxDisturb = 1
    MaxScale = 0
    MaxRestart = 0
    MaxFault = 0
INVARIANTS
    TypeOK
    NoDuplicatePods
    ExpectationsCover
