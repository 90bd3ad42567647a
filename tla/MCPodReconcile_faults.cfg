SPECIFICATION Spec
CONSTANTS
    Roles <- OneRole
    Restart4Role <- ExitCode
    InitReplicas <- OneReplica
    Exits = {"Failed", "FailedRetryable"}
    MayFinish = TRUE
    MaxReplicas = 1
    MaxGen = 2
    MaxDisturb = 1
    MaxScale = 0
    MaxRestart = 1
    MaxFault = 2
INVARIANTS
    IInv
