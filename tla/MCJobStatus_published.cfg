SPECIFICATION FairSpec
CONSTANTS
    Roles <- TwoRoles
    Replicas <- OneReplica
    Spec4Role <- Static
    Policy <- AllDecide
    Dependence <- WorkerWaits
    Gang = FALSE
    Refusable = {}
    MaxDisturb = 0
    MaxFault = 1
    MaxRestart = 0
PROPERTIES
    FinishedRoleIsPublished
