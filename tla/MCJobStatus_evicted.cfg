SPECIFICATION FairSpec
CONSTANTS
    Roles <- OneRole
    Replicas <- OneReplica
    Spec4Role <- Static
    Policy <- AllDecide
    Dependence <- NoDependence
    Gang = TRUE
    Refusable = {}
    MaxDisturb = 2
    MaxFault = 0
    MaxRestart = 1
PROPERTIES
    FailedIsCleanedUp
