SPECIFICATION FairSpec
CONSTANTS
    Roles <- TwoRoles
    Replicas <- OneReplica
    Spec4Role <- PsWorker
    Policy <- WorkersDecide
    Dependence <- WorkerWaits
    Gang = TRUE
    Refusable = {}
    MaxDisturb = 1
    MaxFault = 1
    MaxRestart = 1
PROPERTIES
    EventuallyRunning
    RunningIsPublished
    EvictionFailsJob
    NodeDownFailsRole
    FinishedIsCleanedUp
