SPECIFICATION Spec
CONSTANTS
    Roles <- TwoRoles
    Replicas <- TwoWorkers
    Spec4Role <- PsWorker
    Policy <- WorkersDecide
    Dependence <- WorkerWaits
    Gang = TRUE
    Refusable = {"worker"}
    MaxDisturb = 1
    MaxFault = 1
    MaxRestart = 1
INVARIANTS
    TypeOK
    PublishedIsStored
    StatusInv
PROPERTIES
    StatusNeverGoesBack
    FinishedIsFinal
    ImplementsPromise
