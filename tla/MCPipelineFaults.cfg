CONSTANTS
    None = None
    r1 = r1
    r2 = r2
    w1 = w1
    c1 = c1
    StageCount = 2
    Reconcilers <- MCOneReconciler
    Workers <- MCWorkers
    Cancellers <- MCCancellers
    InitialStatus = "RUNNING"
    Events <- MCFaults
    MaxGeneration = 4
    MaxContainers = 2
SPECIFICATION Spec
INVARIANTS
    TypeOK
    OneContainerPerStage
    HandoffBeforeNextStage
    SucceededMeansAllStages
PROPERTIES
    TerminalIsFinal
