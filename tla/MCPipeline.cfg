CONSTANTS
    None = None
    r1 = r1
    r2 = r2
    w1 = w1
    c1 = c1
    StageCount = 2
    Reconcilers <- MCReconcilers
    Workers <- MCWorkers
    Cancellers = {}
    InitialStatus = "RUNNING"
    Events <- MCPauses
    MaxGeneration = 4
    MaxContainers = 2
SYMMETRY Symmetry
SPECIFICATION Spec
INVARIANTS
    StagesInOrder
    HandoffBeforeNextStage
    SucceededMeansAllStages
