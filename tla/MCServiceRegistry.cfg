\* Two callers and a tool call, two services of which one is called, two starts.
CONSTANTS
    s1 = s1
    s2 = s2
    p1 = p1
    p2 = p2
    k1 = k1
    k2 = k2
    b1 = b1
    None = None
    Order <- TwoServices
    Used = {s1}
    Procs = {p1, p2}
    Calls = {k1}
    BoundIds = {b1}
    Concurrency = 1
    MaxGeneration = 2
    MaxContainers = 2
    MaxCallIds = 1
    MaxFaults = 1
SYMMETRY MCSymmetry
SPECIFICATION Spec
INVARIANTS TypeOK OneContainerPerGeneration ReadyWasAttached
CHECK_DEADLOCK FALSE
