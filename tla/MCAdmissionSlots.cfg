\* Slots: one deployment with one slot, two keys, one admission at a time
\* against two workflow drivers that pause and resume.
CONSTANTS
    d1 = d1
    d2 = d2
    a1 = a1
    k1 = k1
    k2 = k2
    w1 = w1
    w2 = w2
    w3 = w3
    c1 = c1
    c2 = c2
    u1 = u1
    u2 = u2
    i1 = i1
    None = None
    Deployments = {d1}
    Aliases = {}
    Keys = {k1, k2}
    Inputs = {i1}
    Workflows = {w1, w2}
    Clients = {c1}
    Updaters = {u1, u2}
    MaxConcurrentRuns <- MCOneSlot
    Pipelines = {}
    NodeRunFiles = 1
    DeploymentStatuses = {}
    StatusesWritten = {"RUNNING", "PAUSE_REQUESTED", "PAUSED"}
    MaxGeneration = 5
SYMMETRY MCSymmetry
SPECIFICATION Spec
INVARIANTS QuotaRespected NoSegmentWhileFrozen
PROPERTY OnlyLegalTransitions
