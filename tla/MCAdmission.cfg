\* Idempotency: two concurrent RPCs with one key, an alias that moves between a
\* standalone and a pipeline deployment, crashes and write failures.
CONSTANTS
    d1 = d1
    d2 = d2
    a1 = a1
    k1 = k1
    k2 = k2
    w1 = w1
    w2 = w2
    w3 = w3
    c1 = c1
    c2 = c2
    u1 = u1
    u2 = u2
    i1 = i1
    None = None
    Deployments = {d1, d2}
    Aliases = {a1}
    Keys = {k1}
    Inputs = {i1}
    Workflows = {w1, w2}
    Clients = {c1, c2}
    Updaters = {}
    MaxConcurrentRuns <- MCOneSlot
    Pipelines = {d2}
    NodeRunFiles = 2
    DeploymentStatuses = {"ACTIVE", "INACTIVE"}
    StatusesWritten = {}
    MaxGeneration = 1
SYMMETRY MCSymmetry
SPECIFICATION Spec
INVARIANTS TypeOK PublishedIsComplete OneInvocationPerKey
PROPERTY ImplementsService
