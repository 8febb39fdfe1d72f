\* Two callers, RPCs with one key or without, or cron goroutines; two
\* cancellations; two schedules of one agent that forbid concurrency.
CONSTANTS
    c1 = c1
    c2 = c2
    x1 = x1
    x2 = x2
    k1 = k1
    h1 = h1
    h2 = h2
    s1 = s1
    s2 = s2
    agent = agent
    None = None
    Clients = {c1, c2}
    Cancellers = {x1, x2}
    Keys = {k1}
    Hashes = {h1, h2}
    Schedules = {s1, s2}
    AgentOf <- MCAgentOf
    Forbid = {s1, s2}
    MaxRuns = 4
    MaxMinutes = 1
    MaxProgress = 2
    Outcomes = {"run_succeeded"}
    BusBuffer = 1
    MaxFaults = 1
    MaxExpiries = 1
SYMMETRY MCSymmetry
SPECIFICATION Spec
INVARIANTS TypeOK FeedWellFormed StartedOnce OneCancelOutcome ForbidRespected
PROPERTY FinishedStays
CHECK_DEADLOCK FALSE
