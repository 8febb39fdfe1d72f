\* One attempt, two callers of HandleResult, Cancel and Finalize; no faults.
CONSTANTS
    None = None
    a1 = a1
    a2 = a2
    l1 = l1
    l2 = l2
    h1 = h1
    h2 = h2
    Attempts = {a1}
    Launchers = {l1}
    Handlers <- MCTwoHandlers
    Events = {}
SPECIFICATION Spec
PROPERTY
    TerminalAttemptIsFinal
