\* A run that is started twice, two attempts, one caller at a time; errors of
\* the store and of the journals in launches and in Reconcile, results and
\* journal events that cannot be saved.
CONSTANTS
    None = None
    a1 = a1
    a2 = a2
    l1 = l1
    l2 = l2
    h1 = h1
    h2 = h2
    Attempts <- MCAttempts
    Launchers <- MCLaunchers
    Handlers <- MCHandlers
    Events = {"crash", "reconcile_error", "save_error", "journal_error", "launch_error", "finalize_run"}
SPECIFICATION Spec
SYMMETRY Symmetry
INVARIANTS
    TypeOK
    SuccessNeedsVerifiedResult
    NoActiveLeaseAfterRestart
PROPERTY
    SuccessIsConsistent
    RunSuccessNeedsVerifiedResult
