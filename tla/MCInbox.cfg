\* One task, two senders and a worker, other events; a channel of one event.
CONSTANTS
    None = None
    t1 = t1
    s1 = s1
    s2 = s2
    w1 = w1
    Tasks = {t1}
    Senders = {s1, s2}
    Workers = {w1}
    TaskOf <- MCTaskOf
    BufferSize = 1
    MaxMessages = 2
    MaxEvents = 1
    MaxFaults = 2
    MaxPurges = 1
SYMMETRY MCSymmetry
SPECIFICATION Spec
CHECK_DEADLOCK FALSE
INVARIANTS
    TypeOK
    AckedSurvives
    NotRedelivered
