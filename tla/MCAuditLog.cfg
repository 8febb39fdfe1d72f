\* The daemon and one command, every place a write can stop.
CONSTANTS
    daemon = daemon
    c1 = c1
    NoHash = NoHash
    Daemon = daemon
    Commands = {c1}
    Cadence = 1
    MaxRecords = 5
    MaxFaults = 2
SPECIFICATION Spec
INVARIANTS TypeOK AckedIsChained NoFalseAlarm
PROPERTY ChainedStays
