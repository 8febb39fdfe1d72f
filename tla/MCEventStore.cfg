\* Two appenders and one subscriber with a buffer of one event, a crash or a
\* failed write.
CONSTANTS
    a1 = a1
    a2 = a2
    s1 = s1
    s2 = s2
    Appenders = {a1, a2}
    Subscribers = {s1}
    BufferSize = 1
    MaxEvents = 4
    MaxFaults = 2
SPECIFICATION FairSpec
INVARIANTS TypeOK AckedSurvives
PROPERTIES ImplementsFeed NeverStalls
CHECK_DEADLOCK FALSE
