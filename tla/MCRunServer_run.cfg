SPECIFICATION FairSpec
CONSTANTS
    Requests = {r1, r2, r3}
    Clients = {c1}
    MaxTasks = 3
    Length = 2
INVARIANTS TypeOK StatusIsTrue FinishedOnce
PROPERTIES ExecutingRunIsReported Settles
