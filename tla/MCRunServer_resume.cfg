SPECIFICATION FairSpec
CONSTANTS
    Requests = {r1, r2}
    Clients = {c1}
    MaxTasks = 2
    Length = 2
PROPERTIES ResumeContinues
