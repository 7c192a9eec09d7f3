CONSTANTS
    MaxRuns = 2
    Fallible = {1}
    Script <- OneFrame
    BaseDelay = 1
    MaxDelay = 2
    MaxTurns = 1
SPECIFICATION Spec
INVARIANTS ActiveRunIsWatched
