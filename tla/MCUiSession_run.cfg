CONSTANTS
    MaxRuns = 2
    Fallible = {1}
    Script <- OneFrame
    BaseDelay = 1
    MaxDelay = 2
    MaxTurns = 2
SPECIFICATION Spec
INVARIANTS TypeOK LogInOrder EndShownIsTrue RunningIsWatched CanvasIsOfActive
PROPERTIES EndReachesUi
