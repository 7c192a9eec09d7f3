SPECIFICATION FairSpec
CONSTANTS
    Names <- MCNames
    Unset = Unset
    Retries = {1}
    MaxEdges = 2
INVARIANTS TypeOK CompileIsExact
PROPERTIES CompileEnds
