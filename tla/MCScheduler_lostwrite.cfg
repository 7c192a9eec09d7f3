SPECIFICATION FairSpec
CONSTANTS
    Nodes <- MCNodes
    Graphs <- DiamondOnly
    MaxSteps = 4
    Keys = {k}
    Absent = Absent
    Banks = {}
    AsyncBanks = {}
    OneShot = FALSE
INVARIANTS BranchWritesSurvive
