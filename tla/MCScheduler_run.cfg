SPECIFICATION FairSpec
CONSTANTS
    Nodes <- MCNodes
    Graphs <- AllGraphs
    MaxSteps = 4
    Keys = {k}
    Absent = Absent
    Banks = {b1, b2}
    AsyncBanks = {b1}
    OneShot = TRUE
INVARIANTS TypeOK BudgetsHold BatchesAccounted TerminatedByTruthful
    StartsFollowEdges OrphansAccounted WritebackOrdered
PROPERTIES OnlyOnward KeepsContract RunSettles
