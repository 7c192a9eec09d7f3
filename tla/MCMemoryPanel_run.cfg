CONSTANTS
    Items <- TwoItems
    Stored <- TwoItems
    MaxRequests = 3
    MaxTexts = 1
    MaxFaults = 1
SPECIFICATION Spec
INVARIANTS TypeOK InSync TextsStayApart
CHECK_DEADLOCK FALSE
PROPERTIES LoadingEnds
