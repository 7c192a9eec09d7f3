CONSTANTS
    Files <- SomeFiles
    MaxDrops = 2
    MaxNodes = 2
    MaxEdges = 2
SPECIFICATION Spec
INVARIANTS TypeOK HandedOutIsLoadable RoundTrip CanvasIsSound PanelIsOfCanvas
