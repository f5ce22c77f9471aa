CONSTANTS
    pad1 = pad1
    pad2 = pad2
    Pads <- MCPads
    Indices <- MCIndices
    MaxPresses = 1
SPECIFICATION FairSpec
INVARIANTS
    TypeOK
    LightShowsPlayer
    PauseNeedsPress
PROPERTIES
    ReportsStart
    LightArrives
