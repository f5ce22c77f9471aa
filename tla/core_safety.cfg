CONSTANTS
    pad1 = pad1
    pad2 = pad2
    unknownPad = unknownPad
    released = released
    pressed = pressed
    Null = Null
    MaxHandle = 2
    Capacity = 2
    Pads <- MCTwoPads
    Recognised <- MCRecognised
    Inputs <- MCInputs
    Released = released
    Indices <- MCUnsetOnly
SPECIFICATION Spec
SYMMETRY Symmetry
INVARIANTS
    TypeOK
    HandlesMatchPads
    NullEntriesAreSpent
    ControllersInOrder
    CrashNeedsLostConnect
    ListTracksDevices
    InputSettles
CHECK_DEADLOCK FALSE
