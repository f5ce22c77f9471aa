CONSTANTS
    pad1 = pad1
    pad2 = pad2
    unknownPad = unknownPad
    released = released
    pressed = pressed
    Null = Null
    MaxHandle = 2
    Capacity = 2
    Pads <- MCOnePad
    Recognised <- MCOnePad
    Inputs <- MCOneInput
    Released = released
    Indices <- MCIndices
SPECIFICATION FairSpec
INVARIANTS
    IndexSettles
PROPERTIES
    KeepsPromise
    ListCatchesUp
    IndexArrives
CHECK_DEADLOCK FALSE
