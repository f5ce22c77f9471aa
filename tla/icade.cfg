CONSTANTS
    Keys = {"LEFT", "RIGHT", "UP", "LW_LF", "SELECT", "START"}
    MaxNesting = 2
SPECIFICATION Spec
INVARIANTS
    ElementsAreCurrent
    StateIsHeld
