CONSTANTS
    MaxPlugs = 3
    QueueBound = 2
    Indices <- MCOnePlayer
SPECIFICATION Spec
INVARIANT ExpansionIsFollowed
CHECK_DEADLOCK FALSE
