CONSTANTS
    MaxPlugs = 4
    QueueBound = 2
    Indices <- MCIndices
SPECIFICATION FairSpec
INVARIANTS
    TypeOK
    ReadsAnswerTheirRequest
    ExpansionIsFollowedUnlessMissed
    LedShowsPlayer
PROPERTIES
    StateIsOfThisExpansion
    HandshakeEnds
CHECK_DEADLOCK FALSE
