CONSTANTS
    Raws <- MCRaws
    Near = 2
    Far = 3
SPECIFICATION Spec
INVARIANTS
    TypeOK
    CalibrationIsOrdered
    ValueIsFaithful
    AxisIsMonotone
PROPERTY LearningOnlyWeakens
