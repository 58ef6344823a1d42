CONSTANTS
    HeaderConfigs <- ConstructionHeaderConfigs
    SupportConfigs <- ConstructionSupports
    MaxSupports = 1
SPECIFICATION Spec
INVARIANTS
    TypeOK
    ModelValid
PROPERTIES
    Termination
CHECK_DEADLOCK FALSE
