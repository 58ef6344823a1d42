CONSTANTS
    HeaderConfigs <- GeometryHeaderConfigs
    SupportConfigs <- GeometrySupports
    MaxSupports = 3
SPECIFICATION Spec
INVARIANTS
    StackMatchesReference
    NoOverlap
    EnvelopeContains
CHECK_DEADLOCK FALSE
