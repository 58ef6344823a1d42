CONSTANTS
    HeaderConfigs <- GeometryHeaderConfigs
    SupportConfigs <- ZeroSupports
    MaxSupports = 2
SPECIFICATION Spec
INVARIANTS
    StrictlyFarther
CHECK_DEADLOCK FALSE
