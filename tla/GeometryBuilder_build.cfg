CONSTANTS
    HeaderConfigs <- BuilderHeaderConfigs
    SupportConfigs <- BuilderSupports
    MaxSupports = 2
    Materials <- BuilderMaterials
INIT BuilderInit
NEXT BuilderNext
INVARIANTS
    BuilderTypeOK
    WrapperContainsCovered
    BuildComplete
CHECK_DEADLOCK FALSE
