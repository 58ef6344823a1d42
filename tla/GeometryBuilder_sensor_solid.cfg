CONSTANTS
    HeaderConfigs <- SymmetricHeaderConfigs
    SupportConfigs <- BuilderSupports
    MaxSupports = 0
    Materials <- BuilderMaterials
INIT BuilderInit
NEXT BuilderNext
INVARIANT SensorExcised
CHECK_DEADLOCK FALSE
