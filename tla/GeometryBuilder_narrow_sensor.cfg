CONSTANTS
    HeaderConfigs <- NarrowHeaderConfigs
    SupportConfigs <- BuilderSupports
    MaxSupports = 0
    Materials <- BuilderMaterials
INIT BuilderInit
NEXT BuilderNext
INVARIANT WrapperContains
CHECK_DEADLOCK FALSE
