CONSTANTS
    HeaderConfigs <- AsymmetricHeaderConfigs
    SupportConfigs <- BuilderSupports
    MaxSupports = 0
    Materials <- BuilderMaterials
INIT BuilderInit
NEXT BuilderNext
INVARIANT ImplantsInCells
CHECK_DEADLOCK FALSE
