CONSTANTS
    HeaderConfigs <- RefinementHeaderConfigs
    SupportConfigs <- RefinementSupports
    MaxSupports = 3
SPECIFICATION Spec
PROPERTIES
    AbstractSpec
CHECK_DEADLOCK FALSE
