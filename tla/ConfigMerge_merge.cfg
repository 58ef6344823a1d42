CONSTANTS
    Headers <- MergeHeaders
    Sections <- MergeSections
    MaxSections = 4
INIT Init
NEXT Next
INVARIANTS
    ConfigTypeOK
    MergeResult
CHECK_DEADLOCK FALSE
