CONSTANTS
    SectorSize = 4
    NumSectors = 4
    FatValues <- Patterns
    Images <- Filled
    Chains <- ManyChains
SPECIFICATION Spec
INVARIANT TypeOK
PROPERTIES UpdateIsSet TableRefined BulkIsChain
