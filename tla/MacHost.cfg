CONSTANTS
    name1 = name1
    name2 = name2
    value1 = value1
    value2 = value2
    NumClusters = 6
    NumSlots = 4
    Names <- TwoNames
    ShortOf <- OwnAlias
    Values = {value1, value2}
    Contents <- TwoBlocks
    NoName = NoName
    Zero = Zero
    Raw = Raw
    DIR = DIR
    None = None
    Mounted <- MaybeTwo
    MaxDirs = 1
    Careful = TRUE
    WinBlocks = 1
    Ops = {"createMac", "updateMac", "delete", "touch"}
SPECIFICATION Spec
INVARIANTS BystandersKept ReadBack MacUpdateAtomic
PROPERTIES HostOpsReflected OpsComplete
