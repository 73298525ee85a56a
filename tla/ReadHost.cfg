CONSTANTS
    name1 = name1
    name2 = name2
    value1 = value1
    value2 = value2
    NumClusters = 7
    NumSlots = 4
    Names <- TwoNames
    ShortOf <- OwnAlias
    Values = {value1, value2}
    Contents <- UpToThree
    NoName = NoName
    Zero = Zero
    Raw = Raw
    DIR = DIR
    None = None
    Mounted <- MaybeTwo
    MaxDirs = 1
    Careful = TRUE
    WinBlocks = 1
    Ops = {"createMac", "renameMac", "touch", "read"}
SPECIFICATION Spec
INVARIANTS TypeOK ReadBack
PROPERTIES HostOpsReflected
