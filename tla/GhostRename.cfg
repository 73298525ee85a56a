CONSTANTS
    name1 = name1
    name2 = name2
    value1 = value1
    value2 = value2
    NumClusters = 4
    NumSlots = 4
    Names <- TwoNames
    ShortOf <- OwnAlias
    Values = {value1, value2}
    Contents <- OneBlock
    NoName = NoName
    Zero = Zero
    Raw = Raw
    DIR = DIR
    None = None
    Mounted <- NoFile
    MaxDirs = 1
    Careful = FALSE
    WinBlocks = 1
    Ops = {"createMac", "renameMac", "touch"}
SPECIFICATION Spec
INVARIANT BystandersKept
