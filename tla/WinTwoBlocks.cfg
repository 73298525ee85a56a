CONSTANTS
    name1 = name1
    name2 = name2
    value1 = value1
    value2 = value2
    NumClusters = 5
    NumSlots = 4
    Names <- TwoNames
    ShortOf <- OwnAlias
    Values = {value1, value2}
    Contents <- TwoBlocks
    NoName = NoName
    Zero = Zero
    Raw = Raw
    DIR = DIR
    None = None
    Mounted <- NoFile
    MaxDirs = 1
    Careful = TRUE
    WinBlocks = 2
    Ops = {"createWin", "touch"}
SPECIFICATION Spec
PROPERTY HostOpsReflected
