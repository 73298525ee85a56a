CONSTANTS
    name1 = name1
    name2 = name2
    value1 = value1
    value2 = value2
    NumClusters = 5
    NumSlots = 4
    Names <- TwoNames
    ShortOf <- OwnAlias
    Values = {value1, value2}
    Contents <- OneBlock
    NoName = NoName
    Zero = Zero
    Raw = Raw
    DIR = DIR
    None = None
    Mounted <- NoFile
    MaxDirs = 2
    Careful = TRUE
    WinBlocks = 1
    Ops = {"createMac", "delete", "mkdirMac", "mkdirWin", "rmdir", "move"}
SPECIFICATION Spec
INVARIANTS BystandersKept ReadBack
PROPERTIES HostOpsReflected
