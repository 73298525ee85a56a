CONSTANTS
    sensor = sensor
    readme = readme
    value1 = value1
    NumClusters = 7
    NumSlots = 4
    Names <- BothNames
    ShortOf <- SameAlias
    Values = {value1}
    Contents <- OneBlock
    NoName = NoName
    Zero = Zero
    Raw = Raw
    DIR = DIR
    None = None
    Mounted = {}
    MaxDirs = 1
    Careful = TRUE
    WinBlocks = 1
    Ops = {"createMac", "updateMac", "delete"}
    Trees <- OldTrees
    Shown <- Listings
    SectorBytes = 512
    LogName = sensor
    ReadmeName = readme
    Click = Click
    MaxLog = 2
SPECIFICATION DriveSpec
INVARIANTS BystandersKept SessionReads
PROPERTIES DriveDurable
