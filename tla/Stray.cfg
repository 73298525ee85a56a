CONSTANTS
    name1 = name1
    name2 = name2
    NumClusters = 1100
    NumSlots = 4
    Names <- RealNames
    ShortOf <- OwnAlias
    Values = {}
    NoName = NoName
    Zero = Zero
    Raw = Raw
    DIR = DIR
    Trees <- LongFiles
    Shown <- OwnNames
    SectorBytes = 512
SPECIFICATION MountOnly
INVARIANT FirstBlocksRead
