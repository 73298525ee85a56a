CONSTANTS
    NumClusters = 18
    NumSlots = 4
    Names <- AllNames
    ShortOf <- ByName
    Values = {}
    NoName = NoName
    Zero = Zero
    Raw = Raw
    DIR = DIR
    Trees <- AllTrees
    Shown <- SlotNames
    SectorBytes = 4
SPECIFICATION BuildSpec
INVARIANTS NamesRestored ChainsApart ChainsWhole VolumeBuilt TreeShown
PROPERTIES BuildEnds
