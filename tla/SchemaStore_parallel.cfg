SPECIFICATION MCSpec
SYMMETRY Symmetry
CONSTANTS
    Identity <- MCIdentity
    Root = ""
    Parent <- MCParent
    Role <- MCRole
    Visit <- MCVisit
    Number <- MCNumber
    Name <- MCName
    NoName = "none"
    Storage <- MCStorage
    Base <- MCBase
    KindOf <- MCKindOf
    Refinement <- MCRefinement
    EnumValue <- MCEnumValue
    NoShape = NoShape
    Descriptors <- MCDescriptors
    MaxStableId = 4
    Message = {"M", "N"}
    TableName <- MCTableName
    Sources <- MCSources
    Process = {p1, p2}
    MaxOverlapping = 2
    MaxRendered = 0
    MaxPowerLosses = 0
PROPERTIES
    RootsAppendOnly
