CONSTANTS
    Paths <- MCPaths
    PropLines <- MCPropLines
    Digest <- MCDigest
    StageMax = 2
    Jobs <- MCJobs
    Base = 2
    MinTemp = 2
    MaxDir = 4
    MaxFail = 8
    Items <- MCItems
    ItemKey <- MCItemKey
    ItemHash <- MCItemHash
    MaxTable = 8
    DICTMINSZ = 2
    DictKeys = {k1, k2, k3, k4}
    DictVals = {v1, v2}
    NotThere = none
    MaxDict = 4
    LowerOf <- MCLowerOf
    ThemeDirs <- MCThemeDirs
    ThemeTrees <- MCThemeTrees
    EditedFiles <- MCEditedFiles
    MaxWrites = 2
    MaxOutsideSteps = 1
SPECIFICATION Spec
CHECK_DEADLOCK FALSE
INVARIANTS ArchiveKept
INVARIANTS ErrorStops 
INVARIANTS TargetWhole MenuExact SettingsKept
PROPERTY ImplementsItemSet ImplementsKeyMap
