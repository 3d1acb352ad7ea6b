CONSTANTS
    Nodes = {1, 2}
    Lines <- MCLines
    MaxHits = 2
    Targets <- MCTargets
    Configs <- MCConfigs
    Edits <- MCEdits
    MaxEdits = 1
SPECIFICATION FairSpec
CHECK_DEADLOCK FALSE
INVARIANTS
    TypeOK
    NoFalseClean
    NoFalseAlarm
    IgnoresExact
PROPERTIES
    CopyRemoved
