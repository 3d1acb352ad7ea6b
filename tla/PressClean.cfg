CONSTANTS
    Entries = {"gi", "ctl", "f", "x"}
    Top = {"gi", "f"}
    PolicyFile = "gi"
    Base = {"x"}
    Texts <- MCTexts
    Kinds = {"file", "symlink"}
    Starts <- MCStarts
    MaxChanges = 2
    Within <- MCWithin
    Controls = {"ctl"}
    Selections <- MCSelections
    NoItem = NoItem
SPECIFICATION Spec
CHECK_DEADLOCK FALSE
INVARIANTS
    TypeOK
    SnapshotWasReal
    ExitTellsAttempts
    ExitZeroCleans
PROPERTIES
    RemovedAsPlanned
    InputsSurvive
