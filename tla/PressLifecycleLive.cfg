CONSTANTS
    Identities = {A, B}
    Ordinary = {manifest}
    Manifest = manifest
    Edits = {pyproject}
    Regens = {}
    Resets = {changelog}
    Removes = {history_md}
    Builtin = {}
    ExtraExcluded = {changelog}
    Ignored = {}
    Absent = Absent
    Planned = Planned
    Forged = Forged
    Blocked = Blocked
    NoId = NoId
    CommandLines <- MCCommandLines
    Damages <- MCDamages
    MaxTouched = 1
    MaxMishaps = 1
SPECIFICATION LifecycleLiveSpec
CHECK_DEADLOCK FALSE
PROPERTIES
    KeepsGettingPressed
    EachRunEnds
