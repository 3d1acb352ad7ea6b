CONSTANTS
    Identities = {A, B}
    Ordinary = {manifest}
    Manifest = manifest
    Edits = {pyproject}
    Regens = {lock}
    Resets = {changelog}
    Removes = {history_md}
    Builtin = {lock}
    ExtraExcluded = {changelog}
    Ignored = {}
    Absent = Absent
    Planned = Planned
    Forged = Forged
    Blocked = Blocked
    NoId = NoId
    CommandLines <- MCCommandLines
    Damages <- MCDamages
    MaxTouched = 1
    MaxMishaps = 1
SPECIFICATION Spec
SYMMETRY IdentitySymmetry
CHECK_DEADLOCK FALSE
INVARIANTS
    RemovedStaysRemoved
