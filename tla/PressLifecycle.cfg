CONSTANTS
    Identities = {A, B}
    Ordinary = {manifest, vendored}
    Manifest = manifest
    Edits = {pyproject}
    Regens = {}
    Resets = {changelog}
    Removes = {history_md}
    Builtin = {}
    ExtraExcluded = {changelog, vendored}
    Ignored = {vendored}
    Absent = Absent
    Planned = Planned
    Forged = Forged
    Blocked = Blocked
    NoId = NoId
    CommandLines <- MCCommandLines
    Damages <- MCDamages
    MaxTouched = 1
    MaxMishaps = 2
SPECIFICATION LifecycleSpec
SYMMETRY IdentitySymmetry
CHECK_DEADLOCK FALSE
INVARIANTS
    ReceiptDescribesTree
    HeadReceiptTrue
    RestoredIsPressable
PROPERTIES
    OnlyVerifiedCommits
    VerifiesThenMarks
