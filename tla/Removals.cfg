CONSTANTS
    Roots = {"a", "b", "c"}
    Identities = {"a", "b", "c"}
    Leaves = {1, 2}
    NoRoot = NoRoot
    NoReceipt = NoReceipt
    Trees <- MCTrees
    Rules <- MCRules
    MaxPresses = 3
    MaxEdits = 2
SPECIFICATION Spec
CHECK_DEADLOCK FALSE
INVARIANTS
    TypeOK
    SuccessIsPressable
    VerifyFollowsPress
    HistoryWritable
    RemovesOnlySaved
PROPERTIES
    RemovalsStayRecorded
