CONSTANTS
    Roots = {"a", "b", "c"}
    Identities = {"a", "b", "c"}
    Leaves = {1, 2}
    NoRoot = NoRoot
    NoReceipt = NoReceipt
    Trees <- MCTrees
    Rules <- MCRules
    MaxPresses = 2
    MaxEdits = 1
SPECIFICATION Spec
CHECK_DEADLOCK FALSE
INVARIANTS
    OnlySelectedDeleted
