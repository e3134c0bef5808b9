SPECIFICATION Spec
CONSTANTS
    None = None
    Clusters = {"a", "b"}
    Lists <- MCListsEmpty
    Loads = {l1}
    MaxGen = 1
    MaxTime = 0
CHECK_DEADLOCK FALSE
INVARIANTS
    StaleIsFlagged
