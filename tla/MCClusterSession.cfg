SPECIFICATION Spec
CONSTANTS
    None = None
    Clusters = {"a", "b"}
    Lists <- MCLists
    Loads = {l1, l2, l3}
    MaxGen = 3
    MaxTime = 1
SYMMETRY Symmetry
CHECK_DEADLOCK FALSE
INVARIANTS
    ShownIsSelected
    SelectedIsListed
    SwitchWins
    BusyHasOwner
    StaleIsFlagged
PROPERTIES
    NeverOvertaken
