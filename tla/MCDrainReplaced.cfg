SPECIFICATION Spec
CONSTANTS
    NoJob = NoJob
    NoPod = NoPod
    NoNode = NoNode
    Nodes = {"n1", "n2"}
    JobIds = {j1}
    Names = {p}
    Attrs <- MCManagedPods
    InitNode <- MCOneNode
    Workers = 1
    RetentionTime = 0
    MaxTime = 0
    MaxUid = 1
INVARIANTS
    EvictsWhatItListed
