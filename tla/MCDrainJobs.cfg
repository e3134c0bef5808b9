SPECIFICATION FairSpec
CONSTANTS
    NoJob = NoJob
    NoPod = NoPod
    NoNode = NoNode
    Nodes = {"n1", "n2"}
    JobIds = {j1, j2}
    Names = {"p", "bare", "ds"}
    Attrs <- MCMixedPods
    InitNode <- MCOneNode
    Workers = 1
    RetentionTime = 0
    MaxTime = 1
    MaxUid = 0
INVARIANTS
    OneDrainPerNode
    SparesUnmanaged
PROPERTIES
    DrainEnds
