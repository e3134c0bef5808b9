SPECIFICATION Spec
CONSTANTS
    NoJob = NoJob
    NoPod = NoPod
    NoNode = NoNode
    Nodes = {"n1", "n2"}
    JobIds = {j1}
    Names = {p, q, s}
    Attrs <- MCManagedPods
    InitNode <- MCOneNode
    Workers = 2
    RetentionTime = 0
    MaxTime = 0
    MaxUid = 1
SYMMETRY SymmetricPods
INVARIANTS
    SucceededMeansGone
    RecordedIsGone
    RemainingIsExact
    NoStragglers
