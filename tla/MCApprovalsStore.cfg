SPECIFICATION Spec
CONSTANTS
    NoRequest = NoRequest
    NoId = NoId
    NoOne = NoOne
    NoCluster = NoCluster
    Targets <- MCTargets
    Namespaces = {"ns"}
    ReplicaCounts = {1}
    MaxReplicas = 0
    AllowedNamespaces = {}
    AllowedNodes = {}
    ProtectedNodes = {"master"}
    DisableDrain = FALSE
    ApprovalOps = {"cordon"}
    Ids = {i1, i2}
    Handlers = {h1, h2}
    Identities = {alice, bob}
    Clusters = {c1}
    Mutations <- MCOneMutation
    AuthModes = {TRUE}
    MayPanic = TRUE
    TTL = 1
    MinRetention = 1
    MaxTime = 2
SYMMETRY Symmetry
INVARIANTS
    TypeOK
    RunsAtMostOnce
    ApprovedIsHeld
    RefusedNeverRuns
    OutcomeAudited
PROPERTIES
    ApprovedInTime
