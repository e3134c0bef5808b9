SPECIFICATION FairSpec
CONSTANTS
    NoRequest = NoRequest
    NoId = NoId
    NoOne = NoOne
    NoCluster = NoCluster
    Targets <- MCTargets
    Namespaces = {"ns"}
    ReplicaCounts = {1}
    MaxReplicas = 0
    AllowedNamespaces = {}
    AllowedNodes = {}
    ProtectedNodes = {"master"}
    DisableDrain = FALSE
    ApprovalOps = {"cordon"}
    Ids = {i1}
    Handlers = {h1, h2}
    Identities = {alice, bob}
    Clusters = {c1, c2}
    Mutations <- MCMutations
    AuthModes = {TRUE, FALSE}
    MayPanic = FALSE
    TTL = 1
    MinRetention = 1
    MaxTime = 2
INVARIANTS
    OwnershipHolds
    TwoPersonRule
    DrainGuardedAsCordon
PROPERTIES
    ImplementsFlow
    ApprovedResolves
