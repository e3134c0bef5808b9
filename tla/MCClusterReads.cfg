SPECIFICATION FairSpec
CONSTANTS
    Pending = Pending
    Erring = Erring
    Failed = Failed
    Own = "own"
    Histories <- MCHistories
    EventLists <- MCEventLists
    Queries <- MCQueries
    DefaultLimit = 2
    MaxFailures = 2
INVARIANTS
    SnapshotIsFaithful
    FeedIsNewest
PROPERTIES
    LoadEnds
