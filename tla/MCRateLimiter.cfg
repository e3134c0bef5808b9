SPECIFICATION Spec
CONSTANTS
    NoBucket = NoBucket
    Keys = {k1, k2, k3}
    Cost = 3
    Rate = 2
    Capacity = 6
    EvictAfter = 3
    MaxBuckets = 2
    MaxTime = 6
SYMMETRY Symmetry
INVARIANTS
    TypeOK
    BoundedMemory
    QuotaHolds
    PatientClientServed
