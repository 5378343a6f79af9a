SPECIFICATION Spec
CONSTANTS
    WorkloadIds <- MCWorkloadIds
    NodeIds <- MCNodeIds
    Fleet <- MCFleet
    Requests <- MCRequests
    NoRequest = NoRequest
    SeedRequest <- MCSeedRequest
    SeedHosts <- MCSeedHosts
    SeedHealth <- MCSeedHealth
    SeedPhantom <- MCSeedPhantom
INVARIANTS
    TypeOK
    PlacementConsistent
    PolicyRespected
    AllocationAccounted
    CapacityPartitioned
PROPERTIES
    EvictionRespectsQueueOrder
    EvictionBounded
    PassIsWorkConserving
    ImplementsLedger
