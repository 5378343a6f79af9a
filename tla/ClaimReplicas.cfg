SPECIFICATION Spec
CONSTANTS
    WorkloadIds <- MCWorkloadIds
    NodeIds <- MCNodeIds
    Fleet <- ClaimFleet
    Requests <- ClaimRequests
    NoRequest = NoRequest
    SeedRequest <- ClaimSeedRequest
    SeedHosts <- ClaimSeedHosts
    SeedHealth <- ClaimSeedHealth
    SeedPhantom <- ClaimSeedPhantom
INVARIANTS
    LostReplicasReplaced
