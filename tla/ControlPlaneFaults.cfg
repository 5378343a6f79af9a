SPECIFICATION CPSpec
CONSTANTS
    WorkloadIds <- LiveWorkloadIds
    NodeIds <- MCNodeIds
    Fleet <- MCFleet
    Requests <- MCRequests
    NoRequest = NoRequest
    SeedRequest <- MCSeedRequest
    SeedHosts <- MCSeedHosts
    SeedHealth <- MCSeedHealth
    SeedPhantom <- MCSeedPhantom
    Clients = {c1}
    NoWorkload = NoWorkload
    MaxFaults = 1
PROPERTIES
    ExpiredWorkCompletes
    RecoveringNodesHeal
    QueuedWorkScheduled
