SPECIFICATION CPSpec
CONSTANTS
    WorkloadIds <- MCWorkloadIds
    NodeIds <- MCNodeIds
    Fleet <- MCFleet
    Requests <- MCRequests
    NoRequest = NoRequest
    SeedRequest <- MCSeedRequest
    SeedHosts <- MCSeedHosts
    SeedHealth <- MCSeedHealth
    SeedPhantom <- MCSeedPhantom
    Clients = {c1, c2}
    NoWorkload = NoWorkload
    MaxFaults = 1
INVARIANTS
    CPTypeOK
    NoLostWakeup
