SPECIFICATION ServiceSpec
CONSTANTS
    WorkloadIds = {1, 2, 3}
    NodeIds <- MCNodeIds
    Fleet <- MCFleet
    Requests <- MCRequests
    NoRequest = NoRequest
    SeedRequest <- MCSeedRequest
    SeedHosts <- MCSeedHosts
    SeedHealth <- MCSeedHealth
    SeedPhantom <- MCSeedPhantom
    Clients = {c1, c2}
    NoWorkload = NoWorkload
    MaxFaults = 0
    Loop = loop
    Posted <- MCPosted
    Simulations <- MCSimulations
    MaxSnapshots = 3
    MaxCalls = 2
SYMMETRY ClientSymmetry
INVARIANTS
    ServiceTypeOK
    PresentStateSampled
    LogTellsState
PROPERTIES
    FailedSimulationLeavesNothing
