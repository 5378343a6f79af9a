SPECIFICATION PGSpec
CONSTANTS
    WorkloadIds = {1, 2}
    NodeIds <- ClaimNodeIds
    Fleet <- ClaimFleet
    Requests <- OneRequest
    NoRequest = NoRequest
    SeedRequest <- ClaimSeedRequest
    SeedHosts <- ClaimSeedHosts
    SeedHealth <- ClaimSeedHealth
    SeedPhantom <- ClaimSeedPhantom
    Sessions = {s1, s2}
    NoSession = NoSession
    EventIds = {}
    SeedEvents = {}
INVARIANTS
    NoDoubleAllocation
