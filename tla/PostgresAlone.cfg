SPECIFICATION PGSpec
CONSTANTS
    WorkloadIds = {1, 2, 3}
    NodeIds <- MCNodeIds
    Fleet <- MCFleet
    Requests <- MCRequests
    NoRequest = NoRequest
    SeedRequest <- MCSeedRequest
    SeedHosts <- MCSeedHosts
    SeedHealth <- MCSeedHealth
    SeedPhantom <- MCSeedPhantom
    Sessions = {s1}
    NoSession = NoSession
    EventIds = {e1}
    SeedEvents = {}
INVARIANTS
    PGTypeOK
    CommittedSound
PROPERTIES
    WorkloadsDurable
    EventsDurable
