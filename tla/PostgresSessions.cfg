SPECIFICATION PGFairSpec
CONSTANTS
    WorkloadIds = {1}
    NodeIds <- NoNodeIds
    Fleet <- NoNodes
    Requests <- OneRequest
    NoRequest = NoRequest
    SeedRequest <- MCSeedRequest
    SeedHosts <- PendingHosts
    SeedHealth <- NoNodes
    SeedPhantom <- NoNodes
    Sessions = {s1, s2}
    NoSession = NoSession
    EventIds = {e1}
    SeedEvents = {}
PROPERTIES
    TransactionsEnd
    OnlyCommitsShow
    CommitShowsImage
