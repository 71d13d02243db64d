CONSTANTS
    Names <- MCNames
    a1 = a1
    a2 = a2
    a3 = a3
    a4 = a4
    east = east
    west = west
    prod = prod
    ghost = ghost
    None = None
    Apps <- PairApps
    Servers = {east, west}
    ClusterNames = {ghost}
    WorkerLimit = 2
    Destination <- PairDestination
    ServersNamed <- PairNames
    Status <- PairStatus
    Manifests <- PairManifests
    ApiResources <- PairApis
    CrdResources <- PairCrds
    Pages <- PairPages
    Faults = {"applications", "cluster", "mapper", "manifests", "list"}
SPECIFICATION Spec
INVARIANTS
    SyncExclusive
    NoKeySyncedTwice
    NoWaitInVain
    DependencyTreeComplete
PROPERTIES
    CacheOnlyGrows
    ImplementsAnalysis
    AnalysisReturns
