CONSTANTS
    Names <- MCNames
    a1 = a1
    a2 = a2
    a3 = a3
    a4 = a4
    east = east
    west = west
    prod = prod
    ghost = ghost
    None = None
    Apps <- SingleApps
    Servers = {east}
    ClusterNames = {prod}
    WorkerLimit = 2
    Destination <- SingleDestination
    ServersNamed <- SingleNames
    Status <- SingleStatus
    Manifests <- SingleManifests
    ApiResources <- SingleApis
    CrdResources <- SingleCrds
    Pages <- SinglePages
    Faults = {"discovery"}
SPECIFICATION Spec
INVARIANTS
    TypeOK
    SyncExclusive
    DependencyTreeComplete
    ReportJustified
    HealthyAppsReported
