CONSTANTS
    Names <- MCNames
    a1 = a1
    a2 = a2
    a3 = a3
    a4 = a4
    east = east
    west = west
    prod = prod
    ghost = ghost
    None = None
    Apps <- TwoApps
    Servers = {east}
    ClusterNames = {ghost}
    WorkerLimit = 2
    Destination <- RescanDestination
    ServersNamed <- TwoNames
    Status <- TwoStatus
    Manifests <- RescanManifests
    ApiResources <- RescanApis
    CrdResources <- RescanCrds
    Pages <- RescanPages
    Faults = {}
SPECIFICATION Spec
PROPERTY SyncOnlyWhenMissing
