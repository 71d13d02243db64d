CONSTANTS
    Names <- MCNames
    a1 = a1
    a2 = a2
    a3 = a3
    a4 = a4
    east = east
    west = west
    prod = prod
    ghost = ghost
    None = None
    Apps <- TwoApps
    Servers = {east, west}
    ClusterNames = {ghost}
    WorkerLimit = 2
    Destination <- TwoDestination
    ServersNamed <- TwoNames
    Status <- TwoStatus
    Manifests <- TwoManifests
    ApiResources <- TwoApis
    CrdResources <- TwoCrds
    Pages <- TwoPages
    Faults = {}
SPECIFICATION Spec
INVARIANT DependencyTreeComplete
