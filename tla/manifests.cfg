CONSTANTS
    byServer = byServer
    byName = byName
    adrift = adrift
    old = old
    new = new
    prod = prod
    chart = chart
    overlay = overlay
    deployment = deployment
    gateway = gateway
    None = None
    Apps = {byServer, byName, adrift}
    Servers = {old, new}
    ClusterNames = {prod}
    Destination <- MCDestination
    AllSources = {chart, overlay}
    Sources <- MCSources
    Infos = {deployment, gateway}
    Rendered <- MCRendered
    Registries <- MCRegistries
    MaxChanges = 1
SPECIFICATION Spec
INVARIANTS
    TypeOK
    RenderedForDestination
PROPERTY ImplementsAtomicFetch
CHECK_DEADLOCK FALSE
