CONSTANTS
    hub = hub
    east = east
    kubeconfig = kubeconfig
    argocd = argocd
    team = team
    web = web
    batch = batch
    webHub = webHub
    webTeam = webTeam
    job = job
    pod = pod
    route = route
    cronjob = cronjob
    secret = secret
    Hosts = {hub, east}
    Own = Own
    Paths = {kubeconfig}
    NoPath = NoPath
    NoConfig = NoConfig
    NotInCluster = NotInCluster
    Broken = Broken
    Segments = {argocd, team, web, batch, Empty}
    Empty = Empty
    AllFlags <- MCFlags
    Machines <- MCMachines
    Apps = {webHub, webTeam, job}
    Identity <- MCIdentity
    Clusters <- MCClusters
    Destination <- MCDestination
    Kinds = {pod, route, cronjob, secret}
    Status <- MCStatus
    Found <- MCFound
    MaxSwitches = 1
SPECIFICATION Spec
INVARIANTS
    TypeOK
    OneControlPlane
    OnlyTheNamedPrinted
CHECK_DEADLOCK FALSE
