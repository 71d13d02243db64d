CONSTANTS
    Names <- MCNames
    s1 = s1
    s2 = s2
    a1 = a1
    a2 = a2
    a3 = a3
    op = op
    d1 = d1
    d2 = d2
    r1 = r1
    r2 = r2
    pod = pod
    cm = cm
    ns = ns
    cert = cert
    sec = sec
    Resources = {op, d1, d2, r1, r2, pod, cm, ns, cert, sec}
    Kind <- MCKind
    Servers = {s1, s2}
    Connected <- MCConnected
    Apps = {a1, a2, a3}
    Destination <- MCDestination
    Manifests <- MCManifests
    Status <- MCStatus
    ByName = {a3}
    Faults = {"list", "manifests", "name", "server", "executor", "query", "status"}
    SharedExecutor = FALSE
SPECIFICATION Spec
INVARIANTS
    TypeOK
    DependencyTreeComplete
    StatusReported
    QueriedKindsReported
PROPERTIES
    ImplementsAnalysis
    AnalysisEnds
CHECK_DEADLOCK FALSE
